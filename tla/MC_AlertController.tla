-------------------------- MODULE MC_AlertController --------------------------
(* Model-checking instance of AlertController: three documents, two of   *)
(* them (old and new content) of the same product.  The Status Store is   *)
(* left out (no indicators): the controller never reads it.               *)
EXTENDS AlertController, TLC

CONSTANTS d1, d2, d3, p1, p2, v1, None, Absent

MC_Ids == {d1, d2, d3}
MC_Products == {p1, p2}
MC_ProductOf == (d1 :> p1) @@ (d2 :> p1) @@ (d3 :> p2)
MC_Values == {v1}
=============================================================================
