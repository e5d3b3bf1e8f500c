----------------------------- MODULE MC_Registry -----------------------------
(* Model-checking instance of Registry: two documents, one indicator.     *)
EXTENDS Registry

CONSTANTS d1, d2, i1, v1, None

MC_Ids == {d1, d2}
MC_Indicators == {i1}
MC_Values == {v1}
=============================================================================
