------------------------- MODULE MC_AdmissionServer -------------------------
(* Model-checking instance of AdmissionServer: three goroutines call Close. *)
EXTENDS AdmissionServer, TLC

CONSTANTS c1, c2, c3, NoOne

MC_Closers == {c1, c2, c3}

MC_Symmetry == Permutations(MC_Closers)
=============================================================================
