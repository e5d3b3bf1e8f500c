--------------------------- MODULE MC_DocumentRead ---------------------------
(* Model-checking instance of DocumentRead: key k2 is written "k1_<rest>", *)
(* expressions of up to two atoms, one text value and one "$" value; an   *)
(* override may name k3, a key that is not a valid regexp.                *)
EXTENDS DocumentRead

CONSTANTS k1, k2, k3, None

\* k3 is written "k(" : only an override flag names it.
MC_Keys == {k1, k2, k3}
MC_Stem == (k1 :> None) @@ (k2 :> k1) @@ (k3 :> None)
MC_BadPattern == {k3}

Atoms == {Ref(k1, FALSE), Ref(k2, FALSE), Ref(k2, TRUE), Text("t")}
LabelValues == {<<Text("a")>>, <<Ref(k1, FALSE)>>}
LabelMaps == UNION {[D -> LabelValues] : D \in SUBSET {k1, k2}}

NoKw == [level |-> "warning", lt |-> "", lte |-> "", eq |-> "", neq |-> "", gte |-> "", gt |-> ""]
MC_Thresholds ==
    { <<>>,
      <<[NoKw EXCEPT !.gte = "10", !.lt = "20"]>>,
      <<[NoKw EXCEPT !.lte = "bad", !.eq = "10"]>>,
      <<[NoKw EXCEPT !.eq = "10", !.gt = "bad"]>> }

MC_Documents ==
    {[wellFormed |-> TRUE, schemaValid |-> sv, version |-> v, promql |-> p,
      labelsAt |-> la, labels |-> l, thresholds |-> th] :
        sv \in BOOLEAN, v \in {"v0", "v1", "x"}, p \in SeqOf(Atoms, 2),
        la \in {"labels", "metadata", "none"}, l \in LabelMaps, th \in MC_Thresholds}
    \cup {[wellFormed |-> FALSE, schemaValid |-> FALSE, version |-> "v1", promql |-> <<>>,
           labelsAt |-> "labels", labels |-> <<>>, thresholds |-> <<>>]}

MC_Flags ==
    { <<>>,
      <<<<k1, Text("o")>>>>,
      <<<<k3, Text("o")>>>>,
      <<<<k2>>, <<k1, Text("a"), Text("x")>>, <<k1, Text("o")>>>> }
=============================================================================
