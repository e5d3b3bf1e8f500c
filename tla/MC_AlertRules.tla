---------------------------- MODULE MC_AlertRules ----------------------------
(* Model-checking instance of AlertRules: documents of one or two          *)
(* indicators with up to two thresholds each, and metadata labels that do  *)
(* or do not use a reserved key.                                            *)
EXTENDS AlertRules

Thresholds ==
    {<<>>}
    \cup {<<[level |-> l, operator |-> "gte", value |-> 10]>> : l \in {"warning", "critical"}}
    \cup {<<[level |-> l, operator |-> "gte", value |-> 10],
            [level |-> m, operator |-> "gte", value |-> 20]>> :
              l \in {"warning", "critical"}, m \in {"warning", "critical"}}

Ind(n, ts) == [name |-> n, promql |-> <<"rate", "$step">>,
               alert |-> [for |-> "5m", step |-> "1m"], thresholds |-> ts]

MetadataLabels ==
    {<<>>, [deployment |-> "d1"], [level |-> "page"], [version |-> "v2"]}

MC_Documents ==
    {[product |-> [name |-> "p", version |-> "v1"], labels |-> md,
      indicators |-> is] :
        md \in MetadataLabels,
        is \in {<<Ind("a", ts)>> : ts \in Thresholds}
               \cup {<<Ind("a", ts), Ind(n, us)>> :
                        ts \in Thresholds, us \in Thresholds, n \in {"a", "b"}}}
=============================================================================
