------------------------------ MODULE AlertRules ------------------------------
(***************************************************************************)
(* The Prometheus rule generation of pkg/prometheus_alerts/alerting_rules.go: *)
(* AlertDocumentFrom turns one indicator document into one rule group     *)
(* named after the product, with one rule per (indicator, threshold) in   *)
(* document order.  ruleFrom labels a rule with product, version and the   *)
(* threshold's level, then copies the document's metadata labels over    *)
(* them, and replaces "$step" in the query by the indicator's alert step. *)
(*                                                                         *)
(* A query is a sequence of tokens (the token "$step" is the variable);   *)
(* the comparator and value are kept as the threshold holds them, since   *)
(* GetComparator is not code of this repository.  Annotations are left out.*)
(***************************************************************************)
EXTENDS Naturals, Sequences, SequencesExt

CONSTANTS
    Documents    \* the documents the controller renders

\* labels := {product, version, level}; for k, v := range metadata labels:
\* labels[k] = v.  The metadata wins: @@ keeps its left operand's values.
ruleLabels(document, threshold) ==
    document.labels @@ [l \in {"product", "version", "level"} |->
                           CASE l = "product" -> document.product.name
                             [] l = "version" -> document.product.version
                             [] OTHER         -> threshold.level]

\* Mutant of ruleFrom: product and version labels only, no level label.
ruleFromNoLevel(document, i, threshold) ==
    [alert  |-> i.name,
     expr   |-> [query |-> [n \in DOMAIN i.promql |->
                              IF i.promql[n] = "$step" THEN i.alert.step ELSE i.promql[n]],
                 operator |-> threshold.operator, value |-> threshold.value],
     for    |-> i.alert.for,
     labels |-> document.labels @@ [l \in {"product", "version"} |->
                    IF l = "product" THEN document.product.name ELSE document.product.version]]

\* ruleFrom: strings.Replace(i.PromQL, "$step", i.Alert.Step, -1) and the
\* comparison with the threshold.
ruleFrom(document, i, threshold) ==
    [alert  |-> i.name,
     expr   |-> [query |-> [n \in DOMAIN i.promql |->
                              IF i.promql[n] = "$step" THEN i.alert.step ELSE i.promql[n]],
                 operator |-> threshold.operator, value |-> threshold.value],
     for    |-> i.alert.for,
     labels |-> ruleLabels(document, threshold)]

\* AlertDocumentFrom: the nested loop over indicators and their thresholds.
AlertDocumentFrom(document) ==
    LET ind == document.indicators
    IN  [groups |-> <<[name  |-> document.product.name,
                       rules |-> FlattenSeq([n \in DOMAIN ind |->
                                   [t \in DOMAIN ind[n].thresholds |->
                                       ruleFrom(document, ind[n], ind[n].thresholds[t])]])]>>]

NoFile == [none |-> TRUE]

VARIABLES
    doc,     \* the document writeDocuments reached
    file     \* the rule document marshalled into its file, or NoFile

vars == <<doc, file>>

Init == doc \in Documents /\ file = NoFile

\* writeDocuments, one iteration: yaml.Marshal(AlertDocumentFrom(d)).
Render ==
    /\ file = NoFile
    /\ file' = AlertDocumentFrom(doc)
    /\ UNCHANGED doc

Rendered == file # NoFile /\ UNCHANGED vars

Next == Render \/ Rendered

Spec == Init /\ [][Next]_vars

----------------------------------------------------------------------------
(* Properties.                                                             *)

Rules == file.groups[1].rules

\* Within a document, indicator names are distinct and the levels of one
\* indicator's thresholds are distinct (what a document author means by
\* "warning" and "critical" of one indicator).
WellFormedDocument(d) ==
    /\ \A m, n \in DOMAIN d.indicators :
          d.indicators[m].name = d.indicators[n].name => m = n
    /\ \A n \in DOMAIN d.indicators :
          \A s, t \in DOMAIN d.indicators[n].thresholds :
             d.indicators[n].thresholds[s].level = d.indicators[n].thresholds[t].level => s = t

\* Prometheus identifies an alert by its name and labels; two rules with
\* the same identity fire as one alert.
DistinctIdentities ==
    \A r, s \in DOMAIN Rules :
        r # s => <<Rules[r].alert, Rules[r].labels>> # <<Rules[s].alert, Rules[s].labels>>

\* For a well-formed document whose metadata labels do not use the keys
\* ruleFrom reserves, every rule of the generated file has its own alert
\* identity: the level label keeps a warning and a critical threshold of
\* one indicator apart.
RuleIdentitiesDistinct ==
    (file # NoFile /\ WellFormedDocument(doc)
                   /\ DOMAIN doc.labels \cap {"product", "version", "level"} = {})
        => DistinctIdentities

\* The same for any metadata labels: a document's metadata may carry any
\* key (ruleFrom copies every one over the reserved labels).
RuleIdentitiesDistinctAnyMetadata ==
    (file # NoFile /\ WellFormedDocument(doc)) => DistinctIdentities

=============================================================================
