---------------------------- MODULE MC_Defaulting ----------------------------
(* Model-checking instance of Defaulting: Indicators with every shape of   *)
(* alert and presentation, documents of one indicator with or without a    *)
(* layout, and documents of two indicators over fewer presentations.       *)
EXTENDS Defaulting

Alerts == [for : {"", "5m"}, step : {"", "30m"}]
Presentations ==
    [chartType : {"", "bar"}, currentValue : BOOLEAN, frequency : {0, 10},
     labels : {"nil", "empty", "set"}]
FewPresentations ==
    {NoPresentation,
     [chartType |-> "", currentValue |-> FALSE, frequency |-> 10, labels |-> "nil"],
     [chartType |-> "step", currentValue |-> FALSE, frequency |-> 0, labels |-> "empty"]}
UserLayout == [title |-> "Bar", owner |-> "", description |-> "", sectionsNonNil |-> TRUE,
               sections |-> <<[title |-> "Metrics", indicators |-> <<"latency">>]>>]
\* "layout: {sections: []}" and "layout: {owner: team}" as a client sends them.
EmptySectionsLayout == [NoLayout EXCEPT !.sectionsNonNil = TRUE]
OwnerOnlyLayout == [NoLayout EXCEPT !.owner = "team"]

Ind(n, a, p) == [name |-> n, alert |-> a, presentation |-> p]

MC_Objects ==
    {[spec |-> Ind("latency", a, p)] : a \in Alerts, p \in Presentations}
    \cup {[layout |-> l, indicators |-> <<Ind("latency", a, p)>>] :
              l \in {NoLayout, UserLayout, EmptySectionsLayout, OwnerOnlyLayout}, a \in Alerts, p \in Presentations}
    \cup {[layout |-> NoLayout, indicators |-> <<Ind("latency", a, p), Ind("errors", b, q)>>] :
              a \in Alerts, b \in Alerts, p \in FewPresentations, q \in FewPresentations}
=============================================================================
