------------------------------ MODULE Defaulting ------------------------------
(***************************************************************************)
(* The defaulting and validating admission handlers of                    *)
(* k8s/pkg/admission/server.go, inside the Kubernetes API server's        *)
(* admission chain for one CREATE or UPDATE: the mutating webhook answers *)
(* with a JSON patch, the API server applies it (RFC 6902 "add" replaces  *)
(* an existing member), the validating webhook admits or denies the       *)
(* patched object, and an admitted object is persisted.                   *)
(*                                                                         *)
(* An object is an IndicatorDocument [layout, indicators] or an Indicator *)
(* [spec]; a JSON pointer is a sequence of member names and indices (the  *)
(* handler's "/spec/indicators/%d" index 0 is the model's index 1).       *)
(* Prometheus request counters and log lines are left out.                 *)
(***************************************************************************)
EXTENDS Naturals, Sequences, SequencesExt

CONSTANTS
    Objects     \* the objects a client may create or update

\* How the AdmissionReview reaches the handler: "ok", or one of the
\* failures deserializeReview and json.Unmarshal report, or a response
\* that cannot be written back.
Wires == {"ok", "contentType", "body", "decode", "noRequest", "object", "write"}

NoAlert == [for |-> "", step |-> ""]
NoPresentation == [chartType |-> "", currentValue |-> FALSE, frequency |-> 0, labels |-> "nil"]
\* The zero Layout: every string empty and a nil Sections slice.  A
\* client's "sections: []" decodes to a non-nil empty slice: sections is
\* <<>> with sectionsNonNil TRUE.
NoLayout == [title |-> "", owner |-> "", description |-> "",
             sections |-> <<>>, sectionsNonNil |-> FALSE]

AddOp(path, v) == [op |-> "add", path |-> path, value |-> v]

\* getLayoutPatches: a layout reflect.DeepEqual to the zero Layout gets one
\* "Metrics" section listing every indicator by name.
getLayoutPatches(doc) ==
    IF doc.layout = NoLayout
    THEN <<AddOp(<<"layout">>,
                 [title |-> "", owner |-> "", description |-> "", sectionsNonNil |-> TRUE,
                  sections |-> <<[title |-> "Metrics",
                                  indicators |-> [i \in DOMAIN doc.indicators |->
                                                      doc.indicators[i].name]]>>])>>
    ELSE <<>>

\* Mutant of getAlertPatches: the whole default alert when either field
\* is empty, overwriting the one the client set.
getAlertPatchesEither(a, ctx) ==
    IF a.for = "" \/ a.step = ""
    THEN <<AddOp(ctx \o <<"alert">>, [for |-> "1m", step |-> "1m"])>>
    ELSE <<>>

\* getAlertPatches: a whole default alert when both fields are empty,
\* otherwise one "add" per empty field.
getAlertPatches(a, ctx) ==
    IF a.for = "" /\ a.step = ""
    THEN <<AddOp(ctx \o <<"alert">>, [for |-> "1m", step |-> "1m"])>>
    ELSE (IF a.for = "" THEN <<AddOp(ctx \o <<"alert", "for">>, "1m")>> ELSE <<>>)
         \o (IF a.step = "" THEN <<AddOp(ctx \o <<"alert", "step">>, "1m")>> ELSE <<>>)

\* Mutant of getPresentationPatches: the per-field branch forgets chartType.
getPresentationPatchesNoChartType(p, ctx) ==
    LET Field(zero, f, v) ==
            IF zero THEN <<AddOp(ctx \o <<"presentation", f>>, v)>> ELSE <<>>
    IN  IF p = NoPresentation
        THEN <<AddOp(ctx \o <<"presentation">>,
                     [chartType |-> "step", currentValue |-> FALSE,
                      frequency |-> 0, labels |-> "empty"])>>
        ELSE Field(~p.currentValue, "currentValue", FALSE)
             \o Field(p.frequency = 0, "frequency", 0)
             \o Field(p.labels \in {"nil", "empty"}, "labels", "empty")

\* getPresentationPatches: reflect.DeepEqual with the zero Presentation
\* (a nil label slice) replaces it whole; otherwise each zero field is set.
getPresentationPatches(p, ctx) ==
    LET Field(zero, f, v) ==
            IF zero THEN <<AddOp(ctx \o <<"presentation", f>>, v)>> ELSE <<>>
    IN  IF p = NoPresentation
        THEN <<AddOp(ctx \o <<"presentation">>,
                     [chartType |-> "step", currentValue |-> FALSE,
                      frequency |-> 0, labels |-> "empty"])>>
        ELSE Field(p.chartType = "", "chartType", "step")
             \o Field(~p.currentValue, "currentValue", FALSE)
             \o Field(p.frequency = 0, "frequency", 0)
             \o Field(p.labels \in {"nil", "empty"}, "labels", "empty")

IsIndicator(o) == "spec" \in DOMAIN o

\* The patch list of indicatorDocumentDefaultHandler (layout first, then
\* alert and presentation of each indicator in order) or of
\* indicatorDefaultHandler (context "/spec").
Patches(o) ==
    IF IsIndicator(o)
    THEN getAlertPatches(o.spec.alert, <<"spec">>)
         \o getPresentationPatches(o.spec.presentation, <<"spec">>)
    ELSE getLayoutPatches(o)
         \o FlattenSeq([i \in DOMAIN o.indicators |->
                getAlertPatches(o.indicators[i].alert, <<"indicators", i>>)
                \o getPresentationPatches(o.indicators[i].presentation, <<"indicators", i>>)])

\* The API server applying one "add" operation (not code of this
\* repository: RFC 6902, whose "add" on an existing member replaces it).
AddAt(o, path, v) ==
    CASE Len(path) = 1 -> [o EXCEPT ![path[1]] = v]
      [] Len(path) = 2 -> [o EXCEPT ![path[1]][path[2]] = v]
      [] Len(path) = 3 -> [o EXCEPT ![path[1]][path[2]][path[3]] = v]
      [] OTHER         -> [o EXCEPT ![path[1]][path[2]][path[3]][path[4]] = v]

ApplyPatch(o, ps) ==
    LET ap[n \in 0..Len(ps)] == IF n = 0 THEN o ELSE AddAt(ap[n - 1], ps[n].path, ps[n].value)
    IN  ap[Len(ps)]

VARIABLES
    review,    \* the AdmissionReview the API server sends: [object, wire]
    phase,     \* "defaulting", "patching", "validating" or "done"
    patch,     \* the JSON patch of the mutating response (<<>> = no Patch)
    object,    \* the object after the API server applied the patch
    stored     \* the object persisted, or NoObject

NoObject == [none |-> TRUE]

vars == <<review, phase, patch, object, stored>>

Init ==
    /\ review \in [object : Objects, wire : Wires]
    /\ phase = "defaulting"
    /\ patch = <<>>
    /\ object = NoObject
    /\ stored = NoObject

\* A handler failure ends the request: the API server rejects it.
Reject == phase' = "done" /\ UNCHANGED <<patch, object, stored>>

\* indicatorDocumentDefaultHandler / indicatorDefaultHandler: deserialize,
\* unmarshal the object, build the patches, marshalPatches (nil bytes for
\* no operation), answer Allowed with the patch; a failed Write leaves the
\* API server without an answer.
DefaultHandler ==
    /\ phase = "defaulting"
    /\ \/ /\ review.wire # "ok"
          /\ Reject
       \/ /\ review.wire = "ok"
          /\ patch' = Patches(review.object)
          /\ phase' = "patching"
          /\ UNCHANGED <<object, stored>>
    /\ UNCHANGED review

\* The API server applies the patch to the object under review.
ApplyResponse ==
    /\ phase = "patching"
    /\ object' = ApplyPatch(review.object, patch)
    /\ phase' = "validating"
    /\ UNCHANGED <<review, patch, stored>>

\* indicatorDocumentValidationHandler / indicatorValidationHandler: Allowed
\* is "no error from ValidateForK8s / ValidateIndicator" (library code not
\* in the sources: either answer; a failed review or Write also denies),
\* and the API server persists an allowed object.
ValidationHandler ==
    /\ phase = "validating"
    /\ \/ /\ stored' = object
          /\ phase' = "done"
       \/ /\ phase' = "done"
          /\ UNCHANGED stored
    /\ UNCHANGED <<review, patch, object>>

Finished == phase = "done" /\ UNCHANGED vars

Next == DefaultHandler \/ ApplyResponse \/ ValidationHandler \/ Finished

Spec == Init /\ [][Next]_vars

----------------------------------------------------------------------------
(* Properties.                                                             *)

IndicatorsOf(o) == IF IsIndicator(o) THEN <<o.spec>> ELSE o.indicators

\* Every alert and presentation field the handlers default holds a value.
IndicatorsDefaulted(o) ==
    \A i \in DOMAIN IndicatorsOf(o) :
        LET ind == IndicatorsOf(o)[i]
        IN  /\ ind.alert.for # "" /\ ind.alert.step # ""
            /\ ind.presentation.chartType # ""
            /\ ind.presentation.labels # "nil"

\* A layout with nothing in it: no title, owner, description or section.
EmptyLayout(l) ==
    /\ l.title = "" /\ l.owner = "" /\ l.description = ""
    /\ l.sections = <<>>

\* Every value the client set is still there after patching.
UserValuesKept(o, p) ==
    /\ \A i \in DOMAIN IndicatorsOf(o) :
          LET a == IndicatorsOf(o)[i]
              b == IndicatorsOf(p)[i]
          IN  /\ b.name = a.name
              /\ a.alert.for # "" => b.alert.for = a.alert.for
              /\ a.alert.step # "" => b.alert.step = a.alert.step
              /\ a.presentation.chartType # "" => b.presentation.chartType = a.presentation.chartType
              /\ a.presentation.currentValue => b.presentation.currentValue
              /\ a.presentation.frequency # 0 => b.presentation.frequency = a.presentation.frequency
              /\ a.presentation.labels = "set" => b.presentation.labels = "set"
    /\ ~IsIndicator(o) /\ o.layout # NoLayout => p.layout = o.layout

\* Whatever a client submits, an object the API server persists has every
\* alert and presentation field defaulted: the patches of the mutating
\* handlers are complete for every shape of indicator, whichever of the
\* whole-struct and per-field branches reflect.DeepEqual selects.
StoredObjectsDefaulted == stored # NoObject => IndicatorsDefaulted(stored)

\* What getLayoutPatches is for: a document persisted without a layout of
\* its own has the default "Metrics" section, whether the client left the
\* layout out or sent it empty.
StoredLayoutsDefaulted ==
    stored # NoObject /\ ~IsIndicator(stored) => ~EmptyLayout(stored.layout)

\* The mutating handlers only fill in: applying their patch never changes
\* a value the client set, for either handler and any indicator index.
DefaultingKeepsUserValues ==
    object # NoObject => UserValuesKept(review.object, object)

=============================================================================
