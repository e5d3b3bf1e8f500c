----------------------------- MODULE DocumentRead -----------------------------
(***************************************************************************)
(* Reading an indicator document, pkg/indicator/unmarshal.go:             *)
(* DocumentFromYAML with its options, interpolateBytes, the apiVersion    *)
(* dispatch and the v0 conversion, and ParseMetadata, which turns a       *)
(* "k=v,k=v" flag into the overrides of OverrideMetadata.                 *)
(*                                                                         *)
(* Bytes are abstracted to the parts the reader treats differently: the   *)
(* apiVersion, one PromQL expression, the label map and where it sits     *)
(* ("labels" = metadata.labels as in v1, "metadata" = the v0 top-level    *)
(* map, "none"), and the v0 thresholds.  Text is a sequence of atoms: a   *)
(* plain fragment, a reference "$k" or "${k}" to a label key, or the tail *)
(* "_rest" left when a key k written "j_rest" is matched by j's regex.    *)
(***************************************************************************)
EXTENDS Naturals, Sequences, SequencesExt, TLC

CONSTANTS
    Keys,        \* label keys
    Stem,        \* Stem[k] = j when k is written "j_<rest>", else NoKey
    NoKey,
    BadPattern,  \* keys that are not a valid regexp where written, e.g. "a(b"
    Documents,   \* the documents a caller may hand to DocumentFromYAML
    Flags        \* ParseMetadata inputs: sequences of "="-split pairs

ASSUME DocumentReadAssumption ==
    /\ NoKey \notin Keys
    /\ Stem \in [Keys -> Keys \cup {NoKey}]
    /\ \A k \in Keys : Stem[k] # k
    /\ BadPattern \subseteq Keys

Ref(k, braced) == [ref |-> k, braced |-> braced]
Text(t) == [text |-> t]
RestOf(k) == [tail |-> k]
IsRef(a) == "ref" \in DOMAIN a

Atom == [ref : Keys, braced : BOOLEAN] \cup [text : STRING] \cup [tail : Keys]

\* The zero value of a Go string: what an absent YAML keyword unmarshals to.
Unset == ""

\* v0yamlThreshold: every keyword is unmarshalled as a string, Unset if absent.
V0Threshold == [level : STRING, lt : STRING, lte : STRING, eq : STRING,
                neq : STRING, gte : STRING, gt : STRING]

\* The parts of the document bytes the read looks at; labels map some keys
\* to expressions.
IsDocumentBytes(d) ==
    /\ d \in [wellFormed : BOOLEAN, schemaValid : BOOLEAN, version : STRING,
             promql : Seq(Atom), labelsAt : {"labels", "metadata", "none"},
             labels : {d.labels}, thresholds : Seq(V0Threshold)]
    /\ DOMAIN d.labels \subseteq Keys
    /\ \A k \in DOMAIN d.labels : d.labels[k] \in Seq(Atom)

ASSUME DocumentsAssumption == \A d \in Documents : IsDocumentBytes(d)

\* The outcomes of a read other than a document.
NoResult == [status |-> "none"]
Err == [status |-> "error"]
Panic == [status |-> "panic"]

VARIABLES
    input,     \* the document bytes handed in
    opts,      \* readOptions: interpolate flag and overrides
    pc,        \* "read", "interpolate", "replace", "decode" or "done"
    bytes,     \* docBytes as interpolateBytes rewrites them
    labels,    \* metadataContainer.Metadata.Labels after the overrides
    pending,   \* keys the range over labels has not visited yet
    result     \* NoResult, Err, Panic or the document returned

vars == <<input, opts, pc, bytes, labels, pending, result>>

\* ParseMetadata: split on ",", then on "="; a pair with a second part sets
\* metadata[v[0]] = v[1] (later pairs win, parts after the second dropped).
ParseMetadata(f) ==
    LET pm[i \in 0..Len(f)] ==
            IF i = 0 THEN <<>>
            ELSE IF Len(f[i]) > 1 THEN (f[i][1] :> <<f[i][2]>>) @@ pm[i - 1]
            ELSE pm[i - 1]
    IN  pm[Len(f)]

\* getReadOpts / SkipMetadataInterpolation / OverrideMetadata.
Options == [interpolate : BOOLEAN, overrides : {ParseMetadata(f) : f \in Flags}]

\* The replacement template "%s$2" goes through regexp's Expand, which
\* treats every "$name" or "${name}" inside the label value as a capture
\* group of that name: none exists, so each one expands to nothing.
Expand(v) == SelectSeq(v, LAMBDA a : ~IsRef(a))

\* regex (\$k)(\b|\_|$)|(\$\{k\}) on one atom, ReplaceAll with "value$2".
Image(k, v, a) ==
    IF IsRef(a) /\ a.ref = k THEN Expand(v)
    ELSE IF IsRef(a) /\ ~a.braced /\ Stem[a.ref] = k THEN Expand(v) \o <<RestOf(a.ref)>>
    ELSE <<a>>

ReplaceKey(k, v, s) == FlattenSeq([i \in DOMAIN s |-> Image(k, v, s[i])])

ReplaceInBytes(k, v, b) ==
    [b EXCEPT !.promql = ReplaceKey(k, v, b.promql),
              !.labels = [j \in DOMAIN b.labels |-> ReplaceKey(k, v, b.labels[j])]]

\* Mutant: the document's own label beats an override of the same key.
MergedDocumentWins(b, ov) ==
    IF b.labelsAt = "labels"
    THEN [k \in DOMAIN b.labels \cup DOMAIN ov |->
              IF k \in DOMAIN b.labels THEN b.labels[k] ELSE ov[k]]
    ELSE <<>>

\* The labels map after "for key, value := range overrides { Labels[key] =
\* value }"; only metadata.labels unmarshals into a non-nil map.
Merged(b, ov) ==
    IF b.labelsAt = "labels"
    THEN [k \in DOMAIN b.labels \cup DOMAIN ov |->
              IF k \in DOMAIN ov THEN ov[k] ELSE b.labels[k]]
    ELSE <<>>

\* Mutant: a switch that tests gte before lt.
v0thresholdGteFirst(t) ==
    LET op == IF t.gte # Unset THEN "gte" ELSE IF t.lt # Unset THEN "lt"
              ELSE IF t.lte # Unset THEN "lte" ELSE IF t.eq # Unset THEN "eq"
              ELSE IF t.neq # Unset THEN "neq" ELSE IF t.gt # Unset THEN "gt"
              ELSE "undefined"
    IN  IF op = "undefined" THEN [level |-> t.level, operator |-> op, value |-> "0"]
        ELSE IF t[op] = "bad" THEN Err
        ELSE [level |-> t.level, operator |-> op, value |-> t[op]]

\* v0thresholdFromYAML: the first non-empty keyword of the switch wins
\* (an IF chain: a CASE with overlapping guards would pick any arm);
\* strconv.ParseFloat fails on "bad" and keeps any other numeral (values
\* are kept as numerals, "0" being the zero float64).
v0thresholdFromYAML(t) ==
    LET op == IF t.lt # Unset THEN "lt" ELSE IF t.lte # Unset THEN "lte"
              ELSE IF t.eq # Unset THEN "eq" ELSE IF t.neq # Unset THEN "neq"
              ELSE IF t.gte # Unset THEN "gte" ELSE IF t.gt # Unset THEN "gt"
              ELSE "undefined"
    IN  IF op = "undefined" THEN [level |-> t.level, operator |-> op, value |-> "0"]
        ELSE IF t[op] = "bad" THEN Err
        ELSE [level |-> t.level, operator |-> op, value |-> t[op]]

\* v0documentFromBytes: "metadata" is a map[string]string, so a nested
\* metadata.labels fails to unmarshal; any bad threshold fails the read.
v0documentFromBytes(b) ==
    LET th == [i \in DOMAIN b.thresholds |-> v0thresholdFromYAML(b.thresholds[i])]
    IN  IF b.labelsAt = "labels" \/ \E i \in DOMAIN th : th[i] = Err THEN Err
        ELSE [promql |-> b.promql, thresholds |-> th,
              labels |-> IF b.labelsAt = "metadata" THEN b.labels ELSE <<>>]

\* ApiVersionFromYAML and the switch of DocumentFromYAML; v1 bytes are
\* validated against the OpenAPI schema, then unmarshalled.
Decode(b) ==
    IF ~b.wellFormed THEN Err
    ELSE CASE b.version = "v0" -> v0documentFromBytes(b)
           [] b.version = "v1" ->
                 IF b.schemaValid
                 THEN [promql |-> b.promql, thresholds |-> <<>>,
                       labels |-> IF b.labelsAt = "labels" THEN b.labels ELSE <<>>]
                 ELSE Err
           [] OTHER -> Err

IsDocument(r) == "promql" \in DOMAIN r

Init ==
    /\ input \in Documents
    /\ opts \in Options
    /\ pc = "read"
    /\ bytes = input
    /\ labels = <<>>
    /\ pending = {}
    /\ result = NoResult

Return(r) == pc' = "done" /\ result' = r

\* ioutil.ReadAll(r), then readOptions.interpolate decides the next step.
ReadAll ==
    /\ pc = "read"
    /\ \/ /\ pc' = IF opts.interpolate THEN "interpolate" ELSE "decode"
          /\ UNCHANGED result
       \/ Return(Err)
    /\ UNCHANGED <<input, opts, bytes, labels, pending>>

\* interpolateBytes up to its loop: unmarshal the metadata container, then
\* copy the overrides into Labels, a nil map when metadata.labels is absent.
InterpolateStart ==
    /\ pc = "interpolate"
    /\ \/ /\ ~bytes.wellFormed
          /\ Return(Err)
          /\ UNCHANGED <<labels, pending>>
       \/ /\ bytes.wellFormed
          /\ bytes.labelsAt # "labels"
          /\ DOMAIN opts.overrides # {}
          /\ Return(Panic)
          /\ UNCHANGED <<labels, pending>>
       \/ /\ bytes.wellFormed
          /\ bytes.labelsAt = "labels" \/ DOMAIN opts.overrides = {}
          /\ labels' = Merged(bytes, opts.overrides)
          /\ pending' = DOMAIN labels'
          /\ pc' = "replace"
          /\ UNCHANGED result
    /\ UNCHANGED <<input, opts, bytes>>

\* One iteration of "for key, value := range Labels", in Go's random order:
\* the raw key is spliced into the pattern, and regexp.MustCompile panics
\* when the key makes it invalid.
InterpolateKey(k) ==
    /\ pc = "replace"
    /\ k \in pending
    /\ \/ /\ k \notin BadPattern
          /\ bytes' = ReplaceInBytes(k, labels[k], bytes)
          /\ pending' = pending \ {k}
          /\ UNCHANGED <<pc, result>>
       \/ /\ k \in BadPattern
          /\ Return(Panic)
          /\ UNCHANGED <<bytes, pending>>
    /\ UNCHANGED <<input, opts, labels>>

\* The loop ends; DocumentFromYAML goes on with the rewritten bytes.
InterpolateReturn ==
    /\ pc = "replace"
    /\ pending = {}
    /\ pc' = "decode"
    /\ UNCHANGED <<input, opts, bytes, labels, pending, result>>

\* apiVersion dispatch, decoding, then v1.PopulateDefaults (which touches
\* none of the parts modelled here) and return.
DecodeDocument ==
    /\ pc = "decode"
    /\ Return(Decode(bytes))
    /\ UNCHANGED <<input, opts, bytes, labels, pending>>

Returned == pc = "done" /\ UNCHANGED vars

Next ==
    \/ ReadAll
    \/ InterpolateStart
    \/ \E k \in Keys : InterpolateKey(k)
    \/ InterpolateReturn
    \/ DecodeDocument
    \/ Returned

Spec == Init /\ [][Next]_vars

----------------------------------------------------------------------------
(* Reference definitions and properties.                                   *)

\* What the comment of interpolateBytes promises: every written key is
\* replaced by its label value, in one pass; "$j_rest" is key j only when
\* no key j_rest exists.
RefImage(M, a) ==
    IF IsRef(a) /\ a.ref \in DOMAIN M THEN M[a.ref]
    ELSE IF IsRef(a) /\ ~a.braced /\ Stem[a.ref] \in DOMAIN M
         THEN M[Stem[a.ref]] \o <<RestOf(a.ref)>>
    ELSE <<a>>

Interpolated(M, s) == FlattenSeq([i \in DOMAIN s |-> RefImage(M, s[i])])

NoDollarValues(M) == \A k \in DOMAIN M : \A i \in DOMAIN M[k] : ~IsRef(M[k][i])

TextAtoms(b) == ToSet(b.promql) \cup UNION {ToSet(b.labels[j]) : j \in DOMAIN b.labels}

NoStemClash(M, b) ==
    \A a \in TextAtoms(b) :
        IsRef(a) /\ ~a.braced => ~(a.ref \in DOMAIN M /\ Stem[a.ref] \in DOMAIN M)

\* The label map interpolation should use: metadata.labels with every
\* override taking precedence (@@ keeps its left operand's entries).
IntendedLabels ==
    IF input.labelsAt = "labels" THEN opts.overrides @@ input.labels ELSE <<>>

InterpolatedRead ==
    pc = "done" /\ IsDocument(result) /\ opts.interpolate

\* spec.md 3: the first present keyword in the order lt, lte, eq, neq,
\* gte, gt is honoured; none present gives "undefined" with value 0.
Precedence == <<"lt", "lte", "eq", "neq", "gte", "gt">>

HonouredKeyword(t) ==
    LET present == {i \in 1..Len(Precedence) : t[Precedence[i]] # Unset}
    IN  IF present = {} THEN "undefined" ELSE Precedence[Min(present)]

SpecThreshold(t) ==
    LET kw == HonouredKeyword(t)
    IN  [level |-> t.level, operator |-> kw, value |-> IF kw = "undefined" THEN "0" ELSE t[kw]]

\* When no label value holds a "$" and no written key is shadowed by a
\* shorter one, DocumentFromYAML returns the document with every label
\* reference replaced by its value, overrides taking precedence over the
\* document's labels, in whatever order Go's map range visits the keys.
InterpolationMatchesReference ==
    LET M == IntendedLabels
    IN  (InterpolatedRead /\ NoDollarValues(M) /\ NoStemClash(M, input)) =>
            /\ result.promql = Interpolated(M, input.promql)
            /\ result.labels = [j \in DOMAIN result.labels |-> Interpolated(M, input.labels[j])]

\* A v0 document's thresholds are converted with the spec's keyword
\* precedence: the switch of v0thresholdFromYAML honours exactly the first
\* keyword present, whatever the others hold.
V0ThresholdsFollowPrecedence ==
    (pc = "done" /\ IsDocument(result) /\ input.version = "v0") =>
        result.thresholds = [i \in DOMAIN input.thresholds |-> SpecThreshold(input.thresholds[i])]

\* The comment of interpolateBytes: keys are interpolated "wherever they
\* are written", so the result must not depend on the order in which the
\* map range visits them (label values without "$").
InterpolationIndependentOfKeyOrder ==
    LET M == IntendedLabels
    IN  (InterpolatedRead /\ NoDollarValues(M)) =>
            result.promql = Interpolated(M, input.promql)

\* DocumentFromYAML reports bad input as an error (spec.md 5: malformed
\* input is a request-level error); it never panics, also when overrides
\* are given for a document without metadata.labels, or a label key is not
\* a valid regular expression.
ReadNeverPanics == result # Panic

=============================================================================
