-------------------------- MODULE DocumentRead_proofs --------------------------
(***************************************************************************)
(* Proofs about DocumentRead: the v0 conversion honours the keyword        *)
(* precedence of spec.md 3 for every document, whatever the interpolation *)
(* has done to the PromQL and the labels.                                  *)
(***************************************************************************)
EXTENDS DocumentRead, TLAPS

----------------------------------------------------------------------------
(* Lemmas about the operators of the threshold conversion.                 *)

\* The least element of a set of naturals is the one below all others.
LEMMA MinOfNat ==
    ASSUME NEW S \in SUBSET Nat, NEW m \in S, \A y \in S : m <= y
    PROVE  Min(S) = m
<1>1. \E x \in S : \A y \in S : x <= y
  OBVIOUS
<1>2. Min(S) \in S /\ \A y \in S : Min(S) <= y
  BY <1>1, Zenon DEF Min
<1>3. Min(S) \in Nat /\ m <= Min(S) /\ Min(S) <= m
  BY <1>2
<1>4. QED
  BY <1>3, SMT

\* HonouredKeyword picks the keyword at position n when it is present and
\* all keywords before it in Precedence are absent.
LEMMA FirstPresent ==
    ASSUME NEW t \in V0Threshold, NEW n \in 1..6,
           t[Precedence[n]] # Unset,
           \A j \in 1..(n - 1) : t[Precedence[j]] = Unset
    PROVE  HonouredKeyword(t) = Precedence[n]
<1>1. Len(Precedence) = 6
  BY DEF Precedence
<1>2. n \in {i \in 1..Len(Precedence) : t[Precedence[i]] # Unset}
  BY <1>1
<1>3. \A y \in {i \in 1..Len(Precedence) : t[Precedence[i]] # Unset} : n <= y
  <2>1. SUFFICES ASSUME NEW y \in 1..6, t[Precedence[y]] # Unset PROVE n <= y
    BY <1>1
  <2>2. ~(y \in 1..(n - 1))
    BY <2>1
  <2>3. QED
    BY <2>2
<1>4. Min({i \in 1..Len(Precedence) : t[Precedence[i]] # Unset}) = n
  BY <1>2, <1>3, MinOfNat
<1>5. QED
  BY <1>2, <1>4 DEF HonouredKeyword

\* With no keyword present the honoured keyword is "undefined".
LEMMA NonePresent ==
    ASSUME NEW t \in V0Threshold,
           \A j \in 1..6 : t[Precedence[j]] = Unset
    PROVE  HonouredKeyword(t) = "undefined"
<1>1. Len(Precedence) = 6
  BY DEF Precedence
<1>2. {i \in 1..Len(Precedence) : t[Precedence[i]] # Unset} = {}
  BY <1>1
<1>3. QED
  BY <1>2 DEF HonouredKeyword

\* The switch of v0thresholdFromYAML, whenever it does not fail on a bad
\* numeral, yields the threshold the spec's precedence prescribes.
LEMMA ThresholdPrecedence ==
    ASSUME NEW t \in V0Threshold, v0thresholdFromYAML(t) # Err
    PROVE  v0thresholdFromYAML(t) = SpecThreshold(t)
<1>1. /\ Precedence[1] = "lt" /\ Precedence[2] = "lte" /\ Precedence[3] = "eq"
      /\ Precedence[4] = "neq" /\ Precedence[5] = "gte" /\ Precedence[6] = "gt"
  BY DEF Precedence
<1>2. CASE t.lt # Unset
  <2>1. HonouredKeyword(t) = "lt"
    BY <1>1, <1>2, FirstPresent
  <2>2. QED
    BY <1>2, <2>1 DEF v0thresholdFromYAML, SpecThreshold
<1>3. CASE t.lt = Unset /\ t.lte # Unset
  <2>1. HonouredKeyword(t) = "lte"
    BY <1>1, <1>3, FirstPresent
  <2>2. QED
    BY <1>3, <2>1 DEF v0thresholdFromYAML, SpecThreshold
<1>4. CASE t.lt = Unset /\ t.lte = Unset /\ t.eq # Unset
  <2>1. HonouredKeyword(t) = "eq"
    BY <1>1, <1>4, FirstPresent
  <2>2. QED
    BY <1>4, <2>1 DEF v0thresholdFromYAML, SpecThreshold
<1>5. CASE t.lt = Unset /\ t.lte = Unset /\ t.eq = Unset /\ t.neq # Unset
  <2>1. HonouredKeyword(t) = "neq"
    BY <1>1, <1>5, FirstPresent
  <2>2. QED
    BY <1>5, <2>1 DEF v0thresholdFromYAML, SpecThreshold
<1>6. CASE t.lt = Unset /\ t.lte = Unset /\ t.eq = Unset /\ t.neq = Unset /\ t.gte # Unset
  <2>1. HonouredKeyword(t) = "gte"
    BY <1>1, <1>6, FirstPresent
  <2>2. QED
    BY <1>6, <2>1 DEF v0thresholdFromYAML, SpecThreshold
<1>7. CASE t.lt = Unset /\ t.lte = Unset /\ t.eq = Unset /\ t.neq = Unset /\ t.gte = Unset
           /\ t.gt # Unset
  <2>1. HonouredKeyword(t) = "gt"
    BY <1>1, <1>7, FirstPresent
  <2>2. QED
    BY <1>7, <2>1 DEF v0thresholdFromYAML, SpecThreshold
<1>8. CASE t.lt = Unset /\ t.lte = Unset /\ t.eq = Unset /\ t.neq = Unset /\ t.gte = Unset
           /\ t.gt = Unset
  <2>1. HonouredKeyword(t) = "undefined"
    BY <1>1, <1>8, NonePresent
  <2>2. QED
    BY <1>8, <2>1 DEF v0thresholdFromYAML, SpecThreshold
<1>9. QED
  BY <1>2, <1>3, <1>4, <1>5, <1>6, <1>7, <1>8

----------------------------------------------------------------------------
(* The inductive invariant.                                                *)

\* Interpolation rewrites only the label references, which the model places
\* in the PromQL and the labels (threshold values are numerals), so the
\* apiVersion and the thresholds DocumentFromYAML decodes are the ones
\* handed in; a v0 document it returns holds the switch's conversion of
\* each of them, none of which failed.
ThresholdsKept ==
    /\ IsDocumentBytes(input)
    /\ DOMAIN bytes = DOMAIN input
    /\ bytes.version = input.version
    /\ bytes.thresholds = input.thresholds
    /\ (pc = "done" /\ IsDocument(result) /\ input.version = "v0") =>
          /\ result.thresholds =
                [i \in DOMAIN input.thresholds |-> v0thresholdFromYAML(input.thresholds[i])]
          /\ \A i \in DOMAIN input.thresholds : v0thresholdFromYAML(input.thresholds[i]) # Err

\* The fields of the document bytes.
LEMMA DocumentBytesFields ==
    ASSUME NEW d, IsDocumentBytes(d)
    PROVE  /\ DOMAIN d = {"wellFormed", "schemaValid", "version", "promql",
                          "labelsAt", "labels", "thresholds"}
           /\ d.thresholds \in Seq(V0Threshold)
BY DEF IsDocumentBytes

LEMMA ThresholdsKeptInit == Init => ThresholdsKept
BY DocumentsAssumption DEF Init, ThresholdsKept

\* A document other than the decoded one is never returned as a document.
LEMMA OutcomesAreNoDocuments ==
    ~IsDocument(Err) /\ ~IsDocument(Panic)
BY DEF IsDocument, Err, Panic

LEMMA ThresholdsKeptStep == ThresholdsKept /\ [Next]_vars => ThresholdsKept'
<1> SUFFICES ASSUME ThresholdsKept, [Next]_vars PROVE ThresholdsKept'
  OBVIOUS
<1>1. DOMAIN bytes = {"wellFormed", "schemaValid", "version", "promql",
                      "labelsAt", "labels", "thresholds"}
  BY DocumentBytesFields DEF ThresholdsKept
<1>2. CASE ReadAll
  BY <1>2, OutcomesAreNoDocuments DEF ReadAll, Return, ThresholdsKept
<1>3. CASE InterpolateStart
  BY <1>3, OutcomesAreNoDocuments DEF InterpolateStart, Return, ThresholdsKept
<1>4. ASSUME NEW k \in Keys, InterpolateKey(k) PROVE ThresholdsKept'
  <2>1. CASE /\ bytes' = ReplaceInBytes(k, labels[k], bytes)
             /\ UNCHANGED <<pc, result>>
    <3>1. /\ DOMAIN bytes' = DOMAIN bytes
          /\ bytes'.version = bytes.version
          /\ bytes'.thresholds = bytes.thresholds
      BY <1>1, <2>1 DEF ReplaceInBytes
    <3>2. QED
      BY <1>4, <2>1, <3>1 DEF InterpolateKey, ThresholdsKept
  <2>2. CASE Return(Panic) /\ UNCHANGED <<bytes, pending>>
    BY <1>4, <2>2, OutcomesAreNoDocuments DEF InterpolateKey, Return, ThresholdsKept
  <2>3. QED
    BY <1>4, <2>1, <2>2 DEF InterpolateKey
<1>5. CASE InterpolateReturn
  BY <1>5 DEF InterpolateReturn, ThresholdsKept
<1>6. CASE DecodeDocument
  <2>1. SUFFICES ASSUME IsDocument(result'), input.version = "v0"
                 PROVE  /\ result'.thresholds =
                           [i \in DOMAIN input.thresholds |-> v0thresholdFromYAML(input.thresholds[i])]
                        /\ \A i \in DOMAIN input.thresholds :
                              v0thresholdFromYAML(input.thresholds[i]) # Err
    BY <1>6 DEF DecodeDocument, Return, ThresholdsKept
  <2>2. result' = Decode(bytes)
    BY <1>6 DEF DecodeDocument, Return
  <2>3. bytes.wellFormed /\ bytes.version = "v0"
    BY <2>1, <2>2, OutcomesAreNoDocuments DEF Decode, ThresholdsKept
  <2>4. result' = v0documentFromBytes(bytes)
    BY <2>2, <2>3 DEF Decode
  <2>5. ~(bytes.labelsAt = "labels" \/
          \E i \in DOMAIN bytes.thresholds : v0thresholdFromYAML(bytes.thresholds[i]) = Err)
    BY <2>1, <2>4, OutcomesAreNoDocuments DEF v0documentFromBytes
  <2>6. result'.thresholds =
           [i \in DOMAIN bytes.thresholds |-> v0thresholdFromYAML(bytes.thresholds[i])]
    BY <2>4, <2>5 DEF v0documentFromBytes
  <2>7. QED
    BY <2>5, <2>6 DEF ThresholdsKept
<1>7. CASE Returned \/ UNCHANGED vars
  BY <1>7 DEF Returned, vars, ThresholdsKept
<1>8. QED
  BY <1>2, <1>3, <1>4, <1>5, <1>6, <1>7 DEF Next

\* The invariant V0ThresholdsFollowPrecedence of docread_pipeline, for
\* every set of documents: a v0 document DocumentFromYAML returns carries,
\* for each threshold handed in, the first keyword of spec.md 3's order
\* that the YAML sets, with its value.
THEOREM V0ThresholdsFollowPrecedenceTheorem == Spec => []V0ThresholdsFollowPrecedence
<1>1. ThresholdsKept => V0ThresholdsFollowPrecedence
  <2>1. SUFFICES ASSUME ThresholdsKept, pc = "done", IsDocument(result),
                        input.version = "v0"
                 PROVE  result.thresholds =
                           [i \in DOMAIN input.thresholds |-> SpecThreshold(input.thresholds[i])]
    BY DEF V0ThresholdsFollowPrecedence
  <2>2. input.thresholds \in Seq(V0Threshold)
    <3>1. IsDocumentBytes(input)
      BY <2>1 DEF ThresholdsKept
    <3>2. QED
      BY <3>1, DocumentBytesFields, Zenon
  <2>3. \A i \in DOMAIN input.thresholds :
           v0thresholdFromYAML(input.thresholds[i]) = SpecThreshold(input.thresholds[i])
    BY <2>1, <2>2, ThresholdPrecedence DEF ThresholdsKept
  <2>4. QED
    BY <2>1, <2>3 DEF ThresholdsKept
<1>2. QED
  BY <1>1, ThresholdsKeptInit, ThresholdsKeptStep, PTL DEF Spec

=============================================================================
