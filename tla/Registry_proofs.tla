---------------------------- MODULE Registry_proofs ----------------------------
(***************************************************************************)
(* Proofs about the registry's Document Store and Status Store, for every *)
(* set of identifiers and indicators and every TTL.                        *)
(***************************************************************************)
EXTENDS Registry, TLAPS

(* Every registry step keeps the stores typed.                             *)
LEMMA RegTypeStep == RegTypeOK /\ [RegNext]_regVars => RegTypeOK'
<1> SUFFICES ASSUME RegTypeOK, [RegNext]_regVars PROVE RegTypeOK'
  OBVIOUS
<1>1. ASSUME NEW id \in Ids, Register(id) PROVE RegTypeOK'
  BY <1>1 DEF Register, RegTypeOK, Time
<1>2. ASSUME NEW id \in Ids, NEW ind \in Indicators, NEW v \in Values,
             SetStatus(id, ind, v)
      PROVE RegTypeOK'
  BY <1>2 DEF SetStatus, RegTypeOK, StatusEntry, Time
<1>3. CASE Tick
  BY <1>3, RegistryAssumption DEF Tick, RegTypeOK, Time
<1>4. CASE SweepScan
  BY <1>4 DEF SweepScan, RegTypeOK
<1>5. CASE SweepRemove
  BY <1>5 DEF SweepRemove, RegTypeOK
<1>6. CASE UNCHANGED regVars
  BY <1>6 DEF regVars, RegTypeOK
<1>7. QED
  BY <1>1, <1>2, <1>3, <1>4, <1>5, <1>6 DEF RegNext

(* The stores stay typed: timestamps and status times lie on the clock's  *)
(* range, and the sweep's candidates are identifiers.                      *)
THEOREM RegTypeCorrect == RegSpec => []RegTypeOK
<1>1. RegInit => RegTypeOK
  BY RegistryAssumption DEF RegInit, RegTypeOK, Time
<1>2. QED
  BY <1>1, RegTypeStep, PTL DEF RegSpec

=============================================================================
