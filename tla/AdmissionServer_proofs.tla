------------------------ MODULE AdmissionServer_proofs ------------------------
(***************************************************************************)
(* Proofs about the admission server lifecycle, for any set of goroutines *)
(* calling Close.                                                          *)
(***************************************************************************)
EXTENDS AdmissionServer, TLAPS

\* The actions that make a step of one goroutine in Closers.
CloseStep(c) == CloseLock(c) \/ CloseShutdown(c) \/ CloseListener(c)

(* Every step of the server or of a Close call keeps the state typed.    *)
LEMMA TypeStep == TypeOK /\ [Next]_vars => TypeOK'
<1> SUFFICES ASSUME TypeOK, [Next]_vars PROVE TypeOK'
  OBVIOUS
<1>1. CASE Run \/ Listen \/ Register \/ Serve \/ AcceptFail
  BY <1>1 DEF Run, Listen, Register, Serve, AcceptFail, TypeOK,
              RunStates, SockStates
<1>2. ASSUME NEW c \in Closers, CloseStep(c) PROVE TypeOK'
  BY <1>2 DEF CloseStep, CloseLock, CloseShutdown, CloseListener, TypeOK,
              SockStates, CloseStates, Results
<1>3. CASE Terminated \/ UNCHANGED vars
  BY <1>3 DEF Terminated, vars, TypeOK
<1>4. QED
  BY <1>1, <1>2, <1>3 DEF Next, CloseStep

(* Every reachable state is well typed: the program counters, the socket  *)
(* and the results of Close stay in their ranges and s.mu is held by at   *)
(* most one Close call.                                                    *)
THEOREM TypeCorrect == Spec => []TypeOK
<1>1. Init => TypeOK
  BY ServerAssumption DEF Init, TypeOK, RunStates, SockStates, CloseStates, Results
<1>2. QED
  BY <1>1, TypeStep, PTL DEF Spec

(* The inductive invariant behind NoServingAfterShutdown: the listener is *)
(* tracked only while run is in Serve's Accept loop.  Without it a step   *)
(* of Listen, which opens a socket, could not be shown harmless.           *)
IInv ==
    /\ TypeOK
    /\ NoServingAfterShutdown
    /\ tracked => runPC = "serving"

(* Once Shutdown has begun, Serve is never accepting on an open listener, *)
(* whichever of Serve and Close's Shutdown runs first: the property the   *)
(* interleaving of the run goroutine with Close must keep.                 *)
THEOREM ShutdownSafety == Spec => []NoServingAfterShutdown
<1>1. Init => IInv
  BY ServerAssumption DEF Init, IInv, TypeOK, NoServingAfterShutdown,
                          RunStates, SockStates, CloseStates, Results
<1>2. IInv /\ [Next]_vars => IInv'
  <2> SUFFICES ASSUME IInv, [Next]_vars PROVE IInv'
    OBVIOUS
  <2>1. TypeOK'
    BY TypeStep DEF IInv
  <2>2. CASE Run \/ Listen \/ Register \/ AcceptFail
    BY <2>1, <2>2 DEF Run, Listen, Register, AcceptFail, IInv, NoServingAfterShutdown
  <2>3. CASE Serve
    BY <2>1, <2>3 DEF Serve, IInv, NoServingAfterShutdown
  <2>4. ASSUME NEW c \in Closers, CloseStep(c) PROVE IInv'
    BY <2>1, <2>4 DEF CloseStep, CloseLock, CloseShutdown, CloseListener, IInv,
                      NoServingAfterShutdown
  <2>5. CASE Terminated \/ UNCHANGED vars
    BY <2>1, <2>5 DEF Terminated, vars, IInv, NoServingAfterShutdown
  <2>6. QED
    BY <2>2, <2>3, <2>4, <2>5 DEF Next, CloseStep
<1>3. IInv => NoServingAfterShutdown
  BY DEF IInv
<1>4. QED
  BY <1>1, <1>2, <1>3, PTL DEF Spec
=============================================================================
