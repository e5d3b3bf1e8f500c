--------------------------- MODULE AdmissionServer ---------------------------
(***************************************************************************)
(* Lifecycle of the admission webhook server, k8s/pkg/admission/server.go. *)
(*                                                                         *)
(* Run starts the goroutine `run`, which opens the listener, publishes     *)
(* s.lis and s.srv under s.mu, and then serves until the listener is       *)
(* closed.  Close, called from any number of goroutines, takes s.mu, and   *)
(* if s.srv is set shuts the http.Server down and closes s.lis.  The parts *)
(* of net/http that decide the outcome are kept: Serve refuses to track a  *)
(* listener once Shutdown has begun (both under the server's own mutex),   *)
(* and Shutdown closes the listeners Serve is tracking.  The handlers are  *)
(* pure functions of one request and are modelled elsewhere.               *)
(***************************************************************************)
EXTENDS Naturals

CONSTANTS
    Closers,    \* goroutines that call s.Close()
    Nobody      \* the value of mu when s.mu is not held

ASSUME ServerAssumption == Nobody \notin Closers

VARIABLES
    runPC,      \* where the `run` goroutine is
    sock,       \* the listener socket returned by net.Listen
    lisSet,     \* s.lis # nil
    srvSet,     \* s.srv # nil
    shutdown,   \* s.srv.inShutdown: Shutdown has begun
    tracked,    \* Serve is tracking the listener (Accept loop running)
    mu,         \* holder of s.mu (only Close holds it over several steps)
    closePC,    \* where each Close call is
    closeRet    \* the error each Close call returned

vars == <<runPC, sock, lisSet, srvSet, shutdown, tracked, mu, closePC, closeRet>>

RunStates   == {"idle", "listen", "register", "serve", "serving", "done", "fatal"}
SockStates  == {"none", "open", "closed"}
CloseStates == {"idle", "shutdown", "lisclose", "done"}
Results     == {"none", "nil", "err"}

TypeOK ==
    /\ runPC \in RunStates
    /\ sock \in SockStates
    /\ lisSet \in BOOLEAN
    /\ srvSet \in BOOLEAN
    /\ shutdown \in BOOLEAN
    /\ tracked \in BOOLEAN
    /\ mu \in Closers \cup {Nobody}
    /\ closePC \in [Closers -> CloseStates]
    /\ closeRet \in [Closers -> Results]

\* NewServer(addr): lis and srv are nil, nothing is listening.
Init ==
    /\ runPC = "idle"
    /\ sock = "none"
    /\ lisSet = FALSE
    /\ srvSet = FALSE
    /\ shutdown = FALSE
    /\ tracked = FALSE
    /\ mu = Nobody
    /\ closePC = [c \in Closers |-> "idle"]
    /\ closeRet = [c \in Closers |-> "none"]

\* log.Fatalf in run() ends the whole process: no goroutine takes a step.
Alive == runPC # "fatal"

----------------------------------------------------------------------------
(* The `run` goroutine.                                                    *)

\* s.Run(blocking): run() executes, in the caller or in a new goroutine.
Run ==
    /\ runPC = "idle"
    /\ runPC' = "listen"
    /\ UNCHANGED <<sock, lisSet, srvSet, shutdown, tracked, mu, closePC, closeRet>>

\* net.Listen("tcp", s.addr); on error log.Fatalf exits the process.
Listen ==
    /\ runPC = "listen"
    /\ \/ /\ sock' = "open"
          /\ runPC' = "register"
       \/ /\ runPC' = "fatal"
          /\ UNCHANGED sock
    /\ UNCHANGED <<lisSet, srvSet, shutdown, tracked, mu, closePC, closeRet>>

\* s.mu.Lock(); s.lis = lis; s.srv = &http.Server{...}; s.mu.Unlock()
Register ==
    /\ runPC = "register"
    /\ mu = Nobody
    /\ lisSet' = TRUE
    /\ srvSet' = TRUE
    /\ runPC' = "serve"
    /\ UNCHANGED <<sock, shutdown, tracked, mu, closePC, closeRet>>

\* Mutant: a Serve that starts accepting without checking inShutdown.
ServeIgnoringShutdown ==
    /\ runPC = "serve"
    /\ runPC' = "serving"
    /\ tracked' = TRUE
    /\ UNCHANGED <<sock, lisSet, srvSet, shutdown, mu, closePC, closeRet>>

\* s.srv.Serve(lis) / ServeTLS: trackListener refuses once Shutdown has
\* begun and Serve returns ErrServerClosed, its deferred l.Close() closing
\* the listener; otherwise the Accept loop runs.
Serve ==
    /\ runPC = "serve"
    /\ IF shutdown
         THEN /\ runPC' = "done"
              /\ sock' = "closed"
              /\ UNCHANGED tracked
         ELSE /\ runPC' = "serving"
              /\ tracked' = TRUE
              /\ UNCHANGED sock
    /\ UNCHANGED <<lisSet, srvSet, shutdown, mu, closePC, closeRet>>

\* Mutant: a run() whose Serve takes the closed listener's Accept error
\* as temporary and keeps retrying it.
AcceptRetrying ==
    /\ runPC = "serving"
    /\ sock = "closed"
    /\ UNCHANGED vars

\* Accept fails once the listener is closed; Serve returns, its deferred
\* trackListener(false) untracks the listener, and run() logs and returns.
AcceptFail ==
    /\ runPC = "serving"
    /\ sock = "closed"
    /\ tracked' = FALSE
    /\ runPC' = "done"
    /\ UNCHANGED <<sock, lisSet, srvSet, shutdown, mu, closePC, closeRet>>

----------------------------------------------------------------------------
(* s.Close(), one call per goroutine in Closers.                           *)

\* s.mu.Lock(); if s.srv == nil { return nil }  (the deferred Unlock runs)
CloseLock(c) ==
    /\ Alive
    /\ closePC[c] = "idle"
    /\ mu = Nobody
    /\ IF srvSet
         THEN /\ mu' = c
              /\ closePC' = [closePC EXCEPT ![c] = "shutdown"]
              /\ UNCHANGED closeRet
         ELSE /\ closePC' = [closePC EXCEPT ![c] = "done"]
              /\ closeRet' = [closeRet EXCEPT ![c] = "nil"]
              /\ UNCHANGED mu
    /\ UNCHANGED <<runPC, sock, lisSet, srvSet, shutdown, tracked>>

\* err := s.srv.Shutdown(ctx): marks the server shutting down and closes
\* the tracked listener; it returns ctx.Err() when connections are still
\* active after 5s (possible only once Serve has accepted), and then
\* Close returns that error without closing s.lis.
CloseShutdown(c) ==
    /\ Alive
    /\ closePC[c] = "shutdown"
    /\ shutdown' = TRUE
    /\ sock' = IF tracked THEN "closed" ELSE sock
    /\ \/ /\ closePC' = [closePC EXCEPT ![c] = "lisclose"]
          /\ UNCHANGED <<mu, closeRet>>
       \/ /\ tracked
          /\ closePC' = [closePC EXCEPT ![c] = "done"]
          /\ closeRet' = [closeRet EXCEPT ![c] = "err"]
          /\ mu' = Nobody
    /\ UNCHANGED <<runPC, lisSet, srvSet, tracked>>

\* return s.lis.Close(): closing an already closed listener is an error.
CloseListener(c) ==
    /\ Alive
    /\ closePC[c] = "lisclose"
    /\ sock' = "closed"
    /\ closeRet' = [closeRet EXCEPT ![c] = IF sock = "open" THEN "nil" ELSE "err"]
    /\ closePC' = [closePC EXCEPT ![c] = "done"]
    /\ mu' = Nobody
    /\ UNCHANGED <<runPC, lisSet, srvSet, shutdown, tracked>>

----------------------------------------------------------------------------

\* No goroutine has a step left: each has returned, was never started, or
\* (for run) is accepting on an open listener, which a server may do forever.
Quiescent ==
    /\ \/ runPC \in {"idle", "done", "fatal"}
       \/ runPC = "serving" /\ sock = "open"
    /\ \A c \in Closers : closePC[c] \in {"idle", "done"}

Terminated == Quiescent /\ UNCHANGED vars

Next ==
    \/ Run \/ Listen \/ Register \/ Serve \/ AcceptFail
    \/ \E c \in Closers : CloseLock(c) \/ CloseShutdown(c) \/ CloseListener(c)
    \/ Terminated

\* Once started, the goroutines run their code to the end; the scheduler
\* does not starve a runnable goroutine.  Calling Run or Close is the
\* caller's choice and gets no fairness.
Fairness ==
    /\ WF_vars(Listen) /\ WF_vars(Register) /\ WF_vars(Serve) /\ WF_vars(AcceptFail)
    /\ \A c \in Closers : WF_vars(CloseShutdown(c)) /\ WF_vars(CloseListener(c))

Spec == Init /\ [][Next]_vars /\ Fairness

----------------------------------------------------------------------------
(* Properties.                                                             *)

\* Once Shutdown has begun, the server never again has an open listener
\* that Serve is accepting on: Serve's check of inShutdown and Shutdown's
\* closing of tracked listeners, run by two goroutines in either order,
\* leave no way to keep accepting.
NoServingAfterShutdown ==
    shutdown => ~(tracked /\ sock = "open")

\* Once a Close has found the server and begun Shutdown, the run goroutine
\* eventually returns and the listener socket is eventually closed.
ShutdownStopsServer ==
    shutdown ~> (runPC = "done" /\ sock = "closed")

\* What a caller of Close relies on (the tests call it in a defer to stop
\* the server): once a Close has returned, no listener socket is left open.
CloseReleasesListener ==
    \A c \in Closers : closePC[c] = "done" => sock # "open"

=============================================================================
