------------------------------- MODULE Registry -------------------------------
(***************************************************************************)
(* The indicator registry: the Document Store (upsert by identifier, TTL  *)
(* expiry by a background sweep) and the Status Store (last write wins per *)
(* (identifier, indicator), never deleted).  The code of pkg/registry is   *)
(* not part of the sources at hand (only its test, web_server_test.go), so *)
(* this module follows spec.md sections 4.2, 4.3 and 5.                    *)
(*                                                                         *)
(* An identifier stands for "product-sha1(bytes)": byte-identical uploads  *)
(* share one, changed content gets a new one.  Each store has its own      *)
(* lock and every store operation is one atomic step; the sweep is two     *)
(* steps, a scan and a removal that re-reads each timestamp.               *)
(***************************************************************************)
EXTENDS Naturals

CONSTANTS
    Ids,         \* document identifiers
    Indicators,  \* indicator names
    Values,      \* status values ("critical", "warning", ...)
    TTL,         \* DocumentStore timeout
    MaxTime,     \* bound on the clock, for model checking
    NoStatus     \* absence of a Status Store entry

ASSUME RegistryAssumption ==
    /\ TTL \in Nat
    /\ MaxTime \in Nat
    /\ NoStatus \notin [value : Values, at : Nat]

VARIABLES
    now,          \* the injected clock
    registered,   \* identifiers present in the Document Store
    refreshedAt,  \* lastRefreshedAt of each identifier
    status,       \* Status Store: (identifier, indicator) -> entry
    sweepPC,      \* "idle" or "removing"
    candidates,   \* identifiers the sweep's scan found stale
    staleStatus   \* history: entries whose document has expired since they were set

regVars == <<now, registered, refreshedAt, status, sweepPC, candidates, staleStatus>>

Time == 0..MaxTime

StatusEntry == [value : Values, at : Time]

RegTypeOK ==
    /\ now \in Time
    /\ registered \subseteq Ids
    /\ refreshedAt \in [Ids -> Time]
    /\ status \in [Ids \X Indicators -> StatusEntry \cup {NoStatus}]
    /\ sweepPC \in {"idle", "removing"}
    /\ candidates \subseteq Ids
    /\ staleStatus \subseteq Ids \X Indicators

RegInit ==
    /\ now = 0
    /\ registered = {}
    /\ refreshedAt = [id \in Ids |-> 0]
    /\ status = [k \in Ids \X Indicators |-> NoStatus]
    /\ sweepPC = "idle"
    /\ candidates = {}
    /\ staleStatus = {}

\* An entry is stale when it was last refreshed more than TTL ago.
Stale(id) == now - refreshedAt[id] > TTL

\* POST /v1/register -> register(identifier, bytes, now): insert, or
\* replace and refresh the timestamp.
Register(id) ==
    /\ registered' = registered \cup {id}
    /\ refreshedAt' = [refreshedAt EXCEPT ![id] = now]
    /\ UNCHANGED <<now, status, sweepPC, candidates, staleStatus>>

\* POST /v1/indicator-documents/{id}/bulk_status -> one setStatus per pair:
\* last write wins, no check that the document is registered.
SetStatus(id, ind, v) ==
    /\ status' = [status EXCEPT ![<<id, ind>>] = [value |-> v, at |-> now]]
    /\ staleStatus' = staleStatus \ {<<id, ind>>}
    /\ UNCHANGED <<now, registered, refreshedAt, sweepPC, candidates>>

\* The clock advances.
Tick ==
    /\ now < MaxTime
    /\ now' = now + 1
    /\ UNCHANGED <<registered, refreshedAt, status, sweepPC, candidates, staleStatus>>

\* sweep(now, ttl), first step: scan for stale entries.
SweepScan ==
    /\ sweepPC = "idle"
    /\ candidates' = {id \in registered : Stale(id)}
    /\ sweepPC' = "removing"
    /\ UNCHANGED <<now, registered, refreshedAt, status, staleStatus>>

\* Mutant: a sweep loop that returns after its first removal pass.
SweepRemoveLastPass ==
    LET removed == {id \in candidates \cap registered : Stale(id)}
    IN  /\ sweepPC = "removing"
        /\ registered' = registered \ removed
        /\ staleStatus' = staleStatus \cup
                {k \in removed \X Indicators : status[k] # NoStatus}
        /\ candidates' = {}
        /\ UNCHANGED <<now, refreshedAt, status, sweepPC>>

\* sweep, second step: remove each candidate still stale at removal time
\* (refresh wins).  The Status Store is left alone.
SweepRemove ==
    LET removed == {id \in candidates \cap registered : Stale(id)}
    IN  /\ sweepPC = "removing"
        /\ registered' = registered \ removed
        /\ staleStatus' = staleStatus \cup
                {k \in removed \X Indicators : status[k] # NoStatus}
        /\ sweepPC' = "idle"
        /\ candidates' = {}
        /\ UNCHANGED <<now, refreshedAt, status>>

RegNext ==
    \/ \E id \in Ids : Register(id)
    \/ \E id \in Ids, ind \in Indicators, v \in Values : SetStatus(id, ind, v)
    \/ Tick
    \/ SweepScan
    \/ SweepRemove

\* The sweep loop runs on its own ticker, whatever the request traffic.
RegFairness == WF_regVars(SweepScan) /\ WF_regVars(SweepRemove)

RegSpec == RegInit /\ [][RegNext]_regVars /\ RegFairness

----------------------------------------------------------------------------
(* Properties.                                                             *)

\* An entry that is stale stays in the store only until the background
\* sweep next runs, unless a registration refreshes it first.
StaleEventuallyRemoved ==
    \A id \in Ids : (id \in registered /\ Stale(id)) ~> (id \notin registered \/ ~Stale(id))

\* spec.md 4.3: status entries outlive their document and "become
\* unreachable" when it disappears.  A status set during an earlier
\* registration is never shown for the document's current registration.
ExpiredStatusUnreachable ==
    \A k \in staleStatus : k[1] \notin registered

=============================================================================
