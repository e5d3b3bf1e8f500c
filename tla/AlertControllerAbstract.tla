------------------------- MODULE AlertControllerAbstract -------------------------
(***************************************************************************)
(* What the Prometheus alert controller promises, with Update atomic: an  *)
(* Update takes a snapshot of the documents the registry lists, and the   *)
(* rules Prometheus holds change only when the Update ends with a         *)
(* successful reload.  If no Remove or WriteFile of the Update failed,    *)
(* Prometheus then holds, for every product, the rules of one of the      *)
(* product's listed documents, and no rules for a product none of them    *)
(* has; after a failed Remove or WriteFile it may hold any rule files.    *)
(* The registry is the environment: its list changes at any time.         *)
(***************************************************************************)
CONSTANTS Ids, Products, ProductOf, NoFile

VARIABLES
    listed,     \* the documents the registry would return now
    fetched,    \* the snapshot of the current (or last) Update
    loaded,     \* product -> the document whose rules Prometheus holds
    lastErr,    \* the error the last Update returned
    clean,      \* no Remove or WriteFile of the current Update failed
    busy        \* an Update is between its fetch and its reload

absVars == <<listed, fetched, loaded, lastErr, clean, busy>>

Directory == [Products -> Ids \cup {NoFile}]

\* The rule sets a clean Update may leave: one listed document per product
\* that has any, nothing for the other products.
CleanDirectories(F) ==
    {d \in Directory :
        \A p \in Products :
            IF \E id \in F : ProductOf[id] = p
            THEN d[p] \in F /\ ProductOf[d[p]] = p
            ELSE d[p] = NoFile}

Init ==
    /\ listed = {}
    /\ fetched = {}
    /\ loaded = [p \in Products |-> NoFile]
    /\ lastErr = "none"
    /\ clean = TRUE
    /\ busy = FALSE

\* Registrations and expiry change what the registry lists.
RegistryChanges ==
    /\ listed' \in SUBSET Ids
    /\ UNCHANGED <<fetched, loaded, lastErr, clean, busy>>

\* The fetch of an Update: a snapshot, or an error that ends the Update.
Snapshot ==
    /\ ~busy
    /\ \/ /\ fetched' = listed
          /\ clean' = TRUE
          /\ busy' = TRUE
          /\ UNCHANGED lastErr
       \/ /\ lastErr' = "fetch"
          /\ UNCHANGED <<fetched, clean, busy>>
    /\ UNCHANGED <<listed, loaded>>

\* A Remove or WriteFile fails and is only logged.
IOFails ==
    /\ busy
    /\ clean' = FALSE
    /\ UNCHANGED <<listed, fetched, loaded, lastErr, busy>>

\* The reload ends the Update: on success Prometheus takes the new rules
\* in one step.
Publish ==
    /\ busy
    /\ \/ /\ lastErr' = "nil"
          /\ loaded' \in IF clean THEN CleanDirectories(fetched) ELSE Directory
       \/ /\ lastErr' = "reload"
          /\ UNCHANGED loaded
    /\ busy' = FALSE
    /\ UNCHANGED <<listed, fetched, clean>>

Next == RegistryChanges \/ Snapshot \/ IOFails \/ Publish

Spec == Init /\ [][Next]_absVars

=============================================================================
