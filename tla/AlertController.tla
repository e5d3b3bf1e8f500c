---------------------------- MODULE AlertController ----------------------------
(***************************************************************************)
(* The Prometheus alert controller, pkg/prometheus_alerts/controller.go,  *)
(* composed with the registry it polls.  Update fetches every document    *)
(* from GET /v1/indicator-documents, removes every file of the output     *)
(* directory, writes one rule file per document named after its product,  *)
(* and asks Prometheus to reload.  Start runs Update on a ticker.          *)
(*                                                                         *)
(* The directory is a function from product names to the document whose  *)
(* rules the file "<product>.yml" holds; Prometheus holds what it loaded  *)
(* at its last successful reload.  The rule content itself (AlertDocument- *)
(* From) is a pure function of the document and is not needed here.      *)
(***************************************************************************)
EXTENDS Registry

CONSTANTS
    Products,    \* product names
    ProductOf,   \* the product name inside each document
    NoFile       \* no file "<product>.yml" in the directory

ASSUME ControllerAssumption ==
    /\ ProductOf \in [Ids -> Products]
    /\ NoFile \notin Ids

VARIABLES
    ctlPC,       \* "idle", "clear", "write" or "reload": the step of Update
    fetched,     \* the documents the current (or last) Update fetched
    toWrite,     \* fetched documents writeDocuments has not reached yet
    files,       \* the output directory: product -> document or NoFile
    loaded,      \* the rule files Prometheus loaded at its last reload
    lastErr,     \* the error the last Update returned
    ioFailed     \* history: a Remove or WriteFile of this Update failed

ctlVars == <<ctlPC, fetched, toWrite, files, loaded, lastErr, ioFailed>>

vars == <<regVars, ctlVars>>

Directory == [Products -> Ids \cup {NoFile}]

TypeOK ==
    /\ RegTypeOK
    /\ ctlPC \in {"idle", "clear", "write", "reload"}
    /\ fetched \subseteq Ids
    /\ toWrite \subseteq fetched
    /\ files \in Directory
    /\ loaded \in Directory
    /\ lastErr \in {"none", "nil", "fetch", "reload"}
    /\ ioFailed \in BOOLEAN

Init ==
    /\ RegInit
    /\ ctlPC = "idle"
    /\ fetched = {}
    /\ toWrite = {}
    /\ files = [p \in Products |-> NoFile]
    /\ loaded = [p \in Products |-> NoFile]
    /\ lastErr = "none"
    /\ ioFailed = FALSE

\* Mutant: a failed fetch taken as an empty document list.
FetchIgnoringError ==
    /\ ctlPC = "idle"
    /\ \/ /\ fetched' = registered
          /\ toWrite' = registered
       \/ /\ fetched' = {}
          /\ toWrite' = {}
    /\ ctlPC' = "clear"
    /\ ioFailed' = FALSE
    /\ UNCHANGED <<regVars, files, loaded, lastErr>>

\* Update: documents, err := RegistryAPIClient.IndicatorDocuments(); on an
\* error (registry down, 10s client timeout) Update returns it at once.
\* formatDocuments converts each document and keeps the list order.
Fetch ==
    /\ ctlPC = "idle"
    /\ \/ /\ fetched' = registered
          /\ toWrite' = registered
          /\ ctlPC' = "clear"
          /\ ioFailed' = FALSE
          /\ UNCHANGED lastErr
       \/ /\ lastErr' = "fetch"
          /\ UNCHANGED <<ctlPC, fetched, toWrite, ioFailed>>
    /\ UNCHANGED <<regVars, files, loaded>>

\* Mutant: a clear that removes only the files this Update will rewrite.
ClearFetchedProducts ==
    /\ ctlPC = "clear"
    /\ files' = [p \in Products |->
                    IF \E id \in fetched : ProductOf[id] = p THEN NoFile ELSE files[p]]
    /\ ctlPC' = "write"
    /\ UNCHANGED <<regVars, fetched, toWrite, loaded, lastErr, ioFailed>>

\* clearDirectory: os.Remove of every file; a failed ReadDir or Remove is
\* logged and the file stays.
ClearDirectory ==
    /\ ctlPC = "clear"
    /\ \/ /\ files' = [p \in Products |-> NoFile]
          /\ UNCHANGED ioFailed
       \/ /\ files' \in {f \in Directory : \A p \in Products : f[p] \in {NoFile, files[p]}}
          /\ files' # [p \in Products |-> NoFile]
          /\ ioFailed' = TRUE
    /\ ctlPC' = "write"
    /\ UNCHANGED <<regVars, fetched, toWrite, loaded, lastErr>>

\* writeDocuments, one iteration: ioutil.WriteFile("<dir>/<product>.yml")
\* overwrites whatever that product's file held; an error is logged.
WriteDocument(id) ==
    /\ ctlPC = "write"
    /\ id \in toWrite
    /\ \/ /\ files' = [files EXCEPT ![ProductOf[id]] = id]
          /\ UNCHANGED ioFailed
       \/ /\ ioFailed' = TRUE
          /\ UNCHANGED files
    /\ toWrite' = toWrite \ {id}
    /\ UNCHANGED <<regVars, ctlPC, fetched, loaded, lastErr>>

\* Mutant: a reload sent while writeDocuments is still writing.
ReloadBeforeWrites ==
    /\ ctlPC = "write"
    /\ \/ /\ loaded' = files
          /\ lastErr' = "nil"
       \/ /\ lastErr' = "reload"
          /\ UNCHANGED loaded
    /\ ctlPC' = "idle"
    /\ UNCHANGED <<regVars, fetched, toWrite, files, ioFailed>>

\* After the loop: return c.PrometheusAPIClient.Reload().  A 200 makes
\* Prometheus load the directory; anything else is returned as the error.
Reload ==
    /\ ctlPC = "write"
    /\ toWrite = {}
    /\ \/ /\ loaded' = files
          /\ lastErr' = "nil"
       \/ /\ lastErr' = "reload"
          /\ UNCHANGED loaded
    /\ ctlPC' = "idle"
    /\ UNCHANGED <<regVars, fetched, toWrite, files, ioFailed>>

ControllerNext ==
    \/ Fetch
    \/ ClearDirectory
    \/ \E id \in Ids : WriteDocument(id)
    \/ Reload

Next ==
    \/ RegNext /\ UNCHANGED ctlVars
    \/ ControllerNext

Spec == Init /\ [][Next]_vars /\ RegFairness

----------------------------------------------------------------------------
(* Properties.                                                             *)

\* After an Update that returned nil and whose removals and writes all
\* succeeded, Prometheus has no rules left for a document the registry did
\* not list, whatever earlier failed Updates left in the directory: rules
\* of expired documents are dropped because clearDirectory empties the
\* whole directory before writing.
CleanUpdateDropsUnlistedRules ==
    (ctlPC = "idle" /\ lastErr = "nil" /\ ~ioFailed) =>
        \A p \in Products : loaded[p] \in fetched \cup {NoFile}

\* A fetched document no other fetched document shares a product with.
SoleOfProduct(id) ==
    \A other \in fetched : ProductOf[other] = ProductOf[id] => other = id

\* After an Update that returned nil and whose removals and writes all
\* succeeded, Prometheus has the rules of every listed document that is the
\* only listed one of its product: clearDirectory runs before every
\* WriteFile and the reload only after the last one, so the file of such a
\* document cannot be removed or overwritten before Prometheus reads it.
CleanUpdateLoadsSoleDocuments ==
    (ctlPC = "idle" /\ lastErr = "nil" /\ ~ioFailed) =>
        \A id \in fetched : SoleOfProduct(id) => loaded[ProductOf[id]] = id

\* After an Update that returned nil and whose removals and writes all
\* succeeded, every document the registry listed has its alerting rules
\* loaded in Prometheus.
CleanUpdateLoadsEveryListedDocument ==
    (ctlPC = "idle" /\ lastErr = "nil" /\ ~ioFailed) =>
        \A id \in fetched : loaded[ProductOf[id]] = id

\* What Update promises, with Update atomic: the fetch is
\* a snapshot, the removals and writes are invisible to Prometheus except
\* through whether one failed, and the reload publishes the directory.
AbstractController == INSTANCE AlertControllerAbstract
    WITH listed <- registered, fetched <- fetched, loaded <- loaded,
         lastErr <- lastErr, clean <- ~ioFailed, busy <- ctlPC # "idle"

\* The four-step Update (fetch, clear, write each document, reload),
\* interleaved with the registry, implements the atomic Update: a reload
\* that follows a clean clear and clean writes gives Prometheus one listed
\* document per product that has any and nothing else.
ControllerRefinement == AbstractController!Spec

=============================================================================
