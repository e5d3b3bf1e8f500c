------------------------ MODULE AlertController_proofs ------------------------
(***************************************************************************)
(* Proof that a clean successful Update of the alert controller leaves    *)
(* Prometheus no rules of documents the registry did not list, for every  *)
(* set of documents and products and every TTL.                            *)
(***************************************************************************)
EXTENDS AlertController, Registry_proofs, TLAPS

\* The invariant is not inductive by itself: a Reload copies the
\* directory, so the directory must already hold only fetched documents
\* whenever the write phase has seen no failed Remove or WriteFile.
CleanWriteHoldsFetched ==
    (ctlPC = "write" /\ ~ioFailed) => \A p \in Products : files[p] \in fetched \cup {NoFile}

CtlInv == TypeOK /\ CleanWriteHoldsFetched /\ CleanUpdateDropsUnlistedRules

(* The controller's invariant holds initially: nothing was loaded yet.    *)
LEMMA CtlInit == Init => CtlInv
<1> SUFFICES ASSUME Init PROVE CtlInv
  OBVIOUS
<1>1. RegTypeOK
  BY RegistryAssumption DEF Init, RegInit, RegTypeOK, Time
<1>2. files \in Directory /\ loaded \in Directory
  BY DEF Init, Directory
<1>3. QED
  BY <1>1, <1>2 DEF Init, CtlInv, TypeOK, CleanWriteHoldsFetched,
                    CleanUpdateDropsUnlistedRules

(* A controller step leaves the registry's stores as typed as they were. *)
LEMMA RegUnchanged == RegTypeOK /\ UNCHANGED regVars => RegTypeOK'
BY DEF RegTypeOK, regVars, Time, StatusEntry

(* Every step of the registry or the controller preserves the invariant.  *)
LEMMA CtlStep == CtlInv /\ [Next]_vars => CtlInv'
<1> SUFFICES ASSUME CtlInv, [Next]_vars PROVE CtlInv'
  OBVIOUS
<1> USE ControllerAssumption
<1>1. CASE RegNext /\ UNCHANGED ctlVars
  <2>1. RegTypeOK'
    BY <1>1, RegTypeStep DEF CtlInv, TypeOK
  <2>2. QED
    BY <1>1, <2>1 DEF CtlInv, TypeOK, ctlVars, CleanWriteHoldsFetched,
                      CleanUpdateDropsUnlistedRules
<1>2. CASE Fetch
  BY <1>2, RegUnchanged DEF Fetch, CtlInv, TypeOK, RegTypeOK, CleanWriteHoldsFetched,
              CleanUpdateDropsUnlistedRules
<1>3. CASE ClearDirectory
  BY <1>3, RegUnchanged DEF ClearDirectory, CtlInv, TypeOK, Directory, CleanWriteHoldsFetched,
              CleanUpdateDropsUnlistedRules
<1>4. ASSUME NEW id \in Ids, WriteDocument(id) PROVE CtlInv'
  <2>1. TypeOK'
    BY <1>4, RegUnchanged DEF WriteDocument, CtlInv, TypeOK, Directory
  <2>2. CleanWriteHoldsFetched'
    BY <1>4 DEF WriteDocument, CtlInv, TypeOK, Directory, CleanWriteHoldsFetched
  <2>3. CleanUpdateDropsUnlistedRules'
    BY <1>4 DEF WriteDocument, CleanUpdateDropsUnlistedRules
  <2>4. QED
    BY <2>1, <2>2, <2>3 DEF CtlInv
<1>5. CASE Reload
  <2>1. TypeOK'
    BY <1>5, RegUnchanged DEF Reload, CtlInv, TypeOK
  <2>2. CleanWriteHoldsFetched'
    BY <1>5 DEF Reload, CleanWriteHoldsFetched
  <2>3. CleanUpdateDropsUnlistedRules'
    BY <1>5 DEF Reload, CtlInv, CleanWriteHoldsFetched, CleanUpdateDropsUnlistedRules
  <2>4. QED
    BY <2>1, <2>2, <2>3 DEF CtlInv
<1>6. CASE UNCHANGED vars
  BY <1>6 DEF vars, regVars, ctlVars, CtlInv, TypeOK, RegTypeOK,
              CleanWriteHoldsFetched, CleanUpdateDropsUnlistedRules
<1>7. QED
  BY <1>1, <1>2, <1>3, <1>4, <1>5, <1>6 DEF Next, ControllerNext

(* After an Update that returned nil with every Remove and WriteFile      *)
(* successful, Prometheus holds no rules of a document the registry did   *)
(* not list in that Update's fetch, whatever the registry's TTL and the   *)
(* failures of earlier Updates: clearDirectory empties the whole output   *)
(* directory before writeDocuments.                                        *)
THEOREM CleanUpdateDropsUnlistedRulesTheorem == Spec => []CleanUpdateDropsUnlistedRules
<1>1. CtlInv => CleanUpdateDropsUnlistedRules
  BY DEF CtlInv
<1>2. QED
  BY <1>1, CtlInit, CtlStep, PTL DEF Spec
----------------------------------------------------------------------------
(* Every document that is the sole one of its product is loaded.          *)

\* The clear phase has written nothing yet.
ClearingWritesAll == ctlPC = "clear" => toWrite = fetched

\* While writing with no failed Remove or WriteFile, every document already
\* written that is the sole one of its product still has its file: the
\* directory was emptied before the first write and no later write is of
\* its product.
CleanWritesKeepSole ==
    (ctlPC = "write" /\ ~ioFailed) =>
        \A id \in fetched \ toWrite : SoleOfProduct(id) => files[ProductOf[id]] = id

SoleInv == CtlInv /\ ClearingWritesAll /\ CleanWritesKeepSole /\ CleanUpdateLoadsSoleDocuments

LEMMA SoleInit == Init => SoleInv
BY CtlInit DEF Init, SoleInv, ClearingWritesAll, CleanWritesKeepSole,
               CleanUpdateLoadsSoleDocuments

LEMMA SoleStep == SoleInv /\ [Next]_vars => SoleInv'
<1> SUFFICES ASSUME SoleInv, [Next]_vars PROVE SoleInv'
  OBVIOUS
<1> USE ControllerAssumption
<1>1. CtlInv'
  BY CtlStep DEF SoleInv
<1>2. CASE RegNext /\ UNCHANGED ctlVars
  BY <1>1, <1>2 DEF SoleInv, ctlVars, ClearingWritesAll, CleanWritesKeepSole,
                    CleanUpdateLoadsSoleDocuments, SoleOfProduct
<1>3. CASE Fetch
  BY <1>1, <1>3 DEF Fetch, SoleInv, ClearingWritesAll, CleanWritesKeepSole,
                    CleanUpdateLoadsSoleDocuments, SoleOfProduct
<1>4. CASE ClearDirectory
  <2>1. CleanWritesKeepSole'
    BY <1>4 DEF ClearDirectory, SoleInv, ClearingWritesAll, CleanWritesKeepSole
  <2>2. QED
    BY <1>1, <1>4, <2>1 DEF ClearDirectory, SoleInv, ClearingWritesAll,
                            CleanUpdateLoadsSoleDocuments
<1>5. ASSUME NEW id \in Ids, WriteDocument(id) PROVE SoleInv'
  <2>1. CASE files' = [files EXCEPT ![ProductOf[id]] = id] /\ UNCHANGED ioFailed
    <3>1. ASSUME NEW w \in fetched \ toWrite', SoleOfProduct(w), ~ioFailed
          PROVE  files'[ProductOf[w]] = w
      <4>1. CASE w = id
        BY <1>5, <2>1, <4>1 DEF SoleInv, CtlInv, TypeOK, Directory
      <4>2. CASE w # id
        <5>1. w \in fetched \ toWrite /\ id \in fetched
          BY <1>5, <3>1, <4>2 DEF WriteDocument, SoleInv, CtlInv, TypeOK
        <5>2. ProductOf[id] # ProductOf[w]
          BY <3>1, <4>2, <5>1 DEF SoleOfProduct
        <5>3. files[ProductOf[w]] = w
          BY <1>5, <3>1, <5>1 DEF WriteDocument, SoleInv, CleanWritesKeepSole
        <5>4. QED
          BY <1>5, <2>1, <5>2, <5>3 DEF SoleInv, CtlInv, TypeOK, Directory
      <4>3. QED
        BY <4>1, <4>2
    <3>2. CleanWritesKeepSole'
      BY <1>5, <3>1 DEF WriteDocument, CleanWritesKeepSole, SoleOfProduct
    <3>3. QED
      BY <1>1, <1>5, <3>2 DEF WriteDocument, SoleInv, ClearingWritesAll,
                              CleanUpdateLoadsSoleDocuments, SoleOfProduct
  <2>4. CASE ioFailed' = TRUE /\ UNCHANGED files
    BY <1>1, <1>5, <2>4 DEF WriteDocument, SoleInv, ClearingWritesAll, CleanWritesKeepSole,
                            CleanUpdateLoadsSoleDocuments, SoleOfProduct
  <2>5. QED
    BY <1>5, <2>1, <2>4 DEF WriteDocument
<1>6. CASE Reload
  BY <1>1, <1>6 DEF Reload, SoleInv, ClearingWritesAll, CleanWritesKeepSole,
                    CleanUpdateLoadsSoleDocuments, SoleOfProduct
<1>7. CASE UNCHANGED vars
  BY <1>1, <1>7 DEF vars, ctlVars, SoleInv, ClearingWritesAll, CleanWritesKeepSole,
                    CleanUpdateLoadsSoleDocuments, SoleOfProduct
<1>8. QED
  BY <1>2, <1>3, <1>4, <1>5, <1>6, <1>7 DEF Next, ControllerNext

(* The invariant CleanUpdateLoadsSoleDocuments of controller_clean_update, *)
(* for every set of documents and products and every TTL: after an Update *)
(* that returned nil with every Remove and WriteFile successful,           *)
(* Prometheus holds the rules of each listed document that is the only     *)
(* listed one of its product.                                               *)
THEOREM CleanUpdateLoadsSoleDocumentsTheorem == Spec => []CleanUpdateLoadsSoleDocuments
<1>1. SoleInv => CleanUpdateLoadsSoleDocuments
  BY DEF SoleInv
<1>2. QED
  BY <1>1, SoleInit, SoleStep, PTL DEF Spec

----------------------------------------------------------------------------
(* The four-step Update implements the atomic Update.                      *)

\* A rule file holds a document of the product it is named after.
FilesOfTheirProduct ==
    \A p \in Products : files[p] # NoFile => ProductOf[files[p]] = p

\* While writing with no failed Remove or WriteFile, the directory holds
\* only documents already written in this Update, and every product that
\* one of them belongs to has a file.
CleanWriteState ==
    (ctlPC = "write" /\ ~ioFailed) =>
        /\ \A p \in Products : files[p] \in (fetched \ toWrite) \cup {NoFile}
        /\ \A id \in fetched \ toWrite : files[ProductOf[id]] # NoFile

RefInv == SoleInv /\ FilesOfTheirProduct /\ CleanWriteState

LEMMA RefInit == Init => RefInv
<1> SUFFICES ASSUME Init PROVE RefInv
  OBVIOUS
<1>1. SoleInv
  BY SoleInit
<1>2. QED
  BY <1>1 DEF Init, RefInv, FilesOfTheirProduct, CleanWriteState

LEMMA RefStep == RefInv /\ [Next]_vars => RefInv'
<1> SUFFICES ASSUME RefInv, [Next]_vars PROVE RefInv'
  OBVIOUS
<1> USE ControllerAssumption
<1>1. SoleInv'
  BY SoleStep DEF RefInv
<1>2. CASE RegNext /\ UNCHANGED ctlVars
  BY <1>1, <1>2 DEF RefInv, ctlVars, FilesOfTheirProduct, CleanWriteState
<1>3. CASE Fetch
  BY <1>1, <1>3 DEF Fetch, RefInv, FilesOfTheirProduct, CleanWriteState
<1>4. CASE ClearDirectory
  <2>1. FilesOfTheirProduct'
    BY <1>4 DEF ClearDirectory, RefInv, FilesOfTheirProduct
  <2>2. CleanWriteState'
    <3>1. SUFFICES ASSUME ~ioFailed' PROVE CleanWriteState'
      BY DEF CleanWriteState
    <3>2. files' = [p \in Products |-> NoFile] /\ fetched' \ toWrite' = {}
      BY <1>4, <3>1 DEF ClearDirectory, RefInv, SoleInv, ClearingWritesAll
    <3>3. QED
      BY <3>2 DEF CleanWriteState
  <2>3. QED
    BY <1>1, <2>1, <2>2 DEF RefInv
<1>5. ASSUME NEW id \in Ids, WriteDocument(id) PROVE RefInv'
  <2>1. id \in fetched /\ ProductOf[id] \in Products /\ files \in Directory
    BY <1>5 DEF WriteDocument, RefInv, SoleInv, CtlInv, TypeOK
  <2>2. CASE files' = [files EXCEPT ![ProductOf[id]] = id] /\ UNCHANGED ioFailed
    <3>1. FilesOfTheirProduct'
      BY <2>1, <2>2 DEF RefInv, FilesOfTheirProduct, Directory
    <3>2. CleanWriteState'
      BY <1>5, <2>1, <2>2, NoFile \notin Ids
         DEF WriteDocument, RefInv, CleanWriteState, Directory
    <3>3. QED
      BY <1>1, <3>1, <3>2 DEF RefInv
  <2>3. CASE ioFailed' = TRUE /\ UNCHANGED files
    BY <1>1, <2>3 DEF RefInv, FilesOfTheirProduct, CleanWriteState
  <2>4. QED
    BY <1>5, <2>2, <2>3 DEF WriteDocument
<1>6. CASE Reload
  BY <1>1, <1>6 DEF Reload, RefInv, FilesOfTheirProduct, CleanWriteState
<1>7. CASE UNCHANGED vars
  BY <1>1, <1>7 DEF vars, ctlVars, RefInv, FilesOfTheirProduct, CleanWriteState
<1>8. QED
  BY <1>2, <1>3, <1>4, <1>5, <1>6, <1>7 DEF Next, ControllerNext

(* The reload of an Update whose removals and writes all succeeded sends  *)
(* Prometheus a directory of the kind the abstract Update publishes.      *)
LEMMA CleanReloadPublishes ==
    ASSUME RefInv, ctlPC = "write", toWrite = {}, ~ioFailed
    PROVE  files \in AbstractController!CleanDirectories(fetched)
<1> USE ControllerAssumption
<1>1. files \in AbstractController!Directory
  BY DEF RefInv, SoleInv, CtlInv, TypeOK, Directory, AbstractController!Directory
<1>2. ASSUME NEW p \in Products
      PROVE  IF \E id \in fetched : ProductOf[id] = p
             THEN files[p] \in fetched /\ ProductOf[files[p]] = p
             ELSE files[p] = NoFile
  <2>1. files[p] \in fetched \cup {NoFile}
    BY DEF RefInv, CleanWriteState
  <2>2. files[p] # NoFile => ProductOf[files[p]] = p
    BY DEF RefInv, FilesOfTheirProduct
  <2>3. CASE \E id \in fetched : ProductOf[id] = p
    <3>1. PICK id \in fetched : ProductOf[id] = p
      BY <2>3
    <3>2. files[p] # NoFile
      BY <3>1 DEF RefInv, CleanWriteState
    <3>3. QED
      BY <2>1, <2>2, <2>3, <3>2
  <2>4. CASE ~\E id \in fetched : ProductOf[id] = p
    BY <2>1, <2>2, <2>4
  <2>5. QED
    BY <2>3, <2>4
<1>3. QED
  BY <1>1, <1>2 DEF AbstractController!CleanDirectories

(* Every step of the controller or the registry is a step of the atomic   *)
(* Update or leaves its state alone: a registry step changes the listed   *)
(* set, Fetch is the snapshot (or its error), a failed Remove or WriteFile *)
(* makes the Update unclean, a successful one is invisible, and Reload is *)
(* the publication.                                                        *)
LEMMA RefMapStep ==
    RefInv /\ [Next]_vars => [AbstractController!Next]_AbstractController!absVars
<1> SUFFICES ASSUME RefInv, [Next]_vars
             PROVE  [AbstractController!Next]_AbstractController!absVars
  OBVIOUS
<1> USE ControllerAssumption
<1>1. CASE RegNext /\ UNCHANGED ctlVars
  <2>1. RegTypeOK'
    BY <1>1, RegTypeStep DEF RefInv, SoleInv, CtlInv, TypeOK
  <2>2. AbstractController!RegistryChanges
    BY <1>1, <2>1 DEF ctlVars, RegTypeOK, AbstractController!RegistryChanges
  <2>3. QED
    BY <2>2 DEF AbstractController!Next
<1>2. CASE Fetch
  <2>1. CASE ctlPC' = "clear" /\ fetched' = registered /\ ioFailed' = FALSE
             /\ UNCHANGED lastErr
    <3>1. AbstractController!Snapshot
      BY <1>2, <2>1 DEF Fetch, regVars, AbstractController!Snapshot
    <3>2. QED
      BY <3>1 DEF AbstractController!Next
  <2>2. CASE lastErr' = "fetch" /\ UNCHANGED <<ctlPC, fetched, toWrite, ioFailed>>
    <3>1. AbstractController!Snapshot
      BY <1>2, <2>2 DEF Fetch, regVars, AbstractController!Snapshot
    <3>2. QED
      BY <3>1 DEF AbstractController!Next
  <2>3. QED
    BY <1>2, <2>1, <2>2 DEF Fetch
<1>3. CASE ClearDirectory
  <2>1. CASE UNCHANGED ioFailed
    BY <1>3, <2>1 DEF ClearDirectory, regVars, AbstractController!absVars
  <2>2. CASE ioFailed' = TRUE
    <3>1. AbstractController!IOFails
      BY <1>3, <2>2 DEF ClearDirectory, regVars, AbstractController!IOFails
    <3>2. QED
      BY <3>1 DEF AbstractController!Next
  <2>3. QED
    BY <1>3, <2>1, <2>2 DEF ClearDirectory
<1>4. ASSUME NEW id \in Ids, WriteDocument(id)
      PROVE  [AbstractController!Next]_AbstractController!absVars
  <2>1. CASE UNCHANGED ioFailed
    BY <1>4, <2>1 DEF WriteDocument, regVars, AbstractController!absVars
  <2>2. CASE ioFailed' = TRUE
    <3>1. AbstractController!IOFails
      BY <1>4, <2>2 DEF WriteDocument, regVars, AbstractController!IOFails
    <3>2. QED
      BY <3>1 DEF AbstractController!Next
  <2>3. QED
    BY <1>4, <2>1, <2>2 DEF WriteDocument
<1>5. CASE Reload
  <2>1. files \in IF ~ioFailed THEN AbstractController!CleanDirectories(fetched)
                                ELSE AbstractController!Directory
    <3>1. CASE ~ioFailed
      BY <1>5, <3>1, CleanReloadPublishes DEF Reload
    <3>2. CASE ioFailed
      BY <3>2 DEF RefInv, SoleInv, CtlInv, TypeOK, Directory, AbstractController!Directory
    <3>3. QED
      BY <3>1, <3>2
  <2>2. AbstractController!Publish
    BY <1>5, <2>1 DEF Reload, regVars, AbstractController!Publish
  <2>3. QED
    BY <2>2 DEF AbstractController!Next
<1>6. CASE UNCHANGED vars
  BY <1>6 DEF vars, ctlVars, regVars, AbstractController!absVars
<1>7. QED
  BY <1>1, <1>2, <1>3, <1>4, <1>5, <1>6 DEF Next, ControllerNext

(* The controller, composed with the registry, implements the atomic      *)
(* Update of AlertControllerAbstract under the refinement mapping of      *)
(* AbstractController: the property ControllerRefinement, for every set   *)
(* of documents, products and times.                                      *)
THEOREM ControllerRefinesAbstract == Spec => ControllerRefinement
<1>1. Init => AbstractController!Init
  BY DEF Init, RegInit, AbstractController!Init
<1>2. QED
  BY <1>1, RefInit, RefStep, RefMapStep, PTL
     DEF Spec, ControllerRefinement, AbstractController!Spec

=============================================================================
