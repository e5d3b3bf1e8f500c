# TLA+ models of indicator-protocol

This directory holds the TLA+ specifications, TLC configurations and TLAPS
proofs that accompany the indicator-protocol sources (`src/`). Each module
says which code it models. `PROJECT.json` maps every definition that models
code to the lines it stands for, and lists the runs, mutants, findings,
hazards and theorems.

## 1. The system and its parts

Operators describe service-level indicators as YAML documents. Agents
register these documents with a central registry. Consumers read the
registry and turn the documents into alerting rules and dashboards.

| Component | Code | State | Operations | Interacts with |
|---|---|---|---|---|
| Document Store | `pkg/registry` (not under `src/`; see spec.md 4.2) | identifier -> (bytes, lastRefreshedAt) | register (upsert + refresh), sweep (TTL expiry, background), list | the HTTP API; agents POST, the controller GETs |
| Status Store | `pkg/registry/status_store` (not under `src/`; spec.md 4.3) | (identifier, indicator) -> (value, observedAt) | setStatus (last write wins, no existence check), merge at read time | the HTTP API; merged into the GET view |
| Registry API | `pkg/registry` web server (its test: `pkg/registry/web_server_test.go`) | none | POST /v1/register, POST .../bulk_status, GET /v1/indicator-documents | both stores, each under its own lock |
| Registry agent | `cmd/registry_agent/main.go` | none in `main` | periodically re-registers local documents | Registry API (HTTP, 10s timeout) |
| Prometheus alert controller | `pkg/prometheus_alerts/controller.go`, `cmd/prometheus_alert_controller/main.go` | the output directory of rule files; Prometheus' loaded rules | Start (ticker loop) / Update: fetch, clearDirectory, writeDocuments, Reload | Registry API (GET); the filesystem; Prometheus `/-/reload` |
| Alert rule generation | `pkg/prometheus_alerts/alerting_rules.go` | none (pure) | AlertDocumentFrom, ruleFrom, AlertDocumentFilename | used by the controller |
| Document reading | `pkg/indicator/unmarshal.go` | none (pure) | DocumentFromYAML (apiVersion dispatch, v0 conversion, schema validation), interpolateBytes, PatchFromYAML, ProcessDocument, ParseMetadata | patch engine (ApplyPatches, not under `src/`), validation |
| Admission webhook | `k8s/pkg/admission/server.go` | s.mu, s.lis, s.srv; the http.Server's shutdown flag and tracked listeners | NewServer, Run (goroutine run), Close, Addr; four handlers (defaults and validation) | Kubernetes API server (HTTP); the caller that starts and closes it |
| Dashboards, docs, generated code | `pkg/grafana_dashboard`, `pkg/docs`, `pkg/asset`, deepcopy, fake client | none | format translation | none |

**The hard behaviours.**
- The admission server's `run` goroutine races with any `Close` caller
  through `s.mu`, and `net/http`'s `Serve` races with `Shutdown` through the
  server's own lock.
- The registry's expiry sweep races with registrations. The two stores are
  read at different instants.
- The Status Store never forgets an entry, and identifiers are content
  hashes.
- The controller's `Update` is a non-atomic sequence: fetch, clear, write
  each file, reload. Every I/O step can fail, and failures are only logged.
  Meanwhile the registry keeps changing.
- `interpolateBytes` iterates over a Go map, so the order is random.

**What makes each component correct.**
- Server: `Close` stops the server and frees the listener. After `Shutdown`
  nothing accepts.
- Document Store: a live agent's document is never removed. A dead agent's
  document is eventually removed.
- Status Store: a status shows only for the registration it was reported
  for.
- Controller: after a successful Update, Prometheus alerts exactly on the
  listed documents.
- Reading: the result does not depend on map order, and a bad input gives
  an error, never a panic.

## 2. Modules

### AdmissionServer (`k8s/pkg/admission/server.go`, lines 67-162)

Variables:
- `runPC`: the program counter of the `run` goroutine.
- `sock`: the listener socket.
- `lisSet`, `srvSet`: the fields `s.lis` and `s.srv`.
- `shutdown`: `srv.inShutdown`.
- `tracked`: whether `Serve` is tracking the listener.
- `mu`: the holder of `s.mu`.
- `closePC`, `closeRet`: the program counter and result of each `Close`
  call.

Actions of the `run` goroutine:
- `Run` starts `run`.
- `Listen`: `net.Listen` succeeds, or the process exits through
  `log.Fatalf`.
- `Register`: the critical section that publishes `lis` and `srv`.
- `Serve`: `trackListener` refuses when `inShutdown` is set. `Serve` then
  returns `ErrServerClosed`, and its deferred `l.Close()` closes the
  listener.
- `AcceptFail`: `Accept` fails once the socket is closed, so `Serve` returns.

Actions of each `Close` call:
- `CloseLock`: lock, then return nil if `srv == nil`.
- `CloseShutdown`: `Shutdown` closes the tracked listeners. It may hit the
  5 s deadline while connections are active.
- `CloseListener`: `s.lis.Close()`. This is an error if the listener is
  already closed.

`Addr` only reads, so it is not an action. The handlers are modelled in
`Defaulting`.

Fairness: weak fairness for every step of a goroutine that has started,
because the Go scheduler does not starve a runnable goroutine. Calling
`Run` or `Close` is the caller's choice and has no fairness.

### Registry (spec-modelled: spec.md 4.2, 4.3, 5)

The store code is not part of `src/`, so this module follows the spec.

Variables:
- `now`: the injected clock, bounded by `MaxTime`.
- `registered` and `refreshedAt`: the Document Store.
- `status`: the Status Store. Each entry is a value with its `at` time.
- `sweepPC` and `candidates`: the background sweep's two steps (scan, then
  remove with a fresh comparison, as spec.md 4.2 requires).
- `staleStatus`: a history variable. It holds the status entries whose
  document has expired since they were set. Only the property reads it.

Actions: `Register`, `SetStatus`, `Tick`, `SweepScan`, `SweepRemove`.
Weak fairness on the two sweep steps, because the sweep runs on its own
ticker whatever the traffic.

`SweepRemove` re-reads the timestamps, as spec.md 4.2 requires, so a
registration between scan and removal wins. No property restates that
re-check: with the store code outside `src/` it would check the spec
against itself. What is checked is what the re-check and the sweep's
fairness give together (`StaleEventuallyRemoved`, in the controller run)
and the spec gap of `ExpiredStatusUnreachable`.

### AlertController (`pkg/prometheus_alerts/controller.go`) composed with Registry

This module EXTENDS `Registry`. `Next` is a registry step (with the
controller unchanged) or a controller step.

Variables:
- `ctlPC`: the step of `Update`.
- `fetched`: the documents the last fetch returned.
- `toWrite`: the documents `writeDocuments` has not reached yet. The write
  order is any order, because the registry's list order is unspecified.
- `files`: product -> the document whose rules `<product>.yml` holds.
- `loaded`: the files Prometheus loaded at its last successful reload.
- `lastErr`: the error the last `Update` returned.
- `ioFailed`: a history flag. It records that a remove or a write failed
  during this Update.

Actions:
- `Fetch`: success, or an error. An error makes `Update` return at once.
- `ClearDirectory`: all files removed, or some left because a remove failed.
- `WriteDocument(id)`: the file is written, or the failed write is logged.
- `Reload`: a 200, or an error.

Start's loop is the return to `idle`. The conversion of a document into
rules is abstracted to the document's identity. `AlertRules` models that
conversion.

### AlertControllerAbstract (what `Update` promises) and the refinement

`AlertControllerAbstract` states `Update` as if it were atomic. Its
variables:
- `listed`: the documents the registry lists now.
- `fetched`: the snapshot of the current or last Update.
- `loaded`, `lastErr`: as in the controller.
- `clean`: no Remove or WriteFile of this Update failed.
- `busy`: an Update is between its fetch and its reload.

Its actions:
- `RegistryChanges`: the environment changes the listed set.
- `Snapshot`: the fetch, or the fetch error.
- `IOFails`: a failed Remove or WriteFile, which is only logged.
- `Publish`: the reload. On success after a clean Update, Prometheus gets
  one of `CleanDirectories(fetched)`: for each product, a listed document
  of that product if any is listed, and otherwise no file. After an
  unclean Update it gets any directory.

`AlertController` instantiates it as `AbstractController`. The mapping is:
- `listed <- registered` and `clean <- ~ioFailed`;
- `busy <- ctlPC # "idle"`;
- the other variables map to themselves.

The property `ControllerRefinement` is `AbstractController!Spec`. A
successful remove or write is a stutter of the abstract spec. The
directory is invisible to it, so what the refinement says is that
Prometheus's rules change only at the reload, and to a clean directory
after a clean Update.

### DocumentRead (`pkg/indicator/unmarshal.go`, lines 24-211 and 437-493)

One call of `DocumentFromYAML`. The input is abstracted to what the code
tells apart:
- `wellFormed`: whether the bytes are valid YAML.
- `version`: v0, v1 or another apiVersion.
- `schemaValid`: whether v1 bytes pass the OpenAPI schema.
- `labelsAt`: where labels sit, under `metadata.labels`, as v0's flat
  `metadata`, or nowhere.
- `labels`, `promql` and the v0 `thresholds`.

Text is a sequence of atoms. An atom is plain text, a reference `$k`
(written `Ref(k, FALSE)`) or `${k}` (written `Ref(k, TRUE)`), or the rest
of a longer key.

`Stem` says which key is another key plus `_rest`. For such a pair, the
regexp `(\$k)(\b|\_|$)` of the shorter key also matches the longer key's
reference.

Variables:
- `input` and `opts` are fixed for the call.
- `bytes` is `docBytes` as it is rewritten.
- `labels` is the merged label map.
- `pending` holds the keys the `range` loop has not visited yet.
- `pc` is the program counter.
- `result` is the outcome: `Err`, `Panic` or the document.

Actions, following the code:
- `ReadAll` can fail.
- `InterpolateStart`:
  - unparseable bytes give `Err`;
  - overrides on a nil `Labels` map give `Panic`;
  - otherwise it merges the labels, overrides winning.
- `InterpolateKey(k)` is one loop iteration with the key chosen freely,
  which covers Go's random map order. The raw key is spliced into the
  pattern, so a key in `BadPattern` (one with `(`, `[` or `\\`) makes
  `regexp.MustCompile` panic. Other keys are taken to be identifier-like;
  a `.` in a key, which over-matches, is not modelled.
- `InterpolateReturn` ends the loop.
- `DecodeDocument` covers the apiVersion switch, `v0documentFromBytes` with
  `v0thresholdFromYAML`, and v1 schema validation.

Pure operators:
- `ParseMetadata` is a recursive function over the flag's pairs.
- `Merged` is the override loop.
- `Image` and `ReplaceKey` are one `ReplaceAll`.
- `Expand` is regexp's template expansion of the value: `$name` inside a
  value becomes empty.
- `v0thresholdFromYAML` is the keyword switch. It is written as an IF
  chain: a CASE with overlapping guards may pick any true arm, while Go's
  switch takes the first. `Decode` is written the same way.
- `Unset` is the zero value of a Go string, which an absent YAML keyword
  unmarshals to.

`DocumentsAssumption` states the Go types the YAML is unmarshalled into:
- `V0Threshold` has a string per keyword (`v0yamlThreshold`);
- `IsDocumentBytes` gives the fields of the bytes.

TLC evaluates the assumption on the model's documents. Threshold values
are numerals without label references, so interpolation never touches
them. The real `ReplaceAll` runs over the whole document and would also
rewrite a `$k` written in a threshold.

### Defaulting (`k8s/pkg/admission/server.go`, lines 169-525)

One CREATE or UPDATE goes through the API server's admission chain:
1. The mutating handler answers.
2. The API server applies the JSON patch (`AddAt` and `ApplyPatch` follow
   RFC 6902, where "add" on an existing member replaces it; this is API
   server behaviour, not repository code).
3. The validating handler answers.
4. An allowed object is stored.

Objects are Indicators `[spec]` or IndicatorDocuments
`[layout, indicators]`.

`review.wire` is either "ok" or one of the failures of `deserializeReview`
and `json.Unmarshal`, or a failed `Write`.

Variables:
- `phase`.
- `patch`: the returned operations. `<<>>` is `marshalPatches`' nil patch.
- `object`: the object after patching.
- `stored`: what was persisted.

Actions:
- `DefaultHandler` covers both defaulting handlers.
  - Error returns are `Reject`: the API server rejects the request, as
    under failurePolicy Fail (the webhook configuration is not in `src/`).
  - `Patches` builds `getLayoutPatches` and then, for each indicator,
    `getAlertPatches` and `getPresentationPatches`.
  - `getLayoutPatches` compares with `NoLayout`, the zero Layout: empty
    title, owner and description and a nil `Sections`. A client's
    `sections: []` is a non-nil empty slice (`sectionsNonNil`), which
    `reflect.DeepEqual` does not equate with nil.
- `ApplyResponse` applies the patch.
- `ValidationHandler` covers both validation handlers.
  - `ValidateForK8s` and `ValidateIndicator` are library code outside
    `src/`, so the answer is either allowed or denied.

### AlertRules (`pkg/prometheus_alerts/alerting_rules.go`, lines 33-70)

- `AlertDocumentFrom` is a flattening of the nested loop.
- `ruleFrom` builds the alert name, the query with `$step` replaced (the
  query is a token sequence), the comparison, `for`, and the labels.
- `ruleLabels` adds the metadata labels over `product`, `version` and
  `level`, with `@@`.

The state is the document and the rendered file. `Render` is one iteration
of `writeDocuments`.

## 3. Runs

| Run | Module / cfg | Expect | Checks | Bounds |
|---|---|---|---|---|
| server_shutdown | MC_AdmissionServer.cfg | pass | `NoServingAfterShutdown`, `ShutdownStopsServer` | 3 Close callers; no symmetry (liveness). 271 states |
| server_close_leak | MC_AdmissionServer_leak.cfg | violation | `CloseReleasesListener` | the same |
| registry_status_resurrection | MC_Registry_status.cfg | violation | `ExpiredStatusUnreachable` | 2 ids, 1 indicator, 1 value, TTL 1, clock 0..3 |
| controller_clean_update | MC_AlertController.cfg | pass | `CleanUpdateDropsUnlistedRules`, `CleanUpdateLoadsSoleDocuments`, `ControllerRefinement`, `StaleEventuallyRemoved` | 3 ids, 2 of them one product; TTL 1, clock 0..2; no indicators; 426,570 states |
| controller_product_collision | MC_AlertController_collision.cfg | violation | `CleanUpdateLoadsEveryListedDocument` | the same |
| docread_pipeline | MC_DocumentRead.cfg | pass | `InterpolationMatchesReference`, `V0ThresholdsFollowPrecedence` | keys k1 and k2 = k1 + "_rest", and k3, not a valid regexp, in one override flag; 4 override flags; every labels placement, version and threshold combination; 376,578 states |
| docread_key_order | MC_DocumentRead_order.cfg | violation | `InterpolationIndependentOfKeyOrder` | the same |
| docread_nil_labels_panic | MC_DocumentRead_panic.cfg | violation | `ReadNeverPanics` | the same |
| admission_defaulting | MC_Defaulting.cfg | pass | `StoredObjectsDefaulted`, `DefaultingKeepsUserValues` | every alert/presentation shape of an Indicator and of a one-indicator document with each of 4 layouts (zero, `sections: []`, owner only, user-set); two-indicator documents over 3 presentations; 7 wire outcomes; 10,608 states |
| admission_layout_empty_sections | MC_Defaulting_layout.cfg | violation | `StoredLayoutsDefaulted` | the same |
| alert_rule_identity | MC_AlertRules.cfg | pass | `RuleIdentitiesDistinct` | 1-2 indicators (same or different names), 0-2 thresholds each with either level, 4 metadata label maps; 840 states |
| alert_rule_level_override | MC_AlertRules_metadata.cfg | violation | `RuleIdentitiesDistinctAnyMetadata` | the same |

**Why the bounds are enough.**
- AdmissionServer: three `Close` callers are enough for a second and a
  third Close to arrive while the first holds the lock. They also let every
  Close outcome (nil before start, nil after start, timeout, already closed)
  happen in one run.
- Registry: with TTL 1 and a clock up to 3, a document can go stale, be
  scanned, be refreshed between scan and removal, expire, and be registered
  again.
- AlertController: the clock up to 2 lets a document expire between two
  Updates, and a document registered at 0 is stale at 2, so
  `StaleEventuallyRemoved` is checked in this composed run. Two documents of one product give the collision.
- The Status Store is left out of the controller run (no indicators),
  because the controller never reads it.
- DocumentRead: two keys, one the prefix of the other, give every regexp
  case: an exact match, `${k}`, and a prefix match followed by `_rest`.
  Label values with and without a reference, and overrides that add a key,
  replace one, or repeat one in the flag, are all included. Each threshold
  has two keywords, with a bad value in the honoured or in the ignored
  keyword.
- Defaulting: every zero and non-zero value of each defaulted field
  appears. That includes labels that are nil, empty or set, which is the
  case where `DeepEqual` and `len` disagree. Two indicators make the
  `/indicators/i` paths differ. The layouts include the zero one (nil
  `Sections`) and `sections: []`, which `DeepEqual` tells apart.
- AlertRules: two thresholds of one indicator, with equal or different
  levels, and a metadata key that collides or does not.

**What the runs show.**
- `server_shutdown`: Serve's `inShutdown` check and Shutdown's closing of
  tracked listeners are both needed. Without the first, the mutant
  `ServeIgnoringShutdown` accepts after shutdown. The listener is closed
  by Shutdown (if Serve tracks it), by Serve's deferred close (if Serve
  ran after Shutdown), or by `s.lis.Close`, so the liveness property rests
  on the run goroutine returning once Accept fails. A Serve that took that
  error as temporary and retried (mutant `AcceptRetrying`) would never
  return.
- `server_close_leak` (finding): `Close` can run before `s.srv` is
  published, whether `net.Listen` has run yet or not (TLC's trace has it
  before). It returns nil, and the server then serves forever.
- `registry_status_resurrection` (spec gap): after a document expires and
  is registered again with the same bytes, its old status entries are shown
  again.
- `controller_clean_update`: emptying the whole directory makes a clean
  Update repair whatever failed removals left behind (mutant
  `ClearFetchedProducts`). A clean Update also loads every listed document
  that is the only one of its product, because the reload comes after the
  last write (mutant `ReloadBeforeWrites`). The four-step Update
  implements the atomic one. A fetch error taken as an empty list would
  start an Update the abstract spec does not allow (mutant
  `FetchIgnoringError`). Under the sweep's weak fairness every stale
  registry entry eventually leaves the store; a sweep loop that stops
  after one pass would not (mutant `SweepRemoveLastPass`).
- `controller_product_collision` (finding): files are named by product, so
  two listed documents of one product lose one set of alerts.
- `docread_pipeline`: for label values without references and keys that do
  not shadow each other, every iteration order gives the result of the
  reference substitution `Interpolated`, with overrides winning (mutant
  `MergedDocumentWins`). The v0 thresholds honour lt, lte, eq, neq, gte,
  gt in that order (mutant `v0thresholdGteFirst`).
- `docread_key_order` (finding): with keys `k1` and `k1_rest`, the text
  `$k1_rest` gets one value or the other depending on Go's map order.
- `docread_nil_labels_panic` (finding): `OverrideMetadata` with a document
  that has no `metadata.labels` panics. Every v0 document is such a
  document. The same run's property is also broken by an override key that
  is not a valid regexp (`k3`): `MustCompile` panics on it.
- `admission_defaulting`: whatever the client sends, every alert and
  presentation field of a stored object is defaulted (mutant
  `getPresentationPatchesNoChartType`). No value the client set is
  overwritten by an "add" (mutant `getAlertPatchesEither`).
- `admission_layout_empty_sections` (finding): a document sent with
  `layout: {sections: []}` is stored with no section, because
  `getLayoutPatches` defaults only a layout `DeepEqual` to the zero one.
- `alert_rule_identity`: the `level` label keeps the rules of one
  indicator's thresholds apart (mutant `ruleFromNoLevel`).
- `alert_rule_level_override` (finding): a metadata label `level` or
  `version` overwrites the rule's own label. A warning rule and a critical
  rule then collapse into one Prometheus alert.

**Observed while modelling, not kept as runs.**
- The label value is a `ReplaceAll` template, so `$x` inside a value
  expands to nothing. `Expand` models this, and
  `InterpolationMatchesReference` therefore assumes values without
  references.
- `getPresentationPatches` patches `currentValue`, `frequency` and
  `labels` whenever they hold their zero value. That zero value is also
  the default, so an already-defaulted object is patched again on every
  UPDATE. server_test.go's "does not patch in noop case" avoids this only
  because it uses non-default values.

## 4. Proofs

All proofs are checked with `tlapm`. They hold for every value of the
constants.

- `AdmissionServer_proofs`:
  - `TypeCorrect` (`Spec => []TypeOK`) uses lemma `TypeStep`.
  - `ShutdownSafety` (`Spec => []NoServingAfterShutdown`). The invariant is
    not inductive by itself. A `Listen` step opens a socket, and without
    more information that socket could be tracked after shutdown. The
    inductive invariant `IInv` adds `tracked => runPC = "serving"`, together
    with `TypeOK`.
  - The assumption is `ServerAssumption` (`Nobody` is not a Close caller).
- `Registry_proofs`:
  - `RegTypeCorrect` uses lemma `RegTypeStep`. It relies on
    `RegistryAssumption` (TTL and MaxTime are naturals).
- `AlertController_proofs`:
  - `CleanUpdateDropsUnlistedRulesTheorem` proves
    `Spec => []CleanUpdateDropsUnlistedRules`.
  - The property is not inductive by itself, because `Reload` copies the
    directory. The inductive invariant `CtlInv` adds
    `CleanWriteHoldsFetched`: while writing with no failed I/O, every file
    holds a fetched document. It also includes `TypeOK`, for
    `toWrite \subseteq fetched` and the shape of `files`.
  - TLC checked `CtlInv` as an invariant on the controller instance before
    it was proved (lemmas `CtlInit` and `CtlStep`, one step per action).
  - The assumptions are `RegistryAssumption` and `ControllerAssumption`.
  - `CleanUpdateLoadsSoleDocumentsTheorem` proves
    `Spec => []CleanUpdateLoadsSoleDocuments`. Its inductive invariant
    `SoleInv` adds two facts to `CtlInv`:
    - `ClearingWritesAll`: the clear phase has written nothing yet.
    - `CleanWritesKeepSole`: while writing with no failed I/O, each
      document already written that is the only one of its product still
      has its file.
  - The `WriteDocument` step of that proof is the argument. A write
    changes only its own product's file, and a document that is the only
    one of its product shares that file with no other write. TLC checked
    `SoleInv` before it was proved.
  - `ControllerRefinesAbstract` proves `Spec => ControllerRefinement`, the
    whole abstract specification. The abstract spec has no fairness, so
    nothing of it is left to TLC. The proof has three parts.
    - `Init` maps to the abstract `Init`.
    - The inductive invariant `RefInv` adds two facts to `SoleInv`:
      - `FilesOfTheirProduct`: a file holds a document of its product.
      - `CleanWriteState`: while writing with no failed I/O, every file
        holds a document already written in this Update, and every
        product of such a document has a file.

      With `toWrite = {}`, these facts are exactly what lemma
      `CleanReloadPublishes` needs: the directory a clean reload sends is
      in `CleanDirectories(fetched)`. TLC checked `RefInv` on the
      controller instance before it was proved (lemmas `RefInit` and
      `RefStep`).
    - Lemma `RefMapStep` maps each step:
      - a registry step maps to `RegistryChanges`, using `RegTypeStep` for
        `registered \subseteq Ids`;
      - `Fetch` maps to `Snapshot`;
      - a failed clear or write maps to `IOFails`;
      - a successful clear or write is a stutter;
      - `Reload` maps to `Publish`.
- `DocumentRead_proofs`:
  - Lemmas about the conversion operators:
    - `MinOfNat`: the least element of a set of naturals.
    - `FirstPresent` and `NonePresent`: the keyword `HonouredKeyword`
      picks.
    - `ThresholdPrecedence`: whenever the switch of
      `v0thresholdFromYAML` does not fail, it equals the spec's
      `SpecThreshold`. This is a case split on the first keyword set.
  - `V0ThresholdsFollowPrecedenceTheorem` proves
    `Spec => []V0ThresholdsFollowPrecedence`. The inductive invariant is
    `ThresholdsKept`:
    - the bytes keep their fields, apiVersion and thresholds;
    - a v0 document returned holds the switch's conversion of each
      threshold, none of which failed.
    With `ThresholdPrecedence`, that gives the spec's thresholds.
  - TLC checked the inductive invariant on the docread_pipeline
    instance. The assumption is `DocumentsAssumption`.
  - The absent keyword is the named value `Unset` rather than a literal
    `""`. The SMT backend of tlapm 1.4.5 fails on the empty string
    literal, and as an unexpanded name it is an opaque constant the
    provers only compare.

**Left to TLC only.**
- Liveness: `ShutdownStopsServer` and `StaleEventuallyRemoved`. TLAPS does not handle fairness
  and ENABLED here.
- `InterpolationMatchesReference`, `StoredObjectsDefaulted`,
  `DefaultingKeepsUserValues` and `RuleIdentitiesDistinct`. They are about
  what a recursive function or a fold computes for every input:
  `ReplaceKey` and `Interpolated` through `FlattenSeq`, `ApplyPatch`, and
  `AlertDocumentFrom` through `FlattenSeq`. Such a proof is an induction
  over the data, and the library's induction and recursion theorems take
  an operator parameter that the installed provers cannot instantiate.
  The threshold property of `DocumentRead` is proved because it never
  unfolds those definitions.
- That `Merged` (the override loop) is the reference merge
  `overrides @@ labels`. The `@@` of the TLC module has no definition the
  provers can expand.

## 5. Not modelled, and why

- Dashboards, docs and the generated code are pure format translation with
  no state.
- The agent's `main` only wires flags and TLS. Its periodic registration is
  `Register`.
- `startMetricsEndpoint` calls `lis.Addr()` on a nil listener after a
  failed Listen. This is listed as a hazard; it is straight-line code with
  nothing to explore.
- TLS setup errors of `ServeTLS` are not modelled.
- In `unmarshal.go`:
  - `PatchFromYAML`, `ProductFromYAML`, `MetadataFromYAML` and
    `KindFromYAML` are plain YAML field reads.
  - `getLayout`, `v0presentationFromYAML` and `v0alertFromYAML` copy
    fields.
  - `ProcessDocument` calls `ApplyPatches`, `Interpolate` and `Validate`,
    whose code is not under `src/`.
- `AlertDocumentFilename` is not called by the controller.
- The controller's `convertDocument`, `convertIndicator` and
  `convertThreshold` copy fields.
- A Prometheus restart between `clearDirectory` and `writeDocuments` is an
  environment event, so no property states that window.
- Liveness of the controller would need I/O to eventually succeed. Nothing
  in the code makes a retry succeed, so that fairness is not assumed.

## 6. Plan

1. Registry readers of GET /v1/indicator-documents. Each reader merges the
   two stores at different instants. Add the agent as a fair process.
2. `DocumentRead`: the spec's patch `matches` and `apply` with skipped
   operations (ApplyPatches is spec-modelled).
3. The environment's Prometheus reload in `AlertController`.
