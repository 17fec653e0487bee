# A TLA+ verification development of Piteka

Piteka lets an agent propose an action (creating a GitHub deployment), has a
human approve exactly that action, executes it at most once, and keeps evidence
of what happened. Its correctness lies in the order in which concurrent
handlers touch a few stores, in what a crash between two store calls leaves
behind, and in what Piteka may conclude from a provider that answers late,
twice, or never. This directory models those parts in TLA+, checks them with
TLC and proves what is safe about them with TLAPS.

- [The system](#the-system)
- [Plan](#plan)
- [The modules](#the-modules)
- [What the runs show](#what-the-runs-show)
- [What is proved](#what-is-proved)
- [Where code and documents differ](#where-code-and-documents-differ)
- [What is not modelled](#what-is-not-modelled)

Run `tlc -config MCDispatch_disciplined.cfg MCDispatch` for one of the runs
`PROJECT.json` lists, and `tlapm DispatchProofs.tla` for the proofs. "map" in
`PROJECT.json` gives, for each definition, the lines it translates.

## The system

Paths are below `src/`; `app` stands for `crates/piteka-application/src`,
`storage` for `crates/piteka-storage/src`.

| Component | State it keeps | Operations | What makes it correct |
|---|---|---|---|
| Action requests and their API (`app/action_request.rs`, `apps/piteka-api/src/{routes,handlers,models,error}.rs`) | request: status, version, intent; one decision row; audit | propose, approve, reject, revoke, get | a request is decided once; the decision on record is the one the status came from, and is immutable; a client is told what is so |
| Dispatch (`app/dispatch.rs`) | mandate projection: state, version; one execution attempt; audit | reserve, complete_dispatch, reserve_and_dispatch | at most one provider call per mandate; journalled before it is made; no simulated success; one concurrent winner |
| Reconciliation (`app/reconciliation.rs`), run by the worker (`apps/piteka-worker`) | the same stores, and receipts | reconcile, abandon_unresolved | a quarantined mandate is resolved once, by a deployment that exists or by an Unknown receipt that stays the last word |
| Webhook ingestion (`app/webhook_ingestion.rs`, `apps/piteka-api/src/webhook.rs`) | webhook receipts; in memory, the newest event per deployment | ingest, dispatch | a delivery is processed once; stale events are flagged; no terminal event vanishes in silence |
| Receipt production (`app/receipt_production.rs`) | evidence nodes, receipt projections | process, produce_receipt_from_webhook | a receipt refers to nodes in the store, says what GitHub said, and never changes |
| Storage adapters (`storage/memory.rs`, `storage/postgres.rs`) | the tables | insert, put, get, compare_and_swap, update, append | a call answers as if it took effect at one moment |
| Evidence blobs (`storage/evidence.rs`) | files named by their digest | put, get | a file that is not whole has a writer, or had one that failed; that a final name is never half a file is claimed and not so |
| Bundle export (`app/bundle_export.rs`) | bundles among the protocol objects | assemble_bundle | a bundle has all of its evidence |
| Evidence feed (`src/bin/evidence_feed_server.rs`) | none: rebuilt from the receipts per pull | serve_feed, build_exports | a number goes on naming the receipt it was handed out for; a reader that pages through misses nothing |
| Observation and Tuppira client (`app/observation.rs`, `crates/piteka-tuppira`) | none | query, lineage, source_health | what is missing becomes a gap: nothing incomplete looks complete |
| Seal anchor (`crates/piteka-infra/src/anchor.rs`) | seals: commitment, nullifier, in memory | create_seal, consume_seal | a seal is consumed once, a retry is idempotent |
| Sessions and authorization (`app/session.rs`, `app/authz.rs`, `crates/piteka-auth`, `crates/piteka-domain`) | the directory; sessions carry their own claims; audit | issue, authenticate, evaluate, authorize | no grant outlives its session or its membership; production needs a recent session; answers are audited |
| MCP tools (`app/mcp.rs`, `apps/piteka-mcp`) | none of their own | the six tools | what is deployed was approved; a refused call did nothing |
| GitHub adapter, intent normalization (`crates/piteka-github`, `crates/piteka-ports/src/github.rs`) | an App key by reference | normalize, create_deployment | what it reports created is there and is this attempt's; gates are the administrators' |
| Parwana verification | none | verify | external verifier over pure data |
| Controlled demo, web UI | none | | callers of the above |

**How they interact.** The request's status is what `reserve` reads before it
swaps the mandate. Dispatch and reconciliation share the mandate projection and
the attempt; each finds its place by the version its caller presents. GitHub
knows the attempt by its idempotency key, and reports its progress by webhooks
that carry the deployment id. That id reaches the attempt through
`complete_dispatch` or `reconcile`, and only then does receipt production find
it. The receipts and their nodes are what bundles are assembled from and what
the feed publishes; a connector pulls the feed, and observation queries read
back what it indexed. An agent reaches all of this through the MCP tools, whose
intent is recomputed from the tenant's configuration before anything is done.

**What is hard.** Every store call is an `await`: between any two of them
another handler may run, the process may stop, or the call may fail, and a
handler that fails does not undo what it did. Versions are presented by
callers, not read from the row that was checked. GitHub may accept a request
whose sender has given up, deliver a webhook late, twice, out of order, or
before the deployment id is on record. Nothing retries. `PROJECT.json` lists
the hazards at the lines where they bite.

## Plan

Done, in this order:

1. `MandateLifecycle`: what dispatch and reconciliation promise.
2. `Dispatch`: both use cases, store call by store call, with failures and a
   provider that answers late or never. Implements 1.
3. `RequestLifecycle`, `ActionRequests`: approvals, and that they implement
   their life cycle (which is the approver `Dispatch` assumes); `RequestApi`:
   the HTTP endpoints over it and the clients that retry.
4. `WebhookReceipts`: deduplication, ordering and receipts.
5. `BundleExport`: bundles over the blob store's files.
6. `EvidenceFeed` and, composed with it, `Observation`.
7. `AtomicStore`, `PgStore` (which implements it), `SealAnchor` (over it).
8. `Sessions`: issue, authentication, re-authentication, audit.
9. `OrderedChecks`, `IntentNormalizer`, `GitHubAdapter` and, composed of them,
    `AgentTools`.

Each module is followed by its theorems: `DispatchProofs`, `RequestApiProofs`
(which covers `ActionRequests` too), `WebhookReceiptsProofs`,
`BundleExportProofs`, `ObservationProofs` (which covers `EvidenceFeed`),
`SealAnchorProofs` (with `PgStore`), `SessionsProofs` and `AgentToolsProofs`. Of
what the passing runs check, only liveness is without a theorem.

## The modules

### Dispatch (with MandateLifecycle)

| State | Code |
|---|---|
| `request` | `status` of the action request that `reserve` reads |
| `mstate`, `version` | `state` and `version` of the mandate projection |
| `attempt`, `recorded` | `state` and `github_deployment_id` of attempt `att-<mandate>`; the identifier is derived from the mandate, so a mandate has at most one |
| `receipts`, `audit` | the Unknown receipts and the audit events written |
| `inflight`, `deployed` | GitHub: requests on their way, deployments created |
| `calls`, `dispatched`, `failed` | history: provider calls per mandate, requests under which one was made, mandates a call on which failed |
| `pc`, `job`, `reply` | a dispatcher's next await point, arguments and GitHub's answer |
| `opc`, `ojob`, `seen`, `found` | the same of an operator in `reconcile` or `abandon_unresolved` |

`CheckRequest`, `ReserveCas`, `InsertAttempt`, `MarkDispatching` and
`AuditReserve` are `reserve`; `CheckReplay` and `AuditReplay` its conflict
branch; `CallProvider` and the two `Receive` actions the provider call, which
ends with an identifier or with nothing, or never ends; the others up to `AuditCompletion` are the two arms of `complete_dispatch`.
`CheckQuarantined` to `AuditResolution` are the reconciliation use case.
`DispatcherFails` and `OperatorFails` are every `?` and every crash: the call
ends where it is. The version is an argument, as in the code; `CONSTANTS`
`ReserveVersions` and `OperatorVersions` say which values callers present. The
callers in the repository present 1 when reserving and 3 when reconciling
(`Disciplined`); other values are what the interface allows. The environment
decides a request once, which `ActionRequests` shows of disciplined approvers.

`MandateLifecycle` forgets stores, callers and versions. The refinement maps a
mandate to `called` when its `calls` is positive and to `effected` when GitHub
has a deployment for it.

### ActionRequests (with RequestLifecycle)

`CheckStatus` is the read and the status guard; `SwapStatus` the
compare-and-swap at the caller's version; `InsertDecision` and `Audit` what
follows; `Fails` every `?` and crash. The decision row is `dec-<request>`, so a
second one is an error after the swap has been made. `Propose` is the handler
and its use case: a new request for every POST, also for a retried one.

### RequestApi

Extends `ActionRequests` with the routes around it. A key stands for one thing a
client wants done; the client posts its body up to `MaxPosts` times, also while
an earlier post is being handled, because its answer was lost or late. `stage`
is what a handler does around the use case: check the body, run it, read the
request again for the answer, read its decisions. `StatusCode` is
`ApiError::from` and the mapping to HTTP. `answers`, `effects` and `changed` are
history. The routes of `routes.rs` are the ones mounted; `handlers.rs` has the
same bodies and is mounted nowhere.

### WebhookReceipts

`event` is what GitHub reports under each delivery identifier, chosen once by
`Emit`; that a delivery can be made again at any time is the fact that
`Receive` may pick it as long as it is not recorded (and picks it in two
handlers at once). `linked` are deployments whose id is on their attempt.
`Receive` to `AuditIngest` are `ingest`; `Process` to `Conclude` are the
processor. Nodes are identified by attempt and reported state or outcome, never
by delivery, so a second delivery of the same state fails on the first insert.
`Interrupted` ends one handler at any of its steps: a store call failed, or the
request was given up and its future dropped. `Restart` empties the tracker and
drops every handler.

### BundleExport

`nodes` grows as ingestion and dispatch record evidence. An exporter is a
thread in `assemble_bundle`: `Assemble` fetches the nodes, `NextFile` to
`Rename` put the blobs, `PutBundle` stores the bundle, and the same file steps
write the descriptors. The file system is what `atomic_write` sees of it:
`entry` and `temp` map names to inodes and `content` says what an inode holds. A
temporary name carries the process id, so the threads of a process share it and
one truncates, writes or renames what another has open. `std::fs::write` opens
and truncates (`Open`) before it writes (`Write`), so a file renamed in between
by a second thread is seen empty under its final name, and `put` takes it for the
blob. `Fail` is an error of any of these calls, of the rename too, and `Crash` the
end of a process; both leave the files as they are, and `broken` remembers the
inodes nobody will complete.

### EvidenceFeed and Observation

A pull rebuilds everything: `BuildExports` numbers the entries that assemble by
their place in the order of time and digest, `EmittedAt` is the emission clock in
closed form, `Selected` the page after the connector's cursor. The entries are all
receipts, or those of `PITEKA_FEED_RECEIPTS`, a list that is sorted but not
deduplicated: an entry is an occurrence of a receipt in it, and a receipt that is
named twice gets two numbers. `InsertReceipt` may insert a time that has passed
(two producers read the clock and insert in the other order), and a pull may skip
an entry for the moment. `late` and `faulty` remember which receipts.

The connector is external and modelled from the cursor the server serves it and
from the health it reports. A run pulls a page and indexes it (`Pull`), and is
complete only when it has moved the cursor (`CompleteRun`); it may fail before
(`PullFails`) or after (`RunFails`) it has indexed. So a row can be seen
whose source has not completed a run. `Observation` queries what was indexed:
`Ask`, `ReadLineage` and `ReadHealth` are the steps of `query`, with the connector
and retractions running in between and every ending the client knows. The
lineage may be any subset of what the tenant may see: the code checks that it is
not empty (`observation.rs:132`), not that the observation asked about is in it.

### AtomicStore, PgStore and SealAnchor

`AtomicStore` is the ports' promise: a call takes effect at one moment between
its start and its answer. In `PgStore` a statement is a step. An insert or an
update that changed no row is followed by a second statement that finds out why,
and a call can fail before or after each. `SealAnchor` uses it for mandates: a
caller told that its swap was applied holds a token with which it consumes the
mandate's seal, again if the answer was lost. The seals are in memory and
`Restart` forgets them.

### Sessions

`now` is the wall clock, which ends at `MaxU64` and may be set back; `ticks`
counts what really passed. `Issue` signs claims; a client presents a session it
was given, or its signature on claims with another role or expiry
(`Authenticate`), which is accepted when the signed bytes do not tell the two
apart. `Evaluate` is the policy, `Respond` and `RespondFails` the boundary's
audit append and answer. `Restart` configures the authority with another
organization, directory or key and forgets who was authenticated.

### IntentNormalizer, GitHubAdapter and AgentTools

`OrderedChecks` is how the code validates: the first failing check gives the
error. `IntentNormalizer` has the checks of `normalize` in their order and the
intent it builds; digests are injective, so a digest is what it is taken of.
`GitHubAdapter` is `create_deployment` with a step per await, over a GitHub
whose keys are rotated and whose repository names change hands. `AgentTools`
composes them: an agent's call is bounded and parsed, its intent recomputed from
the tenant's configuration, and handed to the backend, the part outside the
repository (marked external), which executes by calling the adapter.
Configurations change between any two steps.

## What the runs show

Passing runs, with their distinct states:

| Run | Question | Bounds | States |
|---|---|---|---|
| `dispatch_disciplined` | Do the handlers implement the life cycle, with failures anywhere, does every reservation settle on which no call failed and whose provider call returned, and is nothing credited with a deployment GitHub did not make? | 1 mandate, 2 dispatchers, 2 operators, versions {1} and {3}, fairness | 93 k |
| `dispatch_anyversion` | What survives callers that present any version? | the same, versions {1,2,3} and {3,4} | 1.1 M |
| `api` | Is a request decided once, its decision on record, and the client told so, when clients post again and calls fail? | 2 requests, 2 intents, 2 handlers, 3 keys, 2 posts each, versions {1} and {2} | 1.9 M |
| `webhooks_order` | Is a delivery processed once, flagged exactly when stale, evidenced, and never lost in silence? | 3 deliveries, 1 deployment, 3 states, interruptions, restarts | 2.0 M |
| `webhooks_final` | Is the receipt final, and is there one? | 3 deliveries, 1 deployment, 2 handlers, fairness | 162 k |
| `sessions` | Can a session be used that was changed, has expired, or whose subject was moved or demoted? | 1 user, 2 organizations, 2 keys, clock up to 3, 1 restart, 1 set-back | 1.4 M |
| `tools` | Is what is deployed what was approved, and did a refused call do nothing? | 2 agents of 2 tenants, 2 calls, 1 change, 4 configurations, 3 targets | 448 k |
| `bundles` | Does a bundle have its evidence, whatever becomes of the files' writers? | 2 threads of 1 process, 2 receipts, one with a gap, 4 inodes, failures, crashes | 614 k |
| `feed` | Are numbers stable, is every export pulled, and is a complete answer backed? | 3 receipts, one with a gap, 2 times, no allow-list or one that names a receipt twice, page sizes 0 to 3, 1 transient fault, 1 querier, fairness | 304 k |
| `singleuse` | Does the Postgres store answer as an atomic one, and is a seal consumed once? | 1 mandate, 1 object, 2 callers, 2 contents, 2 commitments, 1 restart | 400 k |

The history variable `failed` of `Dispatch` and `ActionRequests` collects the
mandates and requests a call on which has failed. `SettledIsJournaled`,
`ReservedSettles` and `DecidedIsOnRecord` exempt them, because no code repairs
what a failed call leaves: a reserved mandate no job can reconcile, a status
without its decision. `forgotten` and `dropped` of `WebhookReceipts`, `broken`
of `BundleExport` and `late` and `faulty` of `EvidenceFeed` are the same: each
names the only thing that excuses an exception, so that any other is an error.

**Why the bounds are enough.** Mandates share nothing but the provider's
identifiers and the request, so one mandate shows every race and two show every
confusion of attempts. Two callers make every race of two steps; a third adds
nothing to a swap that one wins, except in approvals, where approve, reject and
revoke are three different calls. The versions of `anyversion` are those the
mandate goes through until its second reservation has failed on the attempt
insert; a version that is never current is a lost swap, which 3 and 4 are
already while the mandate is at 1. In `webhooks_final` the third delivery is
the one that meets the nodes two others have left. Times go to two because only
their order is compared. In `api` two keys race on one request while the third
makes or reads another, two posts are a call and its retry, and two intents are
the request's and another. In `sessions`
the clock has a second for the issue, one inside the window, one outside it and
the last one; a second client would share nothing with the first but the audit
log. In `tools` two calls are a request and an execution, or two executions
that race through the adapter, and mandates issued earlier make an execution
possible without the request. In `bundles` two threads are what shares a
temporary name; a thread holds one file open and leaves one behind, so four
inodes never run out before the interesting case. In `feed` three receipts put
one before, one at and one behind a cursor, and an allow-list that names one twice
is the shortest that numbers a receipt twice. In `singleuse` the mandate is
swapped twice, which gives two tokens for one seal. `MaxPosts`, `MaxIssued`,
`MaxRestarts`, `MaxSetBacks`, `MaxCalls`, `MaxRequests`, `MaxChanges`,
`MaxAttempts`, `MaxInode`, `MaxFaulty` and `MaxVersion` bound what would
otherwise grow.

**Fairness.** A handler that was called is polled to its end (weak fairness of
`DispatcherStep`, `OperatorStep`, `CallerStep`, `HandlerStep`): the async
runtime drives every future. Nobody has to call a handler, approve a request or
restart anything, and GitHub need not accept, answer or deliver. In particular
nothing makes a provider call return: the client in
`crates/piteka-github/src/lib.rs:394` is `reqwest::Client::new()`, which has no
timeout, and its callers await it bare. The steps that wait for GitHub
(`await`, and an operator's `query`) are therefore outside of `Fairness`, and
`ReservedSettles` says that a reserved mandate settles, or its provider call never
returns (`Awaiting`), or a call on it failed: whatever is between the
reservation and the call, and between the answer and the settlement, may not
leave it reserved. `LinkedEndIsReceipted` is checked without interruptions: a
request that its client gives up may be dropped at any await.

`EveryExportIsPulled` rests on the connector, which is not in the repository: it
keeps polling and some poll is answered (weak fairness of `Pull`), and although
single runs fail after they have indexed, not all do for ever (strong fairness of
`CompleteRun`).

**Deadlock** is checked in `feed`, `bundles` and `singleuse`, where something can
always happen, and not in the others: requests may be rejected, GitHub may have
made its last delivery, clients may have made their last call and every mandate
may be spent, after which nothing has to happen.

**Runs that are violated** are listed below with what they contradict.

## What is proved

Every safety invariant and every action property that a passing run checks is
also a theorem, for every value of the constants that meets the assumptions:
any number of callers, mandates, requests, deliveries, threads and clients, any
bounds. `IInv`, `VInv`, `DInv`, `ApiInv`, `WInv`, `OInv`, `SInv` and `ToolsInv`, the
inductive invariants, stand in the models' modules, so that they can be added to a
cfg; TLC agreed with them before they were proved.

**`DispatchProofs`**, from `ConstantsAssumption`. Whatever versions callers
present and whatever fails (`IInv`):

- `OneProviderCall`, `DurableJournal`, `SpentWasSent`,
  `NoSuccessWithoutDeployment`, `OnlyApprovedDispatched`, `TypeCorrect`.

The argument for one provider call cannot be the compare-and-swap: it looks at
the version only, and with a guessed version a mandate is reserved that was
reserved before (the violated run `dispatch_resurrected`).
What stops the second is the insert of the attempt, whose identifier is made
from the mandate's. So the invariant follows the attempt: a dispatcher between
its insert and its call is alone there (`SoleCaller`), nothing was sent yet and
the journal is as far as its step (`BeforeCall`); a dispatcher past its call,
and every operator, works on a mandate whose call was made (`AfterCall`); an
identifier on its way to the attempt names a deployment of the attempt
(`IdsAreReal`); and a request a dispatcher acts for was approved
(`AskedWhileApproved`), for revoking is the only thing that happens to an
approved request.

With callers that present the versions the repository's callers do
(`Disciplined`, a hypothesis of these theorems):

- `OneWinner`, `QuarantineCanBeLeft`, `UnknownIsTheLastWord`,
  `SettledIsOnRecord`, `SpentIsNotReopened`;
- `ImplementsLifecycle`: every step of the handlers is a step of
  `MandateLifecycle` or a stutter.

Here the version column tells the state (`VersionTellsState`), so that a swap is
won once and its winner holds the mandate alone. The invariant (`VInv`) says what
the holder finds at each of its steps (`HolderKnows`), what the attempt, its id
and the receipt are where nobody holds the mandate (`AttemptFollowsMandate`), and
that an operator works on a mandate that has left the dispatchers' hands through
quarantine (`OperatorKnows`). `SettledIsOnRecord` needs `JournalIsOnItsWay`: of a
mandate no call on which failed, what is not yet in the journal is in the hands of
somebody who will write it. With the versions of `dispatch_anyversion` TLC finds
`OneConcurrentWinner`, `UnknownReceiptIsFinal`, `SettledIsJournaled` and
`SpentStaysSpent` violated.

**`RequestApiProofs`**, from `VersionsAssumption`, `DecisionAssumption` and
`BodyAssumption`. Whatever versions are presented and whatever fails:

- `DecisionNeverChanges` and `AuditNeverContradicts` (`AuditInv`): callers that
  guess versions can decide a status twice, but not the decision on record.
- `ApiImplementsUseCase`: a step of the handlers is a step of `ActionRequests` or
  leaves its stores alone, so that what holds of the use case holds behind the
  endpoints.
- `ClientErrorsDidNothing`, `OneEffectPerKey`, `ToldIsTrue` (`ApiInv`). Neither
  the key, which is ignored, nor the status guard makes a repeated post
  harmless, but the version: it only grows, and a key that took effect has spent
  the one in its body (`KeyIsSpent`). Two clients that both succeed in
  approving are excluded by the decision row: the decision on record is
  that of the one key that was, or will be, told so (`CreditIsDue`).

With `Disciplined` callers, that present 1 to decide and 2 to revoke: the version
determines the status up to the verdict, the one caller that swapped is the one
that records the decision (`SoleDecider`), and it finds none there (`DInv`).
`StatusOfTheDecision`, `ImplementsLifecycle` (of `RequestLifecycle`) and
`DecisionsAreOnRecord` (with `RecordIsOnItsWay`, the counterpart of
`JournalIsOnItsWay`) follow, and `ApiKeepsTheRecord` carries them through
`ApiImplementsUseCase` to the HTTP handlers.

**`WebhookReceiptsProofs`**, from `ConstantsAssumption`, across restarts,
concurrent redeliveries and failures: `DeliveryProcessedOnce`,
`ReceiptsAreEvidenced`, `StaleIsFlagged`, `NoSilentLoss` and
`ReceiptsAreAppendOnly`. In `WInv` a delivery has at most one owner, whoever
inserted its row (`DeliveryIsOwned`); a handler at each step of producing a
receipt has the nodes behind it stored (`HandlerKnows`); the tracker lags behind
the newest event only for what a restart made it forget (`TrackerIsRight`); a
delivery is judged once (`JudgedOnce`); and a recorded terminal delivery is
concluded on record or in its owner's hands (`LossIsTold`).

**`BundleExportProofs`**, from `BundleAssumption`, for any threads of any
processes. `BundlesAreBacked`: nodes and files stay (`NodesStay`, `FilesStay`), so
what an exporter has found stays found; `BInv` says of every exporter that its
receipt was fetched whole, that the blobs before its position are stored, and
that it puts the bundle when no position is left. `PartialFilesHaveWriters`:
threads of a process share a temporary name, so that any of them may rename what
another still writes. It therefore does not suffice to follow the files with a
name of their own: the invariant (`NamedIsAccounted`) accounts for temporary ones
too, by a writer that has the inode open or by `broken`. It says who may leave
half a file, not that there is none: the violated run `bundles_atomic` shows one.

**`ObservationProofs`**, from `FeedAssumption` and `ObservationAssumption`, for any
finite set of receipts and any allow-lists of them, with any repetitions.
`HandedOutStaysStable`: what was handed out is what a pull
would hand out now, unless a receipt inserted late or skipped stands before it
(`HandedOutIsCurrent`). A new receipt that is not late comes behind
everything stored, which leaves the place and the emission time of what precedes
it as they are; the lemmas on `Precedes`, `Place` and `EmittedAt` say so of
any list of entries. `CompleteResultsAreBacked`: a query that has read its lineage
holds rows of the feed's tenant, which stay indexed and which it saw unretracted if
they say so (`QueryKnows`); that their source has completed a run is not known
then, and only the health read in the second step can tell. `TypeCorrect` is the
full type invariant: a sequence number is one the entries of a list have, and an
emission time is never below 1.

**`SealAnchorProofs`**, from `PgAssumption`, `NoneAssumption`, `SealAssumption` and
`NoSealAssumption`:

- `PgStoreIsAtomic`: the two-statement calls implement `AtomicStore`. The moment
  of a lost swap is its second statement; that it would lose there too needs
  `Pending`: the version presented was one the row had reached, and versions
  only grow.
- `SealsAreSingleUse`: `Told` ties what callers hold to the seals of the current
  run, and what they hold of earlier runs does not change any more.

**`SessionsProofs`**, from `SessionsAssumption`, for any clock, set-backs, restarts
and reconfigurations: `AnswersAreAudited`, `NobodyForgesASession`,
`GrantsAreOfTheDirectory`, `ProductionGrantsAreRecent`, `OnlyTheEndOfTimePanics`,
`TypeCorrect`. In `SInv` the wall clock has advanced since an issue by what really
passed unless it was set back (`ClockAgrees`), the directory in force is of one
organization with one identity per user (`DirectoryIsWellFormed`), what a client
holds was signed and is of a member (`HeldIsIssued`), and a grant on its
way to the caller is one the directory supports (`GrantIsSupported`).

**`AgentToolsProofs`**, from the assumptions of `AgentTools` and the modules it
composes, for any agents, tenants, configurations and targets:
`DeploymentsAreApproved`, `RefusalsDidNothing`, `ReportsAreTrue` and
`GatesAreAdministered`. The first error of ordered checks is one of their
errors, and checks that pass hold one by one; from these lemmas follows what a
normalized intent and an accepted request are. `ToolsInv` then follows a call: the
intent it reaches the backend with is that of its own arguments, gated as the
tenant's administrators have set (`CallIsChecked`); a dispatch under way has a
mandate spent on it (`DispatchIsApproved`), no two dispatches share a digest, and
nothing exists for one that was not sent (`DigestsAreFresh`); the deployment an
answer reports is there (`AnswerIsThere`). A name that changed hands is the only
way to another repository (`SurroundingsAgree`).

**What is assumed of the constants.** That the values standing for "nothing"
(`NoDeployment`, `NoDecision`, `NoBody`, `NoReceipt`, `None`) are none of the values
they stand beside, as `Option` has it; that bounds and versions are natural
numbers, and there is room for at least one inode and one time; that
`Receipts` is finite, as a table is; that `Earlier` gives each earlier mandate a
tenant and a target. The runs evaluate all of it.

**Only model-checked** is liveness under fairness, which is out of the prover's
reach: `ReservedSettles`, `LinkedEndIsReceipted` and `EveryExportIsPulled`. That
every retry ends and every handler is polled to its end is thus shown for the
bounds of the runs only. The two violated runs are counterexamples, which need
no proof.

## Where code and documents differ

Each is a run that TLC finds violated; `PROJECT.json` quotes the lines.

| Run | The document | The code |
|---|---|---|
| `dispatch_resurrected` | a spent mandate cannot be dispatched again | `reserve` swaps it to reserved for a caller that presents its version (the attempt then stops the call, but the mandate stays reserved) |
| `bundles_atomic` | evidence blobs are written atomically, through a temporary file of a unique name (`evidence.rs:4`, `:51`) | the name is unique per process only (58): a second thread that puts the same bytes empties the file the first renames into place, and a half-written file stays if the second fails, since `put` (70) takes it for the blob |

More were met while modelling. The models contain them, but no run is spent on
each; where a property needs an exception because of one, the exception is named:

- `dispatch.rs:24`: the mandate is quarantined the moment the provider call
  completes. A failure in `complete_dispatch` leaves it reserved, out of reach
  of reconciliation: `ReservedSettles` is false without its last disjunct.
- `reconciliation.rs:399`: the recovered id is persisted "so webhook correlation
  is durable". The swap comes first (392); a failure after it loses the id for
  good, and `SettledIsJournaled` exempts `failed`.
- `model.rs:108`: Revoked is "approved but later revoked before dispatch".
  `revoke` does not look at the mandate, so that `DispatchedWasApproved` has to
  say `approved` or `revoked`.
- `action_request.rs:202`: only one approval wins. Two callers that both read
  Pending both win their swap if the second presents version 2 (`Lifecycle` is
  checked and proved for callers that present what they were shown).
- `action_request.rs:4`: every approval is bound to an intent digest. A failure
  after the swap leaves an approval without a decision: `DecidedIsOnRecord` is
  false without the exemption of `failed`.
- `models.rs:106`: the intent an approver names "must match the request's
  intent". `approve` (`action_request.rs:252`) stores it and compares it with
  nothing, so that `ToldIsOnRecord` speaks of the intent the decider named.
- `dispatch.rs:13`: a timeout of the provider is an ambiguous outcome that ends in
  quarantine. The client has none, and a call that never returns leaves the mandate
  reserved, where neither reconciliation nor abandonment finds it:
  `ReservedSettles` has `Awaiting` among its alternatives.
- `handlers.rs:106` and `piteka-api/src/lib.rs:22`: a second call with the same
  key returns the original result. The mounted handlers (`routes.rs`) read no key,
  so that `EffectOncePerKey` leaves proposals out.
- `webhook_ingestion.rs:16`: an event older than the newest already seen is
  flagged. The newest is forgotten on restart: `FlaggedWhenStale` is false
  without the exemption of `forgotten`.
- `evidence_feed_server.rs:144`: numbers are stable as receipts append at the
  end. A receipt inserted with an earlier time, or skipped once, shifts the
  numbers behind it, and one that the allow-list repeats has several:
  `HandedOutIsStable` exempts `late`, `faulty` and `Repeated`.
- `ports/github.rs:178`: the adapter addresses the repository by its name,
  having checked its identifier; a name that changed hands leads elsewhere, and
  `DeployedWasApproved` exempts `moved`.
- The seal map is in memory: a seal's single use does not survive a restart, and
  `OneProofPerSeal` speaks of one run.
- A lost Postgres swap at a version the mandate never had may be reported as a
  conflict with that very version: `Presentable` excludes it. Callers are limited
  to versions the row has had, and rows are never deleted, so that the branch for
  a row that is missing (`postgres.rs:194`) is never taken in the model.

## What is not modelled

- Parsing, webhook signatures, JWT signing, HTTP framing and headers: they
  answer before any state changes, or are I/O. The checks of the intent
  normalizer and of the tool arguments are modelled by the classes of input they
  tell apart.
- The receipt a webhook produces and the receipt an operator's abandonment
  inserts are in two modules. `UnknownReceiptIsFinal` shows that an abandoned
  attempt has no deployment id, so no webhook finds it.
- The gap node of an unknown outcome: `process` lets only terminal states
  through, and none maps to unknown.
- Identifiers are values that are equal or not; that two digests differ when
  their inputs do is assumed.
- Outside `PgStore` the stores are atomic per call, as the in-memory ones are
  under their lock and as `PgStoreIsAtomic` shows of the Postgres mandate and
  object stores. The other Postgres stores have the same two-statement swap or a
  single statement per call. Listings and audit queries change nothing and
  feed no decision.
- Parwana verification is a call into an external verifier over pure data; the
  web UI renders pages and keeps no state; the controlled demo calls what is
  modelled and prints.
