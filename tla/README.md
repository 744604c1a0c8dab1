# Formal models of crexxrag

TLA+ models of `crexxrag`: the work queue that hands paid provider calls to
independent worker processes, with its accounting and the decisions it rests on;
the capacity of a provider that all workers share; the controllers that keep
workers running; the publication of generations, of the manifest file and of
vector indexes; and the retained QA clients, which drive the MCP server and
accept rewritten queries. TLC checks the models on small instances; TLAPS proves
the main safety properties for every instance.

Paths below are relative to `src/crexx/application/` unless they start with
`src/` or `docs/`.

## 1. The system

One SQLite file per library is the only shared state. Workers, the controller
and operator commands are separate processes; each mutating procedure runs one
`BEGIN IMMEDIATE ... COMMIT` transaction, so transactions are serial, and
everything between two transactions interleaves. There are no other locks.

| Component | State | Operations | Hard behaviour | Correct when |
|---|---|---|---|---|
| Work queue (`ragwork`, `raglifecycle`) | `jobs`, `job_items`, `attempts`, `retry_requests`, claim fences and leases | claim with lease recovery, fail, skip, publish, cancel, pause, resume, retry | leases expire under live workers; crashes between transactions; checks outside transactions | one owner per item, ended attempts stay ended, job row agrees with items, cancellations complete |
| Receipts (`ragreceipts`) | `provider-intent` and `provider-response` events | begin, record, recover | intent without response; late response; answer reused by a later attempt | no blind repeat of a possibly paid call |
| Usage (`ragusage`, `ragadmission`, `ragallowance`) | reservation events, settlement receipts, `provider_runs`, counters of `jobs` | reserve, settle, recover accounting, close expired, hold uncertain, renew allowance | settlement after expiry or by another attempt | nothing leaks, every call is counted once |
| Provider binding (`ragapplicationprovider`, `src/crexx/providers`) | one call in memory | `process` | second receipt read; lost receipts | the call is inside its intent and its reservation |
| Provider capacity (`ragenvironment`) | `provider_admissions`, `provider_cooldowns` | look, admit, defer, release, recover, cool down | admissions expire by time under running calls; a look that is stale at the admission; a single recovery probe | never above the configured rate or concurrency; a cooldown keeps everyone away; every call gets its turn |
| Supervision (`ragprocess`, `ragsupervision`) | `runtime_instances`, replacement events | register, admit the group, heartbeat, drain, stop, reap, replace, erase a group, prune | processes die at any point, parents disappear, two commands start at once | one controller; claims of the dead are recovered; replacements are bounded and of the dead; an erased group is gone |
| Windows and backlog (`ragbacklog`, `ragmaintain`, `ragcontinuation`) | `maintenance_windows`, `maintenance_tasks`, decisions | tick, dispatch, decide, review, close, continue | deadlines and budgets that pass between check and use | tasks are dispatched once, a closed window starts nothing |
| Store and publication (`ragstore`, `ragschema`, `ragbackup`, `ragembedding`) | `published_generations`, manifest file, vector sidecars | stage, commit, roll back, publish and recover manifest, install and activate sidecars, back up | file writes after commits, competing publishers | readers see one consistent generation |
| QA clients and the MCP server (`docs/qa/*/*.py`, `surfaces/ragmcp`, `crexxrag_cli`) | pipes, a server process, saved answers, snapshots of the library | initialize, call, page, snapshot, compare, close, kill | lost, late or partial lines, a server that hangs, a library that changes between statements | an answer is never taken for another; a success means what it says; a session ends |
| Rewritten queries (`docs/qa/sql-performance-fixes-20260913/measure.py`, `ragretrieval`, `ragbacklog`, `ragrepository`) | a copy of a library, results of old and new SQL | copy, run, index, run again, compare | boundaries of phrases and cursors; others publish meanwhile | the new queries return what the old ones did |
| Ingestion, graph, reports, configuration, other surfaces | rows of a generation, documents, profiles | plans, validations, queries | sequential, or inside another component's transaction | data rules with unit tests |

The components call one another as follows. A plan (ingestion, improvement,
backlog) inserts a job and its queued items. The controller starts workers; a
worker polls `runworkeronce`, which claims an item, reads receipts, reserves
usage, asks provider capacity, calls the provider, settles, and publishes a new
generation, each in a transaction of its own. Operators change jobs
underneath. The controller observes an exited worker and recovers its claims.

## 2. The modules

| Module | Models | Status |
|---|---|---|
| `Lifecycle` | pure decisions of `raglifecycle`: job projection, retry disposition | done |
| `Admission` | `ragadmission`: ranks of a dimension, their combination, `aggregatefits` | done |
| `WorkQueue` | one job: items, attempts, leases, receipts, ledger, workers, reaping, operator commands | done |
| `ItemPromise` | abstract specification: what the queue promises of each item | done |
| `MCWorkQueue` | symmetry sets for TLC | done |
| `WorkQueueProofs` | the inductive invariant, four theorems of the specification, the refinement; five theorems about admission decisions | done |
| `WorkQueueHistoryProofs` | the job row, cancellation, what is never undone, repeated requests, accounting of what is published | done |
| `Publication` | generations, `manifest.json`, vector index rows and sidecar files; publishers and builders | done |
| `GenerationRegister` | abstract specification: what the store promises of published generations | done |
| `MCPublication` | symmetry sets for TLC | done |
| `PublicationProofs` | the inductive invariants, four theorems of the specification, the refinement | done |
| `ProviderCapacity` | `ragenvironment`: admissions, the sliding minute, cooldowns, the probe, over time | done |
| `MCProviderCapacity` | reservations for TLC | done |
| `ProviderCapacityProofs` | the inductive invariant and six theorems of the specification | done |
| `Supervision` | controllers, workers and their rows: `ragprocess`, `ragsupervision` | done |
| `MCSupervision` | symmetry sets for TLC | done |
| `SupervisionProofs` | the inductive invariant and seven theorems of the specification | done |
| `McpSession` | a QA client, the pipes, the stdio MCP server and a changing library | done |
| `MCMcpSession` | the eight clients | done |
| `McpSessionProofs` | the inductive invariant and five theorems of the specification | done |
| `QueryRewrites` | old and new queries, and the diagnostic that compares them | done |
| `MCQueryRewrites` | libraries and questions for TLC | done |
| `Windows` | maintenance windows, their backlog of questions, and the workers that settle it | done |
| `MCWindows` | symmetry of workers and a bound of the runs for TLC | done |
| `WindowsProofs` | the inductive invariant and four theorems of the specification | done |
| `QueryRewritesProofs` | the queries are equivalent, for texts and libraries of any size; three theorems of the specification | done |

The groups share no definitions; they meet where one is an outside to another.
`Publish` of `WorkQueue` commits a generation and then writes the manifest: that
commit is `CommitGeneration` of `Publication` with a base the worker read before
its call. `PreventCall` of `WorkQueue` is, among others, a call that `Look` or
`Defer` of `ProviderCapacity` turned away, and the deferral that ends its
attempt. `Reap` of `WorkQueue` is the recovery `Supervision` makes of the claims
of an exited worker. `Windows` looks at the same claims and settlements from the
side of the tasks: it keeps of an attempt what a task is told of it, and leaves
receipts and the ledger to `WorkQueue`. `OtherWrites` of `McpSession` and `Publish` of
`QueryRewrites` are publications seen by a process that only reads.

### WorkQueue and the code

`WorkQueue` extends `Lifecycle` and `Admission` and states the queue for one
job. The correspondence:

- `jobState`, `reservedCalls` are the `jobs` row; `state`, `owner`, `fence` are
  `job_items.state`, `worker_id`, `fence`; `live` is `lease_until > now`.
- `outcome`, `run` are columns of `attempts`. An attempt is the pair of its item
  and fence (`attempt_id` is `item#attempt-fence`); a provider run is named by
  the attempt it was made for.
- `opened`, `closed`, `intent`, `uncertain`, `receipts`, `answer` are the
  `job_events` of an attempt: `reservation-open`, `reservation-close`,
  `provider-intent`, `provider-outcome-uncertain`, `settlement-receipt`, and
  `provider-response` with what validation will say of it (`accepted`,
  `uncited` when its citations do not ground, `invalid` content, `failed`
  transport).
- `corrected` is the fence at the item's `citation-correction-requested` event;
  `retry` its row in `retry_requests`.
- `pc`, `claim`, `orig`, `result`, `broken` are the local state of
  `_runworkeronce`: where it is, its claim, the original attempt of a reused
  answer, the provider result, and whether the pass ends in an error.

Every transaction is one action (`ClaimNext`, `Reserve`, `BeginRequest`,
`RecordResponse`, `Settle`, `LinkReceipt`, `Publish`, `FailResult`, ...). Reads
outside a transaction are actions of their own (`ReadReceipt`, `Process`,
`Decide`, `SeeCancel`): what they read may be stale when it is used. Recovery,
job refresh and reconsideration of retry requests are the tails of the
transactions that call them and are composed as operators (`RecoveredStates`,
`Refresh`, `Reconsider`), never as steps of their own. `Exit` stops a worker
between any two steps; `ReleaseExited` and `RecoverExited` are the two
transactions of `recoverworkerclaims`. `LeaseLapses` lets a lease run out at any
moment: `heartbeat` exists but no production code calls it, so a slow call may
always outlive its lease. The definitions of `ragwork.crexx` that delegate
(`settlecall`, `beginproviderrequest`, ...) are modelled where they are
implemented.

Abstractions, and why they keep the properties' meaning:

- `retry_at` and priorities only order queued items; any queued item may be
  picked.
- One call costs one unit of the call budget and one in-flight slot. The other
  dimensions use the same arithmetic, which `WorkQueueProofs` covers for all
  values.
- A claim refused by `workerclaimallowed` rolls everything back: a stutter.
- The route's attempt limit equals the policy's `maximum_attempts`.
- `PreventCall` stands for every reason not to call: capacity, credentials,
  configuration, cooldown. `UseStoredVector` is the other way to do without a
  call: `_cachedembedding` finds the vector of an embedding item stored by an
  earlier one (`Embeddings` are the items of that type). The pass succeeds with
  `provider_called=0`, its settlement records no run, and the item is published
  with none. Whether a vector is stored is not kept: it may be found at any time.
- `PolicyUnavailable` is the budget policy that cannot be read before a
  reservation (`ragwork.crexx:706-709`): the attempt is failed and the worker
  stops.
- `Publish` stands for the three fenced publications (batch, single proposal,
  embedding): each completes attempt and item in the transaction that commits
  the graph or the vectors. The manifest is written after it and may fail; an
  embedding has none to write, which the model does not tell apart.
- The retry baseline of a job reset, semantic-failure escalation, cached
  maintenance outputs, external (Codex) runs, windows and replay families are
  not in the model (section 6).

### ItemPromise

`ItemPromise` says what a user of the queue may rely on, with no worker, lease
or event: attempts of an item are numbered, exclusive, granted once, and at most
one finishes the item while it holds it. `WorkQueue` implements it with
`holder` the fence of an owned item, `last` its fence and `winners` the attempts
with outcome `succeeded` or `skipped`.

### Publication and the code

A library has one database, one `manifest.json` and any number of sidecar
files. `Publishers` publish generations or roll back, `Builders` run
`buildannvectorgeneration`; each is a process with the library open for writing.

- `parent`, `current`, `next` are `published_generations` and the two counters
  of `library_meta`.
- `first`, `last` are the visibility interval of a member, a source chunk with
  its embedding; `revision` is `embedding_profiles.vector_revision`, which
  triggers of `ragschema` move.
- `rows` is `vector_generations`: generation, state and `input_revision`
  (`marked`). `files`, `copies` and `inputs` are the files of the library
  directory: sidecars, sidecars under their `.new` name, and build inputs.
- `manifest`, `staged` are `manifest.json` and `manifest.json.new`. `writer` is
  the process inside the only transaction that spans file steps: `publishmanifest`
  holds `BEGIN IMMEDIATE` while it writes and renames.
- `pc`, `job` are a process's place and what it has read: the base of a
  publication, or the generation, revision and content of a build, and the
  generation under which `_preparesidecar` decided to file it.

Every transaction is one action. Each read outside one (`ReadBase`,
`StartBuild`, `ReadRevision`, `ReuseClean`, `AlignManifest`, `LoadMatrix`,
`LookupIndex`, `PrepareSidecar`, `CheckInstall`) and each step on a file
(`AppendCopy`, `RenameCopy`, `RemoveInput`) is an action of its own. The COMMIT
of `publishmanifest` is merged with the rename, since the transaction wrote
nothing. `Crash` stops a process between any two of them: SQLite rolls back, files
stay. `BusyTimeout` is a failure to get the lock within
`busy_timeout`, with the clean-up each caller does. `LoseSidecar` is somebody
removing a sidecar.

Abstractions, and why they keep the properties' meaning:

- One embedding profile. Replacing one profile by another
  (`compatiblevectorpredicate` with several profiles) is not modelled.
- An index is its content. Its identity and its file name are digests of its
  bytes, and the bytes are determined by the generation written into them, the
  members and the training settings.
- A revision moves by one where the triggers may add several: it is only
  compared for equality.
- `Replay` follows the `ivf-flat-v1` path, where an index of an ancestor is
  replayed under its own generation. `exact-native-v1` skips that step; it
  is the case in which no earlier index is exact.
- `RollbackGeneration` stands for `rollbackgeneration`, which is an operation of
  the store that no command calls yet.

Visibility of a member is a comparison of numbers, not of lineage, so rows of a
rolled-back generation show again when numbers pass them; this is why the trigger
`vector_dirty_generation_jump` exists and why the model keeps it.

`GenerationRegister` says what readers and publishers may rely on: a tree that
grows at its head and a head that may go back to an ancestor. `Publication`
implements it with `tree` as `parent` and `head` as `current`.

### ProviderCapacity and the code

`ProviderCapacity` states `ragenvironment` for one provider and model. Time is
the epoch second of the database.

- `outcome`, `admitted`, `released` are the columns of `provider_admissions`;
  `notBefore`, `failures` the row of `provider_cooldowns`. The lease is not a
  variable: it is the admission plus the timeout plus the slack.
- A call is an item with its attempts up to the one that is admitted. `pc`,
  `due`, `begun`, `answer`, `delay` are its worker's place, `retry_at` of the
  parked item, and what the provider has said.
- `Look` is the read of the cooldown before the transaction; `Admit`, `Defer` and
  `Refuse` are the three ends of the transaction of `admitprovidercall`, with the
  expiry of overdue admissions as its head. `Begin` and `Answer` are the call,
  `Release` is `releaseprovidercall` with `updatecooldown`, `ReleaseAgain` its
  repetition, `RecoverRelease` the release made by `recoverprovideraccounting`
  for a worker that did not come to it. `Crash` stops a worker anywhere.

What time may do is an assumption, and it is in `Tick`: a call does not outlast
the timeout it was given, and it begins within the slack (30 seconds in the code)
after its admission. The code does not enforce the second: a process that is
suspended between its admission and its call would begin it outside its lease,
and the concurrency could be exceeded. `Punctual` makes whatever is due happen
before time passes; the proofs of section 4 do without it.

Left out: a request that could never be admitted (`-1`, `-2`), several
providers (their rows are independent), and the reconciliation of external
runs (`ragreceipts.crexx:207`), which also releases an admission, as
`RecoverRelease` does.

### Supervision and the code

`Supervision` states two commands, `job run` and `worker start`, that become
controllers, and the workers they start.

- `row`, `want`, `boss` are `runtime_instances.state`, `requested_state` and
  the reserving controller. `parent_instance_id` is derived from `boss`, because
  deleting a controller's row sets it to NULL (`ON DELETE SET NULL`).
- `exec`, `code` are a worker process and its exit code; `ctl` is the memory of
  a controller: its slots, replacements, counters and what it has seen.
- `item` is what recovery and claims need of the queue; `env` whether the
  provider is healthy, cooling, due for a probe, or probed; `events` the
  `worker-replacement` events with their age.

One transaction is one action, and each read outside one that is used later is
an action of its own, except where the write that follows repeats the test. The
`idle` and `running` of a worker's row are both `"idle"`: no query tells them
apart. Identities are handed out in a fixed order. The exit of a controller is
merged with its last `finishprocess`. `Tick` ages events; a lease lapses for
dead owners only, because `WorkQueue` has the others. `Faults` are crashes of a
worker or controller, launches that are rejected, writes that fail and provider
failures.

Left out: reused process numbers and other hosts (identity of a process is its
PID and host), poll and item limits, pause, cancellation and windows, and
different values of `max_restarts` for two controllers of one job.

### McpSession and the code

`McpSession` composes a client, the server and a library. A client is a sequence
of statements (`Session`): read a part of a snapshot, call a tool, notify, recall
an answer saved by an earlier session, compare two snapshots. Eight clients of
`docs/qa` are modelled: both editions of `run_mcp`, `probe_wide`, both of
`measure_mcp`, `measure_answer_path`, and both of `measure_followups`. The copies
of `run_mcp` and `probe_wide` in `test5-followups-20260914` are the same text and
have no script of their own.

- `inp`, `out` are the pipes; `server` is the loop `serve mcp` with the answer it
  is writing: a line may be complete, begun, or never come. `Dispatch` is
  `mcpdispatchsession`, which answers a request and is silent on a notification.
- `at`, `raised`, `failures`, `status` follow `rpc`, the `try`/`finally` of each
  client and its exit status: `GuardExpires` is `select` after 120 seconds,
  `CloseInput`, `WaitExpires`, `SecondWaitExpires` are the end of the server.
- `lib` is what snapshots and answers are taken from; `begun` and `mixed`
  remember, for `CleanVerdict`, which library the session began with.

Questions a client asks in the same way are one call. Answers carry their id,
whether they failed (by `isError` or as a JSON-RPC error, which a client that reads the
result of a listing without looking at it takes for an exception), the state they were read from and a page of a listing.
Ranking, evidence bounds, CPU samples, timings and file formats are left out. A
transaction of another process is taken where the client's or server's next step reads
the library; elsewhere it commutes.

### QueryRewrites and the code

`QueryRewrites` follows `measure.py` statement by statement: `Backup`, `Before`,
`Indexes`, `After`, `CompareAnchors`, `ComparePages`, `Result`. Its data are the
queries: `Expected` (the walk over the catalogue) and `Anchors` (`_anchors`),
`OldCandidates` and `NewCandidates` (alias issues), pages with the cursor
compared as one text or as a pair or number. Texts are sequences of characters
in their byte order.

- Labels are in lower case: `lower()`, which folds ASCII only, is the same on
  both sides.
- Of the cases only that of alias issues changes its joins. The other rewrite
  guards `json_extract` by `json_valid`, which differs only on a message that is
  not JSON; the code writes JSON (`ragwork.crexx:387`).
- The page of embeddings has the shape of the lineage page.
- The tables are finite, and a generation's number has at most `Width` digits of
  base `Base`: the script pads it to twenty decimal digits, the cursor as well.
- A lineage group is any text, for a proposal that is imported may name any
  (`ragproposalio.crexx:114`); `PlainGroups` says that none has a character up to
  `char(31)`, as the generated ones do not. `support_id` and the two identities of
  an embedding are generated (`Identity`). With such a character in a group the
  two comparisons of a cursor differ, so the pages agree for plain libraries
  only; the run has those, and the theorem names the condition.
- A publication before the backup leads to a library the script may as well
  start with, so `Publish` begins after it.

### Windows and the code

`db` is the database; the operators of `Windows` take one database to the next,
so that a transaction is their composition, and every action is one transaction.

- `db.tasks` is `maintenance_tasks`: `state`, `count` (`attempt_count`), `paid`
  (the task's recorded calls), `delayed` (`not_before_epoch` is in the future),
  `request` (its row in `retry_requests`: `held` or `ready`). A question is a
  subject; its tasks are numbered by the version of the evidence they were made
  for, and `db.evidence` is the version `_freshbacklogtask` would find now.
- `db.items` is `job_items` with `maintenance_task_items`: an item is named by
  its task and attempt number, as the schema's unique constraint allows. `live`
  is `lease_until > now`; `reply` is an intent without response (`awaited`) or
  an answer that no decision has used (`stored`).
- `db.windows`, `db.jobs` are `maintenance_windows` and `jobs`. `time` is what
  the code compares: the deadline leaves room for a call (`open`), is too near
  for one (`late`), or has passed.
- `Ticked` is `tickbacklogwindow` with `_reconcileoutcomes`, the census
  (`Enqueue`), `_dispatch` and `_closewindow`; `Disposition` and `Reconsider` are
  `taskretryfacts` and `_reconsidertaskretries`, which most transactions end with.
- `pass` is the local state of `_runworkeronce`: `Claim`, `Check`
  (`checkbacklogclaim`), `Reserve`, `Answer`, then `Decide`
  (`completebacklogdecision`), `Publish` or `Fail`, and `Leave`
  (`acknowledgecancel`). `Recovered` is the recovery of lapsed leases in
  `claimnext`.

Kinds of questions are `resolution` (concepts, alias issues, notes, gaps), whose
answer decides the task, and `extraction` (`alias-follow-up:chunk`), whose
publication leaves the task to a checkpoint. `conflict` is the failed insertion
of an attempt number that exists. The census may meet any set of questions, and
`Reserve` may defer a call for a limit of the job that is not modelled. Left out
are reviews, manual mode, the advanced route, waivers, deferrals, workflows,
retry resets and allowance renewal, repairs of embeddings (whose resolved tasks a census
reopens when the link is missing, `ragbacklog.crexx:1295`), policy fingerprints,
priorities between questions, item retries and the escalation of content
failures. Evidence only grows, and every change of it is material. The counters
`tries` and `paid` stop at the limit they are compared with.

## 3. The runs

### WorkQueue

`MCWorkQueue` with four configurations. Deadlock is not checked: all workers
may exit for good, and then nothing is left to happen.

| Run | Instance | Checks | Shows |
|---|---|---|---|
| `item` | 1 item, 2 workers, 3 claims, 2 attempts, 3 calls | `TypeOK`, `SingleOwner`, `LedgerBalanced`, `PublishedIsAccounted`, `NoBlindRepeat`, `HistoryIsImmutable`, `KeepsPromise` | the life of a contended item: 581 thousand states |
| `pair` | 2 items, 2 workers, 1 claim each, in-flight ceiling 1 | `JobMatchesItems`, `CancelBarrier` | what items of one job do to each other and to the job row: 287 thousand states |
| `live` | 1 embedding item, 2 workers, 2 claims, with fairness | `PublishedIsAccounted`, `CancelCompletes`, `ReservationsReturn` | everything started comes to an end, with reused transport failures and stored vectors: 80 thousand states |
| `correction` | 1 item, 2 workers, 3 claims | `CorrectionIsLast` | finding 1 of section 5 |

Bounds. `MaxFence` bounds the claims of one item and is the only bound on
behaviour. Three claims give: an attempt that loses its lease, one that reuses or
repeats its call, and one after a retry, deferral or correction; two workers
suffice because the hazards are between a lapsed holder and its successor. The
citation correction needs two calls and is in `item`. The in-flight ceiling of 1
makes `Defer` happen in `pair`; a call budget smaller than the claims makes it
run out. `failed` answers, whose settlement re-opens the item to a fresh call,
are in `live`, content rejections in `pair`, citation failures in `item`: the
union in one run would not add interactions, because a receipt has one verdict
and only the latest uncorrected one is read. Symmetry over workers and items is
used for safety runs only.

Properties that were checked and are worth a sentence:

- `SingleOwner` would break if recovery ended an item without its attempt, or
  the reverse, in any of the ways out of a claim.
- `LedgerBalanced` relates the counter of `jobs` to the event ledger through
  late settlements, which find their reservation already closed.
- `PublishedIsAccounted` says that whatever is published rests on a settled run
  of its item and on an accepted answer younger than the last correction, even
  if another attempt made the call. An embedding published from a stored vector
  is the exception in the code: it made no request, and it has no run where its own
  reservation was settled, or the run of the answer whose accounting it recovered.
  It is checked in `item`, where receipts are handed on and corrected, and in `live`
  with stored vectors.
- `NoBlindRepeat` is "intent without response is never retried unasked": an
  attempt that got hold of such an item does not call, however it got it.
- `HistoryIsImmutable` is what late workers might undo.
- `CancelBarrier` says that once cancellation is requested nothing starts and
  nothing is published, wherever each worker was.

Fairness. `WF` of `Claim` and `Pass` per worker: a running worker's loop polls
and goes on to its next statement (`_runapplicationworker`). `WF` of `Reap` per
worker: the controller handles an observed exit. In the code this holds while
the group is ready, not draining, and serves one job (`ragprocess.crexx:781`); a
drained group leaves recovery to the next group. `WF` of `LeaseLapses` per item:
time passes. Nothing is assumed of `Exit` or of operators. Strong fairness is
not needed: a step of a pass, a reap and a poll that has something to recover
stay enabled until somebody takes them.

### Publication

`MCPublication` with one configuration. Deadlock is not checked: the counters
that bound the model run out.

| Run | Instance | Checks | Shows |
|---|---|---|---|
| `publication` | 2 processes that publish and build, 1 member, 2 generations, 2 revisions, one crash or loss | `TypeOK`, `CleanMeansComplete`, `OneServingIndex`, `ManifestIsCurrent`, `RegisterPromise` | builds against publications, rollbacks, links and builds, with a crash at every step: 1.8 million states |

Bounds. The hazards of a build are what happens between its reads, and those of a
publication what happens between its commit and its manifest; two processes that
do both meet in every combination of the two, and one of them may stop at any
step, under the lock or with a file half installed. Two generations are the fewest
that have a rollback, a publication on a stale base, and a number that is not
given again; two revisions allow a change at any two of the moments before, during and
after a build. One member is enough to tell a complete index from a stale one. A
third generation, several training settings and more processes are beyond the run and
covered by the proofs, which hold for all of them (`CleanIsComplete`,
`OneIndexServes`, `ManifestStaysCurrent`, `RegisterImplemented`). The processes are
alike, hence symmetric.

- `CleanMeansComplete` is what makes it safe to skip a build: any link,
  publication or rollback between the reads of a build must leave it dirty. It
  is stated for indexes filed under the generation they were built for; section 5
  describes the other kind.
- `ManifestIsCurrent` is about delayed publishers: between the commit of a
  generation and its manifest another process may commit and publish.
- `OneServingIndex` holds across insertion, reactivation and supersession by
  processes with different settings; retrieval refuses a library with two.
- `RegisterPromise` would break if a number were handed out again after a
  rollback, or if a publication were based on a generation no longer published.

No property says that a sidecar named by a row is whole. Two builders of the same
content may append to one `.new` file, and with three a loser may delete the file
the winner has just committed. Both are repaired by the next build: the digest does
not match, and `_restorederivedsidecar` writes the file again under the lock.

There is no fairness in `Publication` and no liveness property: operators decide
when to publish and build, and nothing waits for anything but the lock.

### ProviderCapacity

| Run | Instance | Checks | Shows |
|---|---|---|---|
| `capacity` | 3 calls, 2 requests and 3 tokens in a second, concurrency 2, a timeout of 2 seconds, 13 seconds, punctual, with fairness | `TypeOK`, `RunningWithinLimit`, `RequestRateHolds`, `BackoffHolds`, `SingleProbe`, `EveryCallEnds` | limits against expiry, crashes, stale looks and late answers; capacity held by the dead comes back, cooldowns end: 1.3 million states |

Deadlock is not checked: time ends at `MaxTime`. Thirteen seconds at a minute of
one second, a timeout of two and a slack of one hold an admission, its expiry under
a running call, a second admission in its place, and a cooldown that begins, ends
and is raised. The window is shorter than the timeout, so that concurrency and
rate each bind alone; with a longer one the rate hides the concurrency. Three calls
are one that fails, one that was admitted before and one that looked before. The
last second is so late that no call needs it: a behaviour in which a call is still
parked at the end would be a violation. Fairness is
`WF` of `Tick` and of each call's `Step`: time passes, and a worker that polls
goes on. Nothing is asked of `Crash`, `RecoverRelease` or the outcome of a
call. `Punctual` says that time does not pass a moment at which a worker is due; it
is assumed for liveness only, for without it a bounded clock can run out while a
due call waits. The safety properties are proved without it (section 4).

- `RunningWithinLimit` is about calls at the provider, which the tables do not
  show: an admission that expires early lets one call too many in.
- `RequestRateHolds` is about every minute, wherever it begins, not only those that end at an admission.
- `BackoffHolds` would break if a worker that looked before the failure could be
  admitted, or if an older success cleared a younger cooldown.
- `SingleProbe` is the place where a look, an admission and a failure count meet.

### Supervision

| Run | Instance | Checks | Shows |
|---|---|---|---|
| `supervision` | 2 commands, 4 workers, 1 item, 1 slot, 1 replacement per window, 2 faults, every operator command; controllers are symmetric | `TypeOK`, `ReplacementsBounded`, `ReplacedForGood`, `OneController`, `CleanGroupIsGone`, `LoopEndsEmpty` | competing commands, dying processes, drains, prunes and signals: 1.9 million states |
| `refilled` | 2 controllers, 1 slot each, 4 workers, 1 item, 3 faults, with fairness | `EveryItemEnds` | must be violated: finding 7 |

Deadlock is not checked: everyone may be gone. Two faults are what it takes to
kill a worker and its controller, or a worker and its replacement; identities of
workers suffice for both controllers to fill and refill their slot.

Fairness in `refilled`, without which the counterexample would be a system that
stops: `WF` on the steps of every process, because processes run; `SF` on `Observe`,
`Beat`, `ReserveReplacement` and `LaunchReplacement`, because they are timed turns of
a controller's loop, enabled again in each round and reached in some round; `WF` on
`Warm`, `Tick` and `Lapse`, because time passes. Nothing is asked of faults or
operators.

- `OneController` is what registration, takeover of stale rows and the check
  before activation must give together; two commands may pass their first checks
  at the same moment.
- `ReplacedForGood` says that a replacement starts when the old worker is dead
  and holds nothing, whatever the rows said on the way.
- `ReplacementsBounded` counts events that outlive controllers and pruned rows.
- `CleanGroupIsGone` is about the worker that registers late, after `job run`
  has drained, reclaimed and erased its group.
- `LoopEndsEmpty` excepts the reservation of a replacement that never began: the
  error of the `finishprocess` that would end it is ignored (`ragprocess.crexx:805`,
  `AbandonFails`), and its row stays `starting`.
- `EveryItemEnds` says that an item ends unless the controller is told to stop or
  fails. With one controller TLC finds no counterexample: claims of the dead come back
  and slots are refilled, the empty pool of a cooling provider too. With a
  second one that follows a failed one it is false (finding 7), and that is the run.

An operator who prunes the row of an ended worker before its slot is refilled
makes `reserveworkerreplacement` find no predecessor: the slot is abandoned. The
loop then ends as `LoopEndsEmpty` says.

### McpSession

| Run | Instance | Checks | Shows |
|---|---|---|---|
| `session` | 8 clients, 3 sources, pages of 1, a text of 2 pages, 1 fault, 2 events | `TypeOK`, `PagesAreExact`, `CleanVerdict`, `AnswersMatch`, `SessionEnds` | every client against every behaviour of the server and the library: 2.1 million states |

Deadlock is not checked: a session ends. Two events are two transactions
of other processes, or one and a fault: one between two pages or two parts of a
snapshot, and one more to hide it. Pages of one source make every listing turn
at least twice. Fairness is `WF(Client)`: the client is a running program and
`select` and `wait` return in the end. Nothing is asked of the server.

- `AnswersMatch` holds for clients that never look at an id, because there is one
  request at a time and nothing is read after the guard has expired.
- `CleanVerdict` ties an exit status of 0 to the library the session began with,
  though snapshots are several statements without a transaction.
- `SessionEnds` names its two exceptions: the guard covers the first byte of an
  answer only, so a line that stalls blocks `readline`
  (`docs/qa/test5-mcp-20260914/README.md` says that the guard "detects a
  non-response only"), and `probe_wide` has no guard.

Observations made while modelling, for which no property is stated. A broken
pipe makes `stdin.close()` in the `finally` of `run_mcp` raise again, and no
result is written. `result.json` is also saved when an exception cut the session short
and may then show no failed check; the exit status is 1. `run_mcp` counts all rows
of `sources` while the listing shows open ones, so a library with a retired
source fails its paging check. `measure_mcp` writes into an existing directory, so
`measure_followups` may read the answers of an older session.

### QueryRewrites

| Run | Instance | Checks | Shows |
|---|---|---|---|
| `rewrites` | 2 concepts, 1 alias, 7 labels, 8 questions, up to 4 support rows in 3 groups, 7 generations | `AnchorsAgree`, `RewritesAgree` | old and new queries agree on every library, and while others publish: 962 thousand states |

Deadlock is not checked: the script ends. Labels and questions are the fixtures
of `measure.py` in small: leading, trailing and repeated spaces, a label that is
a part of a word, an empty label, an empty question. Groups have one that is a
prefix of another, which is what a comparison of joined texts could get wrong.
Generations are written with three binary digits, and the late cursor may be
negative.

The script itself aborts on a library that has the indexes already, and where
there are fewer rows than its OFFSET; it writes its result before the assertion.

### Windows

| Run | Instance | Checks | Shows |
|---|---|---|---|
| `windows` | 1 question of either kind with 2 versions of evidence, 2 windows of 2 items with limits 1 and 2, 2 workers, 1 claim per item, 1 command or fault | `TypeOK`, `SettledStays`, `ClaimsInActiveWindow` | closing, continuing, retrying and changing evidence, also where a question is open twice: 978 thousand states |
| `dispatch` | the same instance | `OneOpenItem` | must be violated: finding 8 |

Deadlock is not checked: windows and commands run out. Two windows are what it
takes for an item of one window to be settled, recovered or reconciled during
another, and the second with a higher limit revives what failed in the first. One
command is any of the seven, at any moment; two versions of evidence let it change
before the dispatch, under the call or after the decision. `Sparse` (`MCWindows`) bounds
the two runs: one command or one fault, and window `j` has the limit `j`. The
instance has the states of finding 8: the other properties of the component
are checked where a question has two open items, not only before.

- `OneOpenItem` is over versions of evidence, whose tasks replace one another.
- `SettledStays` is about tasks that are resolved and have no open item. It would break
  if a checkpoint, a retry or a late worker wrote the state of a task it had read
  as open; `completebacklogdecision` writes it unconditionally and rests on its
  fence. A resolved task with another open item may be written once more: the worker of that
  item holds its fence. It may even decide the task by the same stored answer,
  since nothing marks an answer as used but the decision that names its run, and
  two decisions may name one (`ragschema.crexx:287`). That is finding 8 again.
- `ClaimsInActiveWindow` holds although `claimnext` does not look at windows: the
  closure and the projection of the job must keep the queue of a closed window
  out of its reach, whatever recovery puts back.

## 4. The proofs

`WorkQueueProofs` proves, for every finite set of items, any set of workers and
verdicts, and all ceilings:

- `TypeCorrect`: `Spec => []TypeOK`
- `OwnersAreSingle`: `Spec => []SingleOwner`
- `LedgerBalances`: `Spec => []LedgerBalanced`
- `Refinement`: `Spec => KeepsPromise`, the implementation of `ItemPromise`

Assumptions are `WorkAssumption` alone: ceilings are naturals, the items finite and
at least one (a job without items is complete when it is planned,
`ragingest.crexx:1344`, `ragwork.crexx:536`), `None` names neither a worker nor an
attempt. `MaxFence` is an arbitrary natural.

None of these is inductive by itself. `IInv` adds three parts: settled
receipts belong to closed reservations; `Numbered` (no row of an attempt exists
before the claim that names it, so a new claim gets a fresh attempt); and
`Pledged`, which says for each place in a pass what the worker has earned:
before the reservation its attempt is not in the ledger, with an own call it is,
after settlement nothing of it is open. `Pledged` is why the counter stays equal
to the ledger when a pass ends: the transaction that ends a claim does not look
at the ledger, so it must know that its reservation is closed. The proof
goes action by action: quiet steps (tables unchanged), note steps (events that
neither items nor counters depend on), the settlement, the end of a claim
(`SettledFacts`, shared by failure, publication, skip, deferral and
acknowledgement), and recovery (`RecoveredItems`, `RecoveredLedger`), which
`ClaimNext` composes with a grant. The counter part uses cardinalities of finite
sets; recovery needs that the event ledger of the lapsed items is exactly what
`closed` gains.

The refinement uses one more invariant, `WinnersDone`: an attempt that finished
its item left it finished. With it each transaction maps to at most one step per
item: recovery is a `Drop` of every lapsed item, a claim a `Grant` that may take
the item from a lapsed holder in the same commit.

`WorkQueueHistoryProofs` goes on from that invariant:

- `JobAgreement`: `Spec => []JobMatchesItems`
- `Cancellation`: `Spec => CancelBarrier`
- `History`: `Spec => HistoryIsImmutable`
- `NoBlindRepeats`: `Spec => NoBlindRepeat`
- `Accounted`: `Spec => []PublishedIsAccounted`

`JobMatchesItems` is inductive over `IInv`: each transaction ends in the projection of
the job (`RefreshedMatches`) or in a reconsideration (`ReconsideredMatches`), and both
restore it whatever the items became. The barrier follows, since a worker that
would publish needs its item in a state that a stopping job no longer has.

The other three need `Records` (theorem `RecordsKept`), which is what the rows say of one
another and what a worker in the middle of a pass can conclude from what it has
read. Its rows: nothing is recorded of an attempt that has not begun (`Unborn`);
a citation correction lies behind the attempt the item now has (`Corrections`);
an item with an unanswered request is held, unless its own attempt waits or a
retry was asked for (`Awaited`); runs are of the item, not of a later attempt, and
settled unless their answer was lost (`Runs`, `Settlements`). Its passes: where the
attempt's own request stands (`Asking`), what is known of an answer found before
(`Reusing`) and of one accepted (`Accepting`). Passes speak of reads made in earlier
transactions, and stay true because tables only grow: `Ages` says that finished
items, ended attempts and corrections are not touched, `Accumulates` that
intents, receipts, answers and runs are only added. `HistoryIsImmutable` is these two
facts of every step. `NoBlindRepeat` is `Awaited` at the worker that is about to ask, for
its item is not held. `PublishedIsAccounted` is `Accepting` at the publication, and
remains because its attempt has ended; a worker that goes on with a stored vector
holds an embedding item (`Accepting`) and has made no request (`Asking`).

`WorkQueueProofs` also proves, for all naturals, that the subtractions of the
admission decision are the sums they avoid (`AdmittedIffFits`,
`FittingWorkStaysWithin`), that a call waits if and only if what live peers hold is all
that keeps it from fitting (`WaitingIsForPeers`; a dimension without a limit never makes one wait),
that the decision is monotone (`RankIsMonotone`) and that the worst rank admits what
every dimension admits (`WorstAdmitsAll`). They are
about unbounded integers; the code's order of subtraction keeps its
intermediate values inside the range of its inputs.

`PublicationProofs` proves, for any processes, any finite set of members, any
non-empty set of settings, all faults and all bounds:

- `TypeCorrect`: `Spec => []TypeOK`
- `ManifestStaysCurrent`: `Spec => ManifestIsCurrent`
- `OneIndexServes`: `Spec => []OneServingIndex`
- `RegisterImplemented`: `Spec => RegisterPromise`
- `CleanIsComplete`: `Spec => []CleanMeansComplete`

`IInv` is `TypeOK` with four parts. `Loaded`: a process that goes on to look up,
restore, install or mark has an index in its job, which makes rows and names
well-typed. `Numbered`: every published generation is below `next`, so a new one
is fresh. `ManifestHeld`: whoever is about to rename the manifest holds the lock and
has staged what the database still says. The lock is why it is inductive: every
action that changes the projection needs it free. `ServingAlone`: two published
rows of one generation are the same row. `OneServingIndex` follows from it because
all compatible indexes have the newest generation of the lineage, hence the same.

`CleanIsComplete` needs a second invariant, `Complete`. It rests on one fact of every
step (`NoticedStep`): what the published generation shows stays the same, or
the revision moves. A commit that only adds one to the number moves no
revision, and shows what the one before it does because no member is dated ahead
of the numbers given out (`Dated`) and the new number is the next one; a
rollback goes down (`Descending`, `LineageGoesBack`) and is a jump unless it stays. With it,
`Fresh` says what a build may conclude while the revision is the one it
read at its start: the index has the members of its base, and once filed under
the generation it was built for, those of the published one, since the commit and the
reactivation each compare the generation again. `Marks` is the property without the
condition that the index serves. A build that read an older revision knows
nothing, and its mark is behind for ever. `Lineage` is written as the least set that
holds a generation and the parents of its members, what the recursive query of
`rollbackgeneration` computes, because a recursive function could not be
reasoned about. Assumptions are `PublicationAssumption` alone, which says that
`None`, a NULL, is not a number.

`ProviderCapacityProofs` proves, for any finite set of calls, reservations,
limits, timeouts and delays:

- `Typing`: `Spec => []TypeOK`
- `Concurrency`: `Spec => []RunningWithinLimit`
- `RequestRate`: `Spec => []RequestRateHolds`
- `Cooldown`: `Spec => []BackoffHolds`
- `Probe`: `Spec => []SingleProbe`

`IInv` is `TypeOK` with seven parts (theorem `Invariance`). `Phases`: a place in
a call goes with the columns of its admission. `Timely`: a call at the provider
is inside its lease; this is where the assumption of `Tick` enters. `Limited`:
open admissions are within the concurrency. With `Timely` it gives
`RunningWithinLimit`. `RequestRateHolds` is inductive because an admission counts
the minute that ends now, and every later minute holds fewer of the old
admissions. `Backed`: a failure that entered the cooldown still counts, in
`notBefore` or because time has passed it. `BackoffHolds` rests on it.
`OneOpen`: while failures are counted one open admission is younger than the
cooldown; with `Timely` it is `SingleProbe`. Assumptions are
`CapacityAssumption` alone. Nothing is stated of the rate of tokens: it is a sum
over a set, a fold that cannot be unfolded in a proof.

`SupervisionProofs` proves, for any finite sets of controllers, workers and items, any
number of slots and of replacements, and whatever the operator does:

- `TypesHold`: `Spec => []TypeOK`
- `Sole`: `Spec => []OneController`
- `Bounded`: `Spec => []ReplacementsBounded`
- `Replaced`: `Spec => []ReplacedForGood`
- `Cleaned`: `Spec => []CleanGroupIsGone`
- `Emptied`: `Spec => []LoopEndsEmpty`

The invariant (theorem `Supervised`) has besides types and rows one part per
controller and one for the ledger of replacements. `Slotted`: slots hold workers
of this controller, no two the same reservation; a slot whose exit was observed
holds a dead worker; `completed` and `failed` are the numbers of such slots, which is
how the loop, that only counts, knows that everyone has ended. `Accounted`: a worker of a controller at
work is in a slot, in the slot's next reservation, or ended with a row that says
so, or it was reserved and never begun; this is what `LoopEndsEmpty` needs. `Cleaning`: the controllers of a group that is
erased have gone or lost their row, and its workers are where they claim nothing
more. A worker reads that its parent is not available before it claims, so
`Harmless` is closed under every step of anyone once the parent has departed
(`Fades`): nothing departed, ended or retired comes back. The bound of
replacements is inductive because one is reserved only while
fewer than `MaxRestarts` are in the window, and time only takes them out of it.
`ReplacedForGood` rests on `Slotted`: what is replaced was observed to have ended and its
claims were recovered. A step of one controller leaves the others'
parts alone (`Bystander`), so each action is proved for its own controller only.
Assumptions are `SupervisionAssumption` alone.

`QueryRewritesProofs` proves, for texts of any length, any size of a page, any base and
width of written numbers, and, but for the last, any library:

- `PhrasesAreContained`: a label is a phrase between two boundaries of the
  question exactly when the padded question contains the padded label.
- `AnchorsFindTheSame`: the phrase query matches the catalogue rows of the walk.
- `SameAnchors`: both list the same concepts in the same order.
- `SameRows`, `SamePages`: a cursor that is a row, compared as a pair, selects
  the rows, and the page, that its comparison as a text selects, for rows with
  groups and identities of characters above the separator.
- `SameGenerations`: a generation compared as a number selects what its digits do.
- `Cases`: `Spec => []CasesAgree`, the first half of `RewritesAgree`.
- `AnchorsNeverDiffer`: `Spec => []AnchorsAgree`
- `Rewrites`: `Spec => []RewritesAgree`, if every library has `PlainGroups`

The first reduces both sides to positions of the padded question. The pages rest
on `JoinedOrder`: where two joined texts part is where their groups part, or
where their identities do, because no character of a plain group is as small as
the separator. The walk lists a concept where its first row stands. Rows stand in the order of their
origin, then of their concept, so the first rows of two concepts compare as their
least origins do, then the concepts, which is what the grouped query sorts by. A finite
set has exactly one enumeration in a total order (existence by the least size
without one, uniqueness by the least place where two differ), so the two lists are
equal. Numbers compare as their digits do, because digits of equal width are
compared at the first that differs, and what is left of it weighs less than one of it
(`Power`); hence writing is injective, and `Value` reads back what was written. A
negative cursor sorts before all digits in either form.

The invariant is `RewritesInv`: the library keeps its type when others withdraw from
it, `Prepared` (between the runs the results of the old queries are those of the
copy), `Numbered` (generations have no more digits than are written, and the cursor's
OFFSET is a natural), the candidates and the anchors. The pages have an invariant of
their own, `PagesInv`: a withdrawal writes no lineage group, so a plain library stays
plain, and so does its copy. Assumptions are `RewriteAssumption`
alone: tables are finite, generations fit in `Width` digits, and so does the
distance the late cursor goes back.

`McpSessionProofs` proves, for any set of sources, any size of a page and length of a
citation, any number of faults and of transactions of other processes:

- `Typed`: `Spec => []TypeOK`
- `Matched`: `Spec => AnswersMatch`
- `ExactPages`: `Spec => []PagesAreExact`
- `Verdicts`: `Spec => []CleanVerdict`

The invariant (theorem `Invariance`) is `TypeOK` with eight parts. `Requests`, `Replies`
and `Quiet` say that one request is in flight, behind at most one notification: it waits
for the server, is being answered, or is the one line in the client's pipe, and between
two steps of the script there is nothing. That is why no client can take an answer for
another one, checked or not. `Library` says that whoever reads later reads the same
or a library with more commits (`Since`). `Paging` and `Listing` say what the pages read so
far hold: the sources up to the cursor that were there all the time, and exactly those of
the start unless an answer came from elsewhere. `Verdicts` is `Ending` with these: an answer
from another library leaves a commit behind it, and the version read last in
the second snapshot would show it (`Snapshots`). Counts, hashes and metadata alone would not.
What a script does at which step is a lemma (`AllScripted`), since the scripts are put
together from parts of different length; for instance no snapshot is begun after the
first call, and the only call for sources lies before the read-only comparison.
A page is the rows in order after the cursor (`PageRows`), and pages
continue one another (`PageFollows`), for which the order of a finite set has to exist
(`Ordered`). That is an induction on its size, made of the least counterexample: the library's
theorem on minimal elements of well-founded relations takes a set, not an operator.
`InOrder` is a choice for this reason; the sorting operators of the community modules are
defined by a fold with a recursive local definition, which cannot be unfolded in a proof.
The proof found a flaw in the model, since corrected: two guards of the `CASE`
that remembers the evidence overlapped, so its value was not determined for a failed
answer of another tool. TLC had always taken the first.
Assumptions are `McpAssumption` alone.

`WindowsProofs` proves, for any finite set of questions and of limits, any workers, any
number of windows, items per window, claims per item, commands and faults:

- `WindowsSane`: `Spec => []Sane`
- `WorkBeginsInActiveWindow`: `Spec => ClaimsInActiveWindow`
- `TypesHold`: `Spec => []TypeOK`
- `SettledForGood`: `Spec => SettledStays`

None has a condition: they hold also where a question has two open items.
`Sane` is the inductive invariant. `Tables` are the types of the tables. `Shut`: the job of a window that is not active is neither queued nor running,
which is what keeps its items from `claimnext`, that only looks at the job; closing
refreshes the job, and the projection of a closed window's job leaves those states
whatever recovery and failed attempts put back into its queue (`JobState`). `Fits`: a window has
no more items than its `room`, which a window continued past its deadline no longer
has. `Tried`: who owns an item has claimed it. `Passes`: the pass of a worker has
an item, and an answer, that exist. `WorkBeginsInActiveWindow` follows from `Shut`.
`SettledForGood` is read off each step: only a decision with a current fence, thus of
an open item, writes a task without looking at its state.

The transactions are compositions of operators, so the argument is made of
relations between two databases that compose: `Calm` (items keep jobs and holders,
nothing becomes open, no window gets room, no attempt is counted), `Settles` (what becomes of
settled tasks and of those with an open item), `Adds` (what a dispatch adds), and
`Reach`, which every action is (`NextMoves`). A dispatch is an induction over the tasks it has
chosen: `Course` says that a task whose turn has not come is still pending, or was
sent in the place of an older one. An induction over the steps of a run of
unknown length is made of the least step that fails, as for `McpSession`.

Nothing is proved of `OneOpenItem`: it is false (finding 8). Assumptions are
`WindowsAssumption` alone.

For this proof the census and the dispatch were rewritten: `Enqueue` takes the set of
questions a census finds, and `Sent` is a recursive function over the list, where both were
folds of the community modules, whose recursive local definitions cannot be unfolded
in a proof.

Only model-checked are the liveness properties of all runs, which are out of the
prover's reach because it does not reason about fairness and `ENABLED`.

## 5. Findings

Runs `correction`, `refilled` and `dispatch` are ones that TLC must find violated.

1. `CorrectionIsLast`. "Once requested, a failed correction cannot trigger
   another paid retry" (`ragwork.crexx:358`). Lease recovery does not know this
   rule of `failattempt`; a worker that stops between settlement and
   `failattempt` gives the item a third paid call.

The following were seen while modelling, in the same models and by the schedules
described. Runs show 7 and 8; the others are recorded without one.

2. A call without a reservation ("A worker reserves provider usage",
   `docs/architecture.md:364`). The receipt is read twice outside a transaction,
   once to decide on the reservation (`ragwork.crexx:695`), once to decide on the
   call (`ragapplicationprovider.crexx:146`). If the original attempt settles a
   failed answer in between, the call is made without a reservation.
3. More calls than the budget ("releasing an expired reservation does not make
   that allowance free again", `docs/receipt-recovery.md:87-89`). A call whose
   reservation expired and whose late answer is stored but not settled is
   counted neither as pending, unknown nor measured.
4. Two runs for one call ("incurred usage is accounted once",
   `docs/recovery-implementation-plan.md:185`). A lapsed worker may adopt its
   successor's answer at the second read and settle it under its own
   reservation.
5. An index filed under a generation it was not built for ("The file retains its
   actual build generation and checksum", `docs/architecture.md:1230`). A build
   reads the published generation when it starts (`ragembedding.crexx:243`) and
   writes it into the index; `_preparesidecar` reads it again
   (`ragbackup.crexx:176`) and files row and name under that. A generation
   published in between leaves a row whose bytes name another generation, which
   retrieval refuses and which, being clean, is not rebuilt.
6. A retry that cannot install ("retry job run", `ragproduct.crexx:1082`). The
   name of a sidecar is a digest of its content. A process that stops between the
   copy and the commit of its row leaves the name taken, and a retry over the
   same members fails at `ragbackup.crexx:185`.
7. An empty pool that does not probe ("With zero live workers exactly one
   reserved replacement becomes the probe owner", `ragenvironment.crexx:86-87`; run
   `refilled`). A
   controller that fails with reservations it has not launched leaves their rows
   `starting` (it ends its own row only, `ragprocess.crexx:854`); a later controller of the job counts them
   as live workers (`ragsupervision.crexx:48`) and does not fill its empty pool
   once the provider has failed: the item stays queued.

8. Two open items for one question ("Active items remain exclusive in both cases",
   `ragbacklog.crexx:417-418`; run `dispatch`). `_dispatch` chooses its tasks before it sends them.
   An older task whose evidence has changed gives way to its successor, which is
   sent; the successor is next in the list and is sent again, for the guarded
   update of its state changes no row and is not checked. Both are pending when
   the older one had failed at its limit, its successor was enqueued, and a
   retry, or a window with a higher limit, revived it. The next attempt number of
   the task then exists, and each checkpoint that dispatches it rolls back. Two workers
   may settle the question, and the second may use the answer the first has used.
9. A settled extraction repeated ("Reconcile their task outcomes",
   `ragbacklog.crexx:1373`; "unchanged evidence and interpretation do not create
   an endless paid reconsideration loop", `docs/autonomous-maintenance.md:212-213`).
   `_closewindow` returns a dispatched task to pending if any of its items in the
   job was cancelled, although a later one still runs (pause, continue, deadline).
   When that one is processed nothing reconciles the task, and it is dispatched
   again. `SettledStays` does not speak of it: such a task was never resolved.
10. An answer that cannot be used and cannot be failed. A stored answer left by a
   worker that stopped is reused by the next claim (`ragwork.crexx:682-695`); if
   it does not validate, the pass ends in an error without `failattempt`, and
   recovery requeues the item whatever its attempts, because a response exists.

Two further disagreements are recorded without a run.
`docs/autonomous-maintenance.md:266-269` says that recovery of an uncertain call
pauses its job; `ragwork.crexx:60` holds only the item. And
`docs/receipt-recovery.md:6-7` says attempt limits stay effective, while recovery
requeues an item that has any stored response whatever its count: with a settled
transport failure that is one attempt more than the limit.

## 6. Not modelled, and the plan

Next, in this order:

1. Task-level replay families and a second retry policy in one queue, in
   `Windows`; its other exclusions are listed in section 2.
2. `External` (`ragreceipts`): managed turns of an external runtime and their
   reconciliation against cancellation and recovery.

Still open in modelled components: renewal of allowances (one transaction made
idempotent by its key), the retry baseline of a job reset, semantic-failure
escalation and cached maintenance outputs in `WorkQueue`; two retry policies in
one queue; several embedding profiles, backups (`ragbackup`), pinned read
snapshots and `ragpolicypublication` in `Publication`.

Not planned, because they are sequential data transformations without shared
state of their own, or generated text: ingestion and normalisation, grounding
and claim rules, ranking of retrieval, report projections, configuration
parsing, prompts, commands other than those above and the wire protocols of the
providers. Of `docs/qa`, `inventory.py` and `measure.py` of
`sql-performance-review-20260913` are left out: the first lists SQL statements
by regular expressions, the second times the queries of a copy.
