# AIBI-C: verification of the durable data plane

AIBI-C is a local analysis workbench. A browser talks to an HTTP gateway (TypeScript), which
sends commands to long-lived Python processes and spawns a worker process for every import. The
durable state lives in two stores that have no common transaction: a SQLite database (jobs,
journals, leases, source runs, active versions, reviews) and a DuckDB file (the views that answer
queries), beside files named by their content. Most of the program is sequential code over the
contents of these stores. What is hard is what several processes do to them at once, and what a
crash leaves behind; that is what this project models.

The modules are written from the source under `src/`; `PROJECT.json` names, for every definition,
the lines it stands for.

## Inventory

### Parts and how they interact

```
browser: widgets, query cache, keys of requests
   │  HTTP: token, idempotency key
gateway (server/index.ts, routes): table of answers by key
   │  DurableJobRuntime: import queue, worker processes
   │  RuntimeHostPool: one writer process, several readers
   ▼
Runtime Host processes (tools/aibi_runtime_host.py), one command at a time each
   │                       worker processes (aibi_cli.py import-job-run)
   ▼                       ▼
SQLite: analysis_jobs, import_workspace_leases, source_activation_journals,
        source runs, dataset versions, ...      workspace mutation lock (a file)
DuckDB: replica manifest and published views
files:  Parquet objects, recovery points, receipts, SQL Server snapshots
   ▲
offline commands (scripts/backup-local-data, restore-local-data), under the same lock
```

| part | state it keeps | operations | what is hard | what makes it correct |
|---|---|---|---|---|
| Durable job table (`job_runtime_service.py`) | one row per job: status, progress, error | create, `transition_job`, `update_job_progress`, `request_job_cancel`, restart recovery | every caller reads the status before it writes it | terminal states stay; a transition is one the table allows; progress does not go back |
| Activation journal and import lease (`source_activation_journal_service.py`) | per job: phase, target run, rollback manifest; per workspace: lease token, epoch, active | claim, assert, release, revoke; prepare, transition, capture, restore, reconcile | two stores moved by one journal; a lease outlives its process | reconciliation can always prove commit or rollback; one unfinished journal per workspace |
| Import worker and recovery (`import_job_service.py`) | a process with a token and an epoch; the mutation lock; an open SQLite transaction | create, run, cancel, resume, process-exit, recover | crash at any point, cancel at any point, recovery while the worker still lives, DuckDB commits inside an open SQLite transaction | the import is atomic for readers; a fenced worker writes nothing |
| Source deletion and layout (`source_management_command_service.py`, `bi_cli_dashboard_commands.py`) | the same journal, with branches of their own | `delete_source`, `create-index` | they prepare outside their transaction and take no import lease | a deletion and an import do not undo each other; what is still read keeps its file |
| Dataset versions and retention (`dataset_version_store.py`) | versions, objects, active pointer | publish, activate, collect | collection against a pinned or restored version | no object that is named is collected |
| Gateway import queue (`durableJobRuntime.ts`) | workers map, `activeImport`, `pendingImports`, timers | start, resume, cancel, shutdown, close events, retries | every `await` lets the owner, an exit or a timer in; answers are stale; commands fail | one import at a time; no queued job forgotten; every one gets its turn |
| Runtime Host pool (`runtimeHost.ts`, `aibi_runtime_host.py`) | request queues, the writer's recovery generation, reader barrier | request, deadline, restart, reconcile, shutdown | a killed command may have committed; readers against writers | no reader overlaps a write; nothing runs on an unreconciled writer; every request ends |
| Workspace recovery points (`workspace_recovery_service.py`) | points, tombstones, a journal per restore, receipts, fences | create, restore, delete, reconcile | a crash between two stores, or between a store and its journal | the old or the restored workspace, or a fence |
| Workspace lifecycle and deletion (`workspace_command_service.py`) | a receipt with a stage, an audit point | create, rename, select, delete, reconcile | five removals in two stores and on disk, each interruptible | nothing is removed before the audit holds it; the deletion completes |
| SQL Server activation (`sqlserver_snapshot_*`) | catalog, plan, staging directory, receipts | discover, plan, snapshot, activate (an import job), finalize | a long read that dies; finalization after the job, by several callers | what was confirmed is what was read and what was imported |
| Reviewed publications and evidence ledger (`confirmed_query_service.py`, `reviewed_publication_service.py`, ...) | receipts, units, confirmed queries and memories, publications, hash-chained ledgers | ask, confirm, recall, publish, evaluate, deprecate | drift of what was reviewed; checks outside the transaction that uses them | one confirmed answer to a question; what is current was reviewed as it is; ledgers only grow |
| Local data snapshots (`scripts/local-data-restore-transaction.mjs`, `restore-local-data.mjs`, ...) | a restore journal, candidates, a safety copy | backup, restore, recover | a crash between two renames; an undo that is itself interrupted | torn data are always covered by a journal and a safety copy |
| Browser delivery and query cache (`apiMutationClient.ts`, `dashboardWidgetQueryRuntime.ts`), gateway boundary (`server/index.ts`) | keys of unanswered requests; the gateway's table of answers; cached results | send, repeat, replay, expire; subscribe, batch, invalidate | lost answers; a query that overlaps an invalidation | an action repeated until answered runs once; no result older than what the page knows |
| Agent sessions, turns, confirmations | sessions, turns, action drafts | turn, confirm, reject | a confirmation after the state it was drafted for has changed | an action runs once, on the state it was confirmed for |
| Semantic query, metrics, relationships, formulas | definitions in SQLite | plan, validate, execute | the data, not the control | not modelled: sequential computations over data |
| Dashboards, exports, schema, other routes, verification scripts | presentation, DDL, tests | – | – | not modelled |

`PROJECT.json` lists the twenty components with their sources and status, and the hazards of
this code at the lines where they bite.

### Status

Modelled: the import worker with its cancel, resume, process-exit and recovery commands over the job
table, journal and lease it uses; the deletion and layout of sources beside it; the gateway's import
queue and its pool of Runtime Hosts; workspace recovery points; the staged deletion of a workspace; SQL
Server snapshots and their activation; the reviewed evidence, from a receipt to a publication's ledger;
offline restores; the delivery of a browser's request and the cache its dashboards read through. What is
left out is under "Not modelled".

## Modules

| module | models | extends / instantiates |
|---|---|---|
| `JobRuntime` | the job table: statuses, allowed transitions, progress, cancel requests | |
| `ActivationJournal` | journal rows, import lease, SQLite pointers, DuckDB manifest, the verdicts of `reconcile_activation` on imports | `JobRuntime` |
| `ImportActivation` | worker processes, owner requests, crashes and recovery over those rows; its properties | `ActivationJournal`, `AtomicImport` by refinement |
| `AtomicImport` | the abstract specification: an import happens at once or not at all | |
| `ImportInvariant` | the inductive invariant `IInv`, in named parts | `ImportActivation` |
| `SourceManagement` | deletions and layouts, their journals, undo handlers and reconciliation, versions and objects, beside the imports | `ImportActivation` |
| `DurableJobQueue` | the gateway's queue: continuations between awaits, workers' processes, retries, shutdown; its properties | `JobRuntime` (its transition table) |
| `RuntimeHostPool` | the writer's and readers' promise chains, barriers, generations, recovery, deadlines, shutdown | |
| `WorkspaceRecovery` | recovery points, restore journals, tombstones, objects; create, restore, delete and reconciliation | |
| `WorkspaceDelete` | the staged deletion of a workspace, its receipt, audit point, collection and reconciliation | |
| `SqlServerActivation` | catalog, plan, snapshot staging and receipts, activation by an import, finalization, gateway starts | |
| `ReviewedEvidence` | receipts, units, confirmed queries and memories, publications, ledgers and their evaluation | |
| `LocalRestore` | the offline restore transaction, its journal, candidates and safety copy, its retries and recovery | |
| `MutationDelivery` | a POST from the browser to a handler and back: keys, tokens, the gateway's table of answers | |
| `TableQueryCache` | dashboard widgets, their batches, cached results and invalidation | `MutationDelivery` |
| `SourceInvariant` | the inductive invariants of `SourceManagement`, in named parts | `ImportInvariant`, `SourceManagement` |
| `MC*` | small instances for TLC | the module after `MC` (`MCImportActivation`: `ImportInvariant`; `MCSourceManagement`: `SourceInvariant`) |
| `ImportActivation_proofs` | theorems about `ImportActivation` | `ImportInvariant` |
| `SourceManagement_proofs` | theorems about `SourceManagement` | `SourceInvariant`, `ImportActivation_proofs` |
| `Gateway_proofs` | theorems about `RuntimeHostPool` and `DurableJobQueue` | both |
| `Receipts_proofs` | theorems about `ReviewedEvidence` and `SqlServerActivation` | both |
| `WorkspaceRecovery_proofs`, `WorkspaceDelete_proofs`, `LocalRestore_proofs`, `TableQueryCache_proofs` | theorems about the module before `_proofs` (`TableQueryCache`: and about `MutationDelivery`) | that module |

Operators whose comment says "Faulty variant of" are not part of a model: each is a plausible bug of
the definition it follows, kept to show which property would notice it.

### `ImportActivation`

A step is one SQLite transaction of one process. The transaction that activates an import is open
while DuckDB is published, and DuckDB commits every table on its own, so it is split: `BeginActivation`,
one `PublishReplica` per table, `CommitActivation`; `dbLock` is SQLite's write lock meanwhile and
`fileLock` the workspace mutation lock. `pc[w]` names the stretch of `import_job_run_command` a worker
has reached. The exception handler is modelled with its holes: it reads the job before its
transaction (`ReadOutcome`), it is fenced only if the process had claimed (`RollBack`, `RollBackFenced`)
and otherwise runs step by step with no lease (`InspectJournal`, `UndoReplica`, `SettleUnfenced`), and a
transition that raises loses its SQLite part and not its DuckDB part (`RollBackRaises`, `SettleRaises`).
`Crash` ends a worker anywhere; `RollBackCrash` and `RecoveryCrash` are the deaths between DuckDB's commit
and SQLite's.

Commands of the Runtime Host take the exclusive boundary (`execute_command`), which is the mutation lock
too: `BoundaryFree` is that no worker holds it. No cancel or recovery lands while a worker does, so the
worker's own look for a cancellation before its commit never finds one and is not modelled.

Abstractions: one workspace; a source run is named by the worker that staged it; a table's version is
the run that wrote it; the plan fingerprint is the parent source run and the fault `inputDrift`. The
statuses of other job kinds, event rows, labels and error texts are left out. The write lock is waited
for, not timed out (`busy_timeout` expiring is the same as an error, which each step may raise).

Faults are a constant, so that every run says which it assumes: `inputDrift` (an input changed),
`boundaryDenied` (the mutation lock is not obtained), `restoreError` (a DuckDB rollback raises),
`duplicateLaunch` (a second process for a job that still has one: a command line, or a gateway that
restarted while its worker lived). Crashes and concurrent recovery are always possible.

### `SourceManagement`

Extends the import with one deletion or layout at a time, `mpc` its place and `upkeep` its journal row. A
deletion (`delete_source_command`) shares the boundary, a layout (`execute_index_plan`) holds it; neither looks
for an import lease. Both journal, publish in DuckDB, switch in SQLite and finalize, with their own
handlers, and die between any two steps; reconciliation has one branch for each (`ReconcileStores`,
`CommitUpkeepProven`). `catalogue[t]` are a table's versions, `objects` the files; `ObjectOf` lets two
versions share one, which is what makes collecting them delicate.

Abstractions: an import has exactly one table (`OneTableAssumption`: one without a source run is refused,
`import_job_service.py:803`, and a folder import gives each table a run of its own); cancels are left out while a deletion runs, with which they commute; renaming, which changes labels,
is not told apart. The workspace is one, but table keys come from file names (`import_command_service.py:76`) and
another workspace may use the same: `SharedKeys` are such tables, `Elsewhere` is the run that workspace has
under the key, and `LatestRuns` what the deletion's lookup, which names no workspace, may select. That a
collection spares recovery points is in `WorkspaceRecovery` and `WorkspaceDelete`.
`ManagerFaults` are two failures the passing run leaves out (see Divergences).

### `DurableJobQueue`

The gateway is one thread; a step is what it runs between two awaits. Each pending await is a record in
the bag `calls`: a command sent, a command answered (it took effect earlier, so the answer may be stale)
or a timer. `ReadStatus` is the moment a `jobs --job` lookup reads the table, `Claimed` and `Inspected` the
moment its answer is handled. Workers are processes with their lease token; what their import does to
the stores is `ImportActivation`'s, here it ends the job with any status the transition table and the
lease allow.

Abstractions: one life of the gateway; retry counters and delays (they scale a timer that may fire at any
time); source intelligence jobs (they never enter the queue); a reconciled worker is reused as a fresh
one, so `Worker` bounds processes at a time, not in all. `Recovered` never finds a live job whose import was
committed, because commit and success are one transaction (`SuccessIsActivation`). A handler whose
request was accepted may still reach the queue after `ShutdownQueue`, although the server waits for it; the
queue's own early returns cover that, and no property depends on it. An owner's request whose answer is
lost after it took effect is not modelled: the job it created or resumed waits in the job table until the
owner repeats the request.

Faults: `callError` (a command the queue sends fails or its answer is lost), `hostRestart` (the Runtime Host
restarts its writer and runs `import-job-recover --all`), `workspaceSwitch` (another workspace is selected),
`ownerRacesQueue`. Without the last one, an owner has one request about a job at a time and a cancel or
resume is handled when the queue awaits nothing about that job. That is an assumption on the owner and
not a guarantee of the code, so it is no guard of an action: `OwnerInTurn` and `AnswerInTurn` restrict the steps of
`Owner` and `Answer` that the specification takes. "Divergences" says what happens without it.

### `RuntimeHostPool`

A request is in one of a few states; `awaits[t]` is the set of unsettled requests it is chained behind, which
is all a promise chain says. `Enqueue` chains a write behind the writer tail and every reader tail and
leaves a new barrier, a read behind one reader tail and the barrier of the day; `Begin` is the moment its
turn comes. The writer has generations: a death or a deadline ends one with any of its command's effects
done; `ensureRecoveryReady` chains a recovery (`Recovery`), which closes the journals kind by kind. `Shutdown`
rejects what is in flight. A process answers or dies; nothing else is assumed of it.

Journals open and close beside the pool (`JournalOpens`, `JournalCloses`), at any moment: under the write that runs,
whose handler may raise and is answered all the same by a process that lives on (`WriteAnswered`), in import
workers and in command lines. When a writer process is started, what is open becomes `inherited`; that is what the
pool reconciles, and all it knows of. `"diverged"` stands for journals a reconciliation can decide neither way.
A command still meets the fence of an open restore or deletion behind its lock (`dispatch.py:80`); the fences are
`WorkspaceRecovery`'s and `WorkspaceDelete`'s.

### `WorkspaceRecovery` and `WorkspaceDelete`

A workspace is a version in SQLite and one in DuckDB; the fingerprint a plan compares is the pair. One
command runs at a time, under the cross-engine lock, and `at` says where it is: each write of a store, a
point, a receipt or a journal is a step, the command may die before any of them, and `_apply_point` may
fail. `ReconcileStarts` is the start-up command, which goes through every open journal and prepared delete
(`todo`). An import may claim the workspace between commands.

`WorkspaceRecovery` has create, restore and delete of points with the collection of objects; `undone` are
the completed restores a later reconciliation set out to restore again (see Divergences), for which the
properties promise nothing. `WorkspaceDelete` has the staged deletion: publications tombstoned, an audit
point published, bindings dropped, rows deleted, objects collected; its receipt's stage, and the
reconciliation that resumes from it (`resumeFromStatus`). Manifests, hashes and fsyncs are left out: a file is
there or is not.

### `SqlServerActivation`

`Discover`, `DrawPlan`, the snapshot (`ExecuteConfirmed`, its reads, `Seal`, its receipt), `Activate`, which binds a
job to the sealed content, and the finalization, called by the gateway that launched the job (`FinalizeJob`) and for all
jobs at each start (`Starts`, which waits while one of them fails). Imports keep `AtomicImport`'s promise: a
job succeeds and is the current source run, or changes nothing. `source` is the remote side: its contract
and its tables change as events; `MaxEvents` bounds those with deaths and failed calls.

### `ReviewedEvidence`

A receipt stands for the question asked, the run and pack it was answered under, and the fingerprint of all
of that. Queries and memories are rows that point at a receipt and have a status (candidate, confirmed,
deprecated, stale); a publication is of a memory and a unit; `ledger[p]` is a sequence whose entries carry the
hash of the one before. Commands that do not exclude others are split between what they read and what
they write: `listing` is what a `confirmed-queries` has found drifted, `attach` the asks that still owe their
unit. `EffectiveStatus` is `evaluate_reviewed_publication`.

### `LocalRestore`

A command is a sequence of steps under the lock: recovery of every open transaction first (`Scan`), then a
backup or a restore. The content of a component is its generation and its form, as two copies of the
same generation need not be the same bytes and hashes are what the journal compares. `IOFails` ends a copy, a
rename or a removal, `WriteFails` a write of the journal, and the code's handlers decide what follows; `Crash`
ends the command.
`AppWrite`, external, is the application between commands, which may read and write whatever is live.

Abstractions: at most one transaction is open, since every command begins by recovering; the terminal
cleanup that fails is tried again within the same scan; the error `commitRestoreTransaction` throws after a
retry whose phase is not terminal is unreachable.

### `MutationDelivery` and `TableQueryCache`

A call is one `fetch`: `client` is what the browser knows of it, `server` where its handler is, `answer` what
is on its way back. A body stands for its fingerprint; the key of a body is kept in session storage until
an answer is parsed. `entries` is the gateway's table, with its expiry, its reclaim of the oldest, its capacity
and the waiting of a second request on the first. `Respond` is a handler that answers, in which its command
may have been refused; `Throw` one that fails outside the captured answer; `Restart` the gateway.

A batch of queries is a call whose body is a set of plans. `Render` re-subscribes every widget: whatever
renders a card in the application renders them all, so only the last batch has subscribers, and joins
across ticks and results overtaken by a newer version (`observedAt`) do not happen; they are left out.
The gateway does not stop a handler whose client is gone. A user who repeats an action waits for the last
call of it to end, as the page shows it busy: identical calls that overlap would let a late answer clear
the key of a later call.

## Properties and runs

Every run below passes. A run that reads "fair" checks a property that something happens; the fairness is
under the next heading.

| run | instance | properties |
|---|---|---|
| `import_faults` | 2 jobs that share one of two tables, 3 workers, `inputDrift`, `boundaryDenied`; 480,000 states | `CatalogAgreesWhenSettled`, `PreviousOrTarget`: DuckDB and SQLite agree once settled, and readers see an old or a staged version before; `RecoveryNeverBlocked`: reconciliation can prove commit or rollback; `SuccessIsActivation`; `FencedWorkersAreInert`; `ImportIsAtomic`: refinement of `AtomicImport` |
| `import_settles` | 2 jobs, 2 workers, one table, `restoreError`, `duplicateLaunch`, fair; 130,000 | `RunningJobsEnd`, `ActivationsSettle`: every job that runs ends, every journal is finalized |
| `source_management` | 2 imports of separate tables, 2 workers, 1 layout, 3 commands, an object two versions share, a key another workspace uses, `inputDrift`, `boundaryDenied`; 740,000 | `StoresAgreeOnceReconciled`, `RetainedObjectsExist`, `CurrentRunIsOfATable`: the parent run imports are planned on is the latest under the key of a table that exists |
| `queue_holds` | 2 jobs in 2 workspaces, 2 processes and 2 owner requests at a time, all faults but `ownerRacesQueue`; 820,000 | `OneImportRuns`: no second import process; `QueuedJobsAreHeld`: no queued job is lost between awaits; `PendingBehindActive`: no job waits behind an empty reservation, or twice; `RunningJobsKeepTheQueue`: the queue never moves on past a running import |
| `queue_turns` | 3 jobs of a workspace, 1 request at a time, no faults, fair | `QueuedJobsGetTheirTurn` |
| `host_pool` | 2 writes, 1 read, 1 explicit reconciliation, 1 recovery, 2 lanes, depth 2, 2 starts of the writer, 1 kind of journal at a time, fair; 240,000 | `ReadersExcludeWriter`; `ReadyMeansReconciled`: nothing trusts a store that has what was open at the writer's start; `ReadsKeepTheOrder`, `EveryRequestEnds` |
| `workspace_recovery` | 1 create, 1 restore, 1 delete, 2 changes, 2 crashes, 2 failures, fair | `TornIsFenced`, `ReferencedObjectsExist`, `RestoreEndsWhole`, `ImportsOwnTheStores`, `FencesLift` |
| `workspace_delete` | 3 changes, 3 crashes, 3 failures, fair | `AuditBeforeRemoval`, `TornDeletionIsFenced`, `PointsKeepTheirObjects`, `DeletionCompletes` |
| `sqlserver_activation` | 1 plan, 2 activations, 1 other import, 2 reads, 2 events, fair | `ActivationIsProven`: catalog, artifact, import and receipts are of the same content; `SealedStays`; `CommittedIsFinalized` |
| `reviewed_evidence` | 2 receipts of one question, 2 tables, 2 packs, 1 import after the first; 960,000 | `ConfirmedAnswersAgree`, `CurrentIsReviewed`, `AuditedForGood` |
| `local_restore` | 1 restore, 2 writes of the application, 1 crash, 2 failures, fair; 850,000 | `TornIsRecoverable`, `RestoreEndsAsReported`, `RestoresSettle` |
| `web_client` | 2 widgets, 2 plans, 1 change, 3 calls, 1 failure, 2 entries in the gateway's table; 1,060,000 | `OncePerIntent`, `ShownIsAcknowledged` |

### Why the bounds are enough

- Import: three workers are a worker, its successor after a recovery, and a worker of the other job; two
  tables of which one is shared give a half-published replica and two imports that conflict on one table
  and not on the other. Every job goes through at most as many activations as there are workers, and a
  worker is not reused, so the state space is finite without a counter.
- Source management: two imports and three commands let an import cross a deletion before its journal and a
  layout afterwards; what takes a fourth is told under Divergences. Two versions of one object are the case
  the collection has to see.
- Queue: three jobs (`queue_turns`) are the active one, the head of the queue and one behind; for what a
  single step may lose, two of different workspaces suffice (`queue_holds`). `MaxRequests` bounds the
  requests being answered at a time; the bag of calls is then bounded by the processes and the queue's own
  continuations. A second overlapping request is where a create meets a cancel of another job. A third
  process could only follow a violation of `OneImportRuns`.
- Host pool: depth 2 is where the third request is refused; two writes around a read give it a writer to wait
  for and one that must not overtake it; two starts are a generation and the one that inherits from it. One kind of
journal is open at a time, any of the four: the kinds do not act on one another, each is closed by a command of
its own, and the theorem has them all at once.
- Recovery and deletion: two crashes are one in a command and one in the reconciliation of it, with a
  failure in either; a create, a restore and a delete are the three users of an object. The deletion has a
  third of each, for a reconciliation that is itself interrupted and fails.
- SQL Server: two activations of a plan and another import give every order of commit, supersession and
  finalization; an event is a change of the remote side, a death or a failed call.
- Evidence: two receipts of a question suffice for a replaced candidate, a superseded memory and a
  publication whose unit is another receipt's; longer chains repeat these pairs.
- Local restore: two failures are one in the restore and one in undoing it. While it was developed it was
  also run with two crashes (2.7 million states), and with two restores and one crash, write and failure.
- Web client: three calls are a query, a change and the query again, or an action and two repetitions; two
  entries are a table that is full.

Symmetry is used for interchangeable workers, receipts, tables, plans and widgets, and only in runs
without a liveness property over them. Deadlock is not checked where the system may come to rest (queue,
pool, and the modules whose events are bounded).

### Fairness

- Import: a live process is scheduled (`WF` of `WorkerStep`) and the gateway sends process-exit for every
  process it saw close (`WF` of `ProcessExit`); a crash is never fair. `RestartSpec` adds that the Runtime Host
  starts a writer again and again and thereby recovers (`WF` of `Recover`). It is needed: when the
  finalization of a committed journal fails and another worker claims the lease before the exit is
  reconciled, that exit reconciles nothing and only the next writer start finalizes the journal.
- Queue: commands answer and timers fire (`WF` per kind of answer and job); every process ends (`WF` of
  `WorkerCloses`); and `SF` of a job's claim, because a process does not for ever die before it claims a lease
  that is free. Owner requests, faults and successful ends of an import are not fair.
- Host pool: every command has a timer and every promise a continuation: `WF` of what happens next to a
  request (`Advance`: an answer or a death) and of a cleared call's way into a chain.
- Recovery, deletion: a command that runs goes on (`WF` of `Step`), and the gateway is started again, which
  reconciles (`WF` of `ReconcileStarts`). Nobody has to issue a command.
- SQL Server: `WF` of `Step` (a snapshot has a time budget), `SF` of `Starts` and of the gateway's call
  (`FinalizeJob`), which wait for a lock others take and release.
- Local restore: a command that runs goes on, and somebody runs a backup or a restore again
  (`WF` of `StartCommand`), which is when `src/README.md:43` promises that the journal is dealt with.
- Evidence and web client: none.

## Divergences

Where the code and its documents part, or where a property only holds with an exception, this is what the
models show. The exceptions are in the properties' text; the faults that lead elsewhere are constants a
configuration can turn on.

Imports and sources:

- With `duplicateLaunch`, the failure handler of a process that never claimed the lease rolls DuckDB back from
  the journal of the process that holds it (`import_job_service.py:963`), which then commits:
  `CatalogAgreesWhenSettled` fails, and the journal stays open for good, an end that `ActivationsSettle` excepts.
- The claim sets progress 5, which `transition_job` refuses for a job that had got further (`:626`): an
  import interrupted after its preparation fails when it is resumed.
- A job whose cancellation was requested can end failed or succeeded, where the documents give it one way out.
- A deletion takes the workspace lock and looks for no import lease
  (`source_management_command_service.py:212`). A worker between its plan check (`import_job_service.py:645`) and
  its journal then prepares over a parent run that is gone, and reconciliation answers
  `source-selection-diverged`: with two imports and two deletions around them `RecoveryNeverBlocked` fails in
  `SourceManagement`, against `docs/implementation-status.md:43` and `docs/trusted-capability-absorption.md:168`.
- With `restoreError`, the failure handler of a worker that has no lease reads a manifest, and goes on to restore it
  after recovery has closed the journal: with one table, three workers and one command, TLC finds a
  table served from a version SQLite no longer names (`StoresAgreeOnceReconciled`). Two workers do not suffice,
  so `source_management` leaves `restoreError` out rather than pass with it by its bound.
- With `repeatLayout`, a layout repeated from the command line over its own open journal captures as rollback
  material the version it had published (`bi_cli_dashboard_commands.py:668`). With `finalizeError`, a layout
  whose last journal write fails is committed in both stores and undone in one by its handler.
- A deletion selects the next current run by the key of a table that is left, with no filter on the workspace
  (`source_management_command_service.py:335`), where the runs it deletes are filtered (`:285`): if another workspace
  uses the key and has imported it later, its run becomes current here. Queries then answer
  `current-source-run-not-found` (`trusted_query_service.py:119`) until the next import. `CurrentRunIsOfATable`
  allows it for tables in `SharedKeys` and for no other.
- `delete-source`, `rename-source` and `job-cancel` run under the shared boundary (`dispatch` calls
  `command_semantics` without the parser); the gateway's one writer keeps them apart. Two deletions from
  command lines may leave the workspace without a current run.

Queue, pool and requests:

- The queue looks jobs up in the active workspace: a queued import of another workspace is not found and
  dropped for good (`durableJobRuntime.ts:330`). `QueuedJobsAreHeld` names that case.
- Nothing keeps an owner's answer from landing between two awaits of the queue about the same job. With
  `ownerRacesQueue`, a cancel alone is enough (`:164`): handled while the job's exit is reconciled, it releases the
  reservation, the next job is launched, and if the first is resumed the late look at its status takes the
  reservation over (`:232`) and launches a second import (`OneImportRuns`); when that look fails, its retry does so for a
  canceled job while the next one runs (`RunningJobsKeepTheQueue`, `QueuedJobsAreHeld`). A resume alone does as
  much, and `QueuedJobsGetTheirTurn` fails too. For `PendingBehindActive` TLC found no violation in 19 million states,
  which is not all of them.
- The pool's health says recovered (`runtimeHost.ts:243`) while a journal is open that was opened under the same writer
  process: by a deletion or a restore that raised, whose error is an answer (`aibi_runtime_host.py:82`), or by an
  import worker. `ReadyMeansReconciled` speaks of what the writer process found at its start. A restore or a deletion
  is fenced until then (`dispatch.py:80`-`104`), an import journal is not: readers meet it as `PreviousOrTarget` says.
- `import-job-recover` answers ok over a journal it can decide neither way, if no job of it is left that needs
  attention (`import_job_service.py:1108`-`1121`, `:1181`), and the pool then reports itself recovered: `"diverged"`.
- A writer that is refused for want of room has by then replaced the reader barrier
  (`runtimeHost.ts:256`-`291`): a read that follows may run beside the writer ahead. `lostBarrier` is that
  case, and `ReadersExcludeWriter` and `ReadsKeepTheOrder` end there.
- The gateway forgets a key when the handler throws, a quarter of an hour after its answer, to make room, or
  when it restarts; a repetition is then executed again, against `docs/PRD.md:109`. `OncePerIntent` excepts
  forgotten keys. After a restart the page's token is refused until it is loaded anew, and that refusal
  also clears the key.
- A query is a POST with a key. One that is aborted by a re-render, an invalidation or a change of workspace
  keeps its key, and the same batch asked again is answered from the gateway's table with the old result, even after
  the import it was invalidated for. `ShownIsAcknowledged` excepts replayed answers.
- A widget whose query ends in an AbortError goes on loading until it is rendered again
  (`BiDashboardWidgetCard.tsx:125`), for instance when the refresh after an invalidation fails.

Recovery and deletion of workspaces:

- A completed restore journal is verified against the workspace at every later reconciliation
  (`workspace_recovery_service.py:1018`, `:1080`); after an ordinary change, the restore is set out upon again. `undone`.
- A safety point deleted by a half-finished delete leaves a restore that can be neither finished nor undone:
  the fence stays (`Stranded`).
- A crash between the removal from DuckDB and its receipt wedges a deletion: the reconciliation starts over
  from `prepared`, the preview refuses the drifted manifest (`:586`), and the fence, which keeps every workspace
  out, stays (`Wedged`). The repository's test of crashes (`scripts/verify-workspace-delete-audit.py:387`) puts them
  after the receipts only.
- A deletion confirmed while an import holds the lease is refused late and leaves a fence; a deletion
  repeated after its journal has stopped at `replica_published` fails until the next start.

SQL Server, evidence, local data:

- The history of a finalized activation is not replayed once its plan is read again or another import is
  current: the start that looks at it fails (`AllFinalize`).
- `docs/confirmed-plan-memory.md:55` has a query and its memory go stale together on any drift. A refresh lists
  without a transaction and updates without looking at the status: a query just deprecated becomes stale. The
  supersession of a memory has no filter on the table.
- An Analysis Unit may be stored for a receipt that has drifted, or a workspace that was deleted, since its check;
  `confirm-query` names only the query, so a candidate replaced in place is what gets confirmed; `confirm-action`
  does not look at the draft's status. `refresh_reviewed_publication_status` is called by no command.
- `agent-turn-run` holds the exclusive boundary, so `agent-turn-cancel` cannot land during the turn it is
  for; the turn's last update is unconditional.
- A restore may report success over a journal that was rolled back, when the last journal write and the one
  after it fail (`local-data-restore-transaction.mjs:474`-`505`); `RestoreEndsAsReported` allows one failure.
- The application never looks at restore journals: between a crash and the next command it may read a mix of
  two generations, where `src/README.md:43` says none is exposed, and what it writes then goes with the restore.
- A crash before `live-staged` leaves candidate files that no later command removes; the repository's test looks only
  at the components a journal names.

## Proofs

TLAPS proves the following for every value of the constants, from the named assumptions of the modules. In
every module `IInv` is the inductive invariant (`QueueInv` in `DurableJobQueue`, `SqlInv` in `SqlServerActivation`,
the parts of `SourceInvariant` for `SourceManagement`), a conjunction of named parts;
each theorem's comment states it in words.

`ImportActivation` (any jobs, workers, tables and plans):

- Whatever the faults: `TypeCorrect` (`TypeOK`), `VersionsSucceed` (`VersionsComeFromSuccess`: every version
  belongs to a succeeded job), `SwitchesAreOwned` (`SwitchIsOwned`: only the lease holder of a running job
  switches the source). They rest on `Ownership`: the activation transaction belongs to one worker, what it
  checked at its start stays true since nobody else can write, and every version was staged for a job that
  succeeded.
- Under `NoDuplicateNorRestoreError` (no second process for a job that has one, no raising DuckDB
  rollback): `InvariantHolds` (`IInv`), `CatalogAgrees`, `SuccessMeansActivation`,
  `ReadersSeePreviousOrTarget`, `RecoveryProves`, `FencedWorkersStayInert`, and `ImportsAreAtomic`, the
  refinement of `AtomicImport` as `Spec => Atomic!Spec`.

The condition cannot be dropped: with `duplicateLaunch` the unfenced handler breaks
`CatalogAgreesWhenSettled`, and with `restoreError` and `boundaryDenied` three workers break
`PreviousOrTarget`, because the journal stays open under a job that is no longer running.

None of the properties is inductive: that the stores agree when nothing is unfinished says nothing of what
an unfinished journal can restore. `StoreInv` adds what an open journal guarantees (`OpenCanRollBack`: nothing
switched, the rollback manifest is SQLite's versions, every table is old or staged by this job) and what a
committed one does (`CommittedIsServed`). That these stay true needs that nobody but the job's worker touches
them, which is the lease: `LeaseInv` says that a running job has the active lease (`RunningHasLease`), that a
live worker of a running job is its holder (`LiveRunningLeased`), what a leased worker may rely on at each
point of its program (`LeasedRuns`) and that a worker without a lease has nothing left to undo
(`UnfencedIsHarmless`). `Ownership` carries the open transaction. The refinement then follows: the readable
version, the DuckDB manifest with unfinished tables taken back, equals SQLite's versions, so every step
except the commit is a stutter or ends a job. The module proves the types, `Ownership` and the lease part
first, then the store part and the induction, then the step simulation.

`SourceManagement` (any jobs, workers, tables, layouts, objects and commands; one table to a job):

- Whatever the faults: `ManagementTypeCorrect` (`MTypeOK`) and `CurrentRunExists` (`CurrentRunIsOfATable`). The
  source pointer moves in the commit of an import and in the switch of a deletion, which may find another workspace's run
  under a shared key; `RunInv`
  adds that a worker which has not switched is named nowhere in SQLite (`FreshUntilSwitched`), so a commit brings a run of
  its own table and takes none away.
- Under `NoStoreFaults` (the condition above, and neither `repeatLayout` nor `finalizeError`):
  `StoresAgreeWithJournals` (`StoresAgreeOnceReconciled`) and `RetainedObjectsStay` (`RetainedObjectsExist`).

The invariant of the import does not carry over: `RecoveryNeverBlocked` fails beside deletions, so a journal may be open
under a job that does not run. In its place `BoundaryInv` says who may act on an open journal: whoever lives and
has one holds the boundary and the lease (`OpenIsHeld`), one journal of either kind is unfinished at a time
(`OneJournal`), and one whose job has stopped is one recovery cannot prove (`OpenRunsOrIsBlocked`).
`StoresInv` says what the journals and the two stores are to each other: every table but the journal's is settled, the journal's has
its rollback material in SQLite until the switch and its target in both after it (`ImportStores`, `UpkeepStores`),
and each place of a command is on one side of its switch (`CommandStores`). `FilesInv` then has the files:
every version that is served, that is in the catalogue or that an open journal can restore has its object, and so has one
a worker is about to commit (`StagedIsStored`), which no table names yet: it is kept because a collection and an activation
exclude each other by the boundary.

`RuntimeHostPool` (any requests, lanes and depth): `PoolInvariant`, `PoolExcludes` (`ReadersExcludeWriter`, and
the writer is sent one command at a time), `PoolReconciles` (`ReadyMeansReconciled`, for any generations and
any journals open at once), `PoolKeepsTheOrder` (`ReadsKeepTheOrder`). What a promise chain means is that everything a request
awaits is chained (`WaitsAreChained`), that of two writers one awaits the other (`WriterChainOrdered`), and so a
reader and a writer (`ReadsAndWritersOrdered`) until the barrier is lost; a step then is one of five things to
the chains, with a lemma for each. `ReadyMeansReconciled` rests on `StagesClose`: what a command of a reconciliation has closed
of the inheritance stays closed, because it only grows when a process is started, and while a command is in flight
the process is there.

`DurableJobQueue` (any jobs, workspaces, processes and requests, all faults but `ownerRacesQueue`, which
`NoOwnerRace` excludes):
`QueueInvariant`, `OneImportIsKept` (`OneImportRuns`), `NoneWaitsBehindNothing` (`PendingBehindActive`),
`RunningKeepsQueue` (`RunningJobsKeepTheQueue`), `QueuedStayHeld` (`QueuedJobsAreHeld`). None of the four is
inductive. What the handlers of the gateway rely on, and do not check, is that the queue follows one thread
(`OneThread`): a process of the active import, or one awaited command or timer about it, never two and never
one of another job. An exit is the only way from a process to an awaited answer and a launch the only way
back, so a step passes the thread on, ends it, or shifts it to the head of the queue; each has a lemma. What would
make a second thread is a timer that outlives its reservation: a cancel releases the job while the timer
runs. `StaleTimersPass` says why it never meets its job again: the job has left the table's status queued
for good, or is resumed by a request that waits for the timer. With `AnswerHolds` (a job that an awaited
answer calls terminal is terminal, and one it calls neither queued nor missing is not queued unless it is being
resumed) the queue's decisions on old answers are right when they are taken. The assumption `NoOwnerRace`
cannot be dropped: with `ownerRacesQueue` two threads arise and two imports run ("Divergences").

`WorkspaceRecovery` (any requests, changes, crashes and failures): `RecoveryInvariant`, `RecoveryFencesTorn`,
`RecoveryKeepsObjects`, `RecoveryEndsWhole`, `RecoveryLeavesImports`. The invariant says where each command can
be and what the stores are then: whole unless a restore's journal is open (`WholeUnlessOpen`), as the safety
point of an open journal describes, with every named object in place.

`WorkspaceDelete` (any number of the same): `DeleteInvariant`, `DeleteAuditsFirst`, `DeleteStaysFenced`,
`DeleteKeepsPoints`. The stage of the receipt bounds what may have been removed (`StageStands`), the place of the
command what it is about to (`CommandStands`).

`SqlServerActivation` (any plans, activations, imports and events): `SqlServerInvariant`, `SqlServerIsProven`,
`SqlServerSealsStay`, `SqlServerStartsWhole`. What a job is bound to is a sealed content (`JobsStand`), and a
sealed content was read while the tables were as planned (`SealsStand`).

`ReviewedEvidence` (any receipts, tables, questions and packs): `EvidenceInvariant`, `AnswersAgree`,
`CurrentReviewed`, `AuditLasts`. A publication keeps to the receipt of a memory that was confirmed
(`EvidenceKept`), and its head and status are those of a ledger that verifies (`AuditStands`).

`LocalRestore` (any restores, crashes and failures): `RestoreInvariant`, `TornCanBeRecovered`
(`TornIsRecoverable`: data that are no whole generation are covered by an open journal and a whole safety
copy), `RestoresEndAsReported`. What is on the disk between two renames is a function of the journal being
worked on and of the number of files moved (`Halfway`), and what a journal may say a function of the place
of the command that writes it (`ReadyJournals`). A torn directory has a whole safety copy because the copy is
sealed before anything is moved and the only command that removes it is one whose journal has ended. A
commit whose journal is closed by a later recovery is the delicate case of `RestoreEndsAsReported`: it is
why the invariant says what the live data are while a commit is being closed (`CommitStands`).

`TableQueryCache` over `MutationDelivery` (any widgets, calls, actions and entries): `WebInvariant`,
`ActsOncePerIntent` (`OncePerIntent`), `ShowsWhatWasAcknowledged` (`ShownIsAcknowledged`). The first rests on keys:
a request's key stays pending in the browser until an answer to it was parsed, the gateway's table has at
most one entry for a key, and an effect is known by its key for as long as the key is not forgotten
(`DeliveryInv`); so a repetition meets the entry of the first. The second rests on an order: what a page
acknowledged, what it awaits, what a settled query carries and what a widget shows have versions in
this order, with the exception of answers replayed from the table (`AwaitedIsAcknowledged`). What the table keeps of a
sequence of entries is a recursive function (`Among`); that it is a subsequence is proved by taking the
least element of the set of indices at which it would fail (`InductiveSet`), since the library's induction
theorem cannot be instantiated.

Every inductive invariant was checked by TLC on the instances above before it was proved
(`QueueInv` also on the first 6 million states of three jobs and three processes), and `VersionsComeFromSuccess` and
`SwitchIsOwned` with double launches.

Only model-checked: the liveness properties of every module and `ENABLED`, which are out of the prover's
reach. Every safety invariant that a run checks is proved.

## Not modelled

- Agent sessions, turns and confirmations: a turn is one command under the exclusive boundary and a
  confirmation one transaction guarded by a fingerprint; what a confirmed action does is the command it names.
  What remains is the order of a session's events, a candidate for a module of its own.
- Semantic queries, metrics, relationships and formulas: sequential computations over SQL text and data, with
  no state between commands but rows of definitions. Their results are a table's version here.
- Dashboards, exports, schema and the opening of databases: presentation, file output and DDL. SQLite's lock and
  journal modes are assumptions of `ImportActivation`.
- The other routes of the gateway and views of the browser: the routes translate arguments into one command
  each; the views show the last answer. Their refreshes are not ordered among one another.
- A restart of the gateway that leaves its workers behind: the queue has one life of the gateway;
  `ImportActivation` has the workers' side, where recovery may run at any time.
- Power loss: files that were written are there. The order of fsyncs is not modelled.
- Verification scripts: tests, read as a reference.

## What is left

1. A gateway restart in `DurableJobQueue`, with workers it no longer knows.
2. Agent sessions: the exactly-once of a confirmed action draft.
3. The queue and the import over one job table, for what the queue assumes of a worker's ends.
