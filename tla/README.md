# Formal models of clueoj-external-storage

This directory holds TLA+ models of the service that backs up, evicts and restores the test data of an online judge ("OJ"), the TLC configurations that check them, and TLAPS proofs about the job queue, the backup of a problem, the local folder, the snapshot store, the catalogue, the lists with the sync feed, and backfills.
Paths are relative to the repository; `db.ts`, `worker.ts`, `routes.ts` and `maintenance.ts` live in `control-plane/src/`, `snapshot.rs`, `watcher.rs`, `api.rs`, `reconcile.rs` and (where a line says "Rust") `db.rs` in `rust-data-plane/src/`.

## 1. The system

| Part | State it keeps | Operations | Interacts through |
|---|---|---|---|
| Job queue (`db.ts`, `worker.ts`, `routes.ts`) | `jobs`, `job_fencing_counters`, `queue_state` | create, acquire, renew, complete, fail expired, cancel, retry, pause, purge | rows locked in PostgreSQL; advisory locks per problem |
| Backup scheduling (`db.ts`, `maintenance.ts`, triggers of `migrations/010`, `011`) | `problems.dirty*`, `problem_generation_counters`, `problem_usage` failure counters and round | dirty notification, minute batch, reconcile, manual snapshot, backfill | creates snapshot jobs, writes their payload |
| Snapshot data plane (`snapshot.rs`, `api.rs`) | `snapshots`, `snapshot_objects`, R2 objects; upload tasks in memory | claim, upload, finalize, record an error, restore, evict, delete object | HTTP from the executor, fencing tokens, advisory lock namespace 2907 |
| Filesystem watcher (`watcher.rs`, Rust `db.rs`) | debounce table in memory, its lease | mark stale, scan, claim or insert a running job, inline upload | filesystem events; the same `jobs` rows |
| Local lifecycle (`snapshot.rs`, `paths.rs`) | problem folders, staging folders, `local_status`, `flock` files | restore, evict, staging clean-up | rename plus commit |
| Retention and GC (`db.ts`, `snapshot.rs`, `migrations/008`) | `gc_marks`, superseded and error snapshots | mark, prune, collect, defer | advisory locks per object key |
| Catalog (`db.ts`, `routes.ts`) | `problems` identity and state, idempotency records | upsert, adopt orphan, reconcile, delete | called by the OJ |
| Tree cache and reconcile (`reconcile.rs`, `scanner.rs`) | `problem_tree_cache`, projections of usage | scan, cache, heal projections | startup and periodic loop |
| R2 client, hashing, manifests | objects | put, verify, delete, presign | `ObjectStore` trait |
| Lists and the sync feed (`db.ts`, `routes.ts`) | nothing on the server; a cursor the reader keeps | list a page, pull changes | any writer of the tables listed |
| Backfill (`routes.ts`, `worker.ts`) | `backfill_state` (status, cursor), `backfill` jobs | start, pause, work on a page and create the next page's job | the queue, scans, snapshot jobs |
| Users and authentication, dashboard, contracts, deployment | sessions, UI state | login, user administration, views | routes |

### What is hard, and what makes each part correct

* **Queue.** Many processes acquire the same rows; leases expire while their holders still work; a call the control plane has given up on goes on in the data plane. Correct means: one holder per job and per problem, stale operations never publish, keys name one job, accepted work ends.
* **Backup scheduling.** A dirty mark carries a version and a generation; both are read, stored in a job's payload and compared minutes later, while edits, other requests, restarts and late failures fall in between. Correct means: a clean problem is backed up, the READY generation only moves on, parked problems return after a repair, and nothing stays dirty for ever.
* **Data plane.** A claim is taken over after two hours, swept after six, and its uploader may still be alive. Correct means: one upload publishes a generation, and a late one spoils no generation but its own.
* **Watcher.** It scans before it marks, uploads under a lease of its own, and forgets everything on a restart.
* **Local lifecycle.** A rename and a commit cannot be one step. Correct means: never evict what is not in R2, never overwrite edits, recover from a crash between the two, keep the folder of a submission that is being judged and give it back to one that waits.
* **Retention and GC.** Objects are shared between generations; an object found dead may be claimed again before it is deleted. Correct means: a protected snapshot never loses an object.
* **Catalog.** Code and external id are two identities of one folder, learnt from two sides: ClueOJ, whose notifications get lost, and the disk. Correct means: the table comes to say what ClueOJ says, a claim of a code keeps what is recorded under it, and every problem with files gets its backup.
* **Lists and the sync feed.** Pages are read while the table changes; a cursor keeps milliseconds of a stamp that has microseconds, and a row's stamp is older than its commit. Correct means: a list read to its end has shown what was there all along, no page repeats a row, ClueOJ gets every change.
* **Backfill.** Status, cursor, page job and payload are written in four transactions, without asking for the lease. Correct means: a backfill that ends has come to every problem.

`PROJECT.json` lists the hazards one by one with their lines and the properties that watch them.

## 2. Modules

| Module | Role |
|---|---|
| `JobQueue` | the queue, both acquirers, the fenced operations |
| `JobQueueProofs`, `JobQueueServiceProofs` | type correctness, attempts, lease exclusion and fencing; tokens, keys, answers and reports, proved |
| `AutoSnapshot` | one problem from edit to READY generation, with parking |
| `AutoSnapshotProofs` | its types, a READY generation that only moves on, fresh rounds, nothing lost, proved |
| `Archive` | what the snapshot store promises, without rows, objects or a collector |
| `SnapshotStore` | uploads, READY transaction, retention and garbage collection over shared objects; implements `Archive` |
| `SnapshotStoreProofs` | its types, safety and the refinement, proved |
| `LocalLifecycle` | the folder of one problem: eviction, restore, scans, submissions |
| `LocalLifecycleProofs` | its types, the inductive invariant and three safety properties, proved |
| `Catalog` | problems, orphans and folders: claims of a code, the catalogue request, the reconcile pass |
| `CatalogProofs` | its types and the inductive invariant behind `ClaimKeepsHistory`, proved |
| `KeysetLists` | lists with cursors, and the feed of changes |
| `KeysetListsProofs` | its types, what readers may miss, no repetition, the feed's progress, proved |
| `Backfill` | backfills from start to completion, page by page |
| `BackfillProofs` | its types and `PassesOverNothing`, proved |
| `MCJobQueue`, `MCAutoSnapshot`, `MCSnapshotStore`, `MCCatalog`, `MCKeysetLists`, `MCBackfill` | the instances TLC checks |

The modules meet where the components do: each takes from the others only what it sees of them.
`JobQueue` knows an operation by its token and its commit; `LocalLifecycle` and `SnapshotStore` know a lease by whether its token is still the newest, which is what `JobQueue` shows of a fence (`EffectsInTokenOrder`, `RevokedNeverEnters`).
`LocalLifecycle` sees a snapshot as an upload that reads the folder and a READY transaction; `SnapshotStore` opens that transaction and has no folder; `Catalog` sees only that a backup was scheduled, and `AutoSnapshot` follows a scheduled backup to its end.

The definitions named `Mutant_…` beside the ones they vary are plausible mistakes (a dropped guard, an off-by-one); every checked property fails under one of them.

### JobQueue

State: `jobs` (a row per `JobId`; the id is the creation order), `nextToken` (fencing counters, keyed by problem or by `'__global__'`), `paused`, `request` (where each client's HTTP request stands), `claim` (what each worker loop remembers of the job it acquired), `ops` (operations alive in the data plane) and the history `effects` (operations that committed).

| Action | Code |
|---|---|
| `Submit`, `ReadTable`, `CreateJob` | a mutating route and `createJob`; the statement's table snapshot precedes the advisory lock it waits for, so reading and deciding are two steps, and `Insert` meets the unique indexes on current rows |
| `SubmitEnsure`, `EnsureRestore` | `touchProblemAccess`, then `createRestoreJobIfMissing` in one transaction |
| `AcquireJob` | `acquireJob`, lanes and `SKIP LOCKED` included; a candidate refused by an index yields nothing |
| `LeaseExpires`, `FailExpiredRunningJobs` | a renewal that did not come; terminal failure with ranked tokens |
| `CancelJob`, `RetryJob`, `SetPaused` | operator routes |
| `StartOp`, `Timeout`, `Finish`, `Abandon` | `runJob` and `dispatch`: work, give up waiting, complete or fail under the lease, or drop the job |
| `OpEnter`, `OpLand`, `OpFails` | lock and fence, commit, end without effect |
| `WatcherClaim`, `WatcherComplete`, `WatcherFail` | the watcher's acquisition, which allocates two tokens, and its two endings |
| `DataPlaneRestart` | calls die, uploads leave orphaned rows |

Lease renewal is a stutter (a live lease stays live). Times are not modelled: any lease may expire at any moment. A request's target stands for its generation and fingerprint.

### AutoSnapshot

State: `disk` (content of the folder, a number that each edit increases), `event` (a change the watcher has not processed), `problem` (dirty, version, generation), `nextGen`, `usage` (recorded generation, failure count, age of the last failure, schedule round), `snaps` (row per generation, with the content its manifest holds), `jobs` (snapshot jobs, oldest first), `sched` (scheduling code in progress), `run` (holder of the lease), `watcher`, `uploads`, counters of the bounds, and the histories `notified` and `missed`.

| Action | Code |
|---|---|
| `Edit` | the OJ changes the folder (external) |
| `NotifyDirty`, `ScheduleAgain` | `POST /dirty`, its replay, catalog reconcile |
| `ScheduleBatch` | the minute batch, with `markDirtyIfNoReady` |
| `ReadRound`, `CreateSnapshotJob`, `WritePayload` | the three statements of `scheduleAutoSnapshotJobs` |
| `RequestSnapshot`, `BackfillSnapshot`, `AllocateGeneration` | `POST /snapshot`; an `r2_snapshot` backfill page |
| `AcquireJob`, `WorkerScan`, `ClaimSnapshot`, `WorkerClears`, `CompleteJob`, `WorkerFails` | the executor: scan and claim in the data plane, poll the row, clear, finish |
| `UploadLands`, `UploadFails` | `finalize_snapshot_cas`; any failure, recorded by `mark_snapshot_error` |
| `WatcherScan`, `WatcherClaim`, `WatcherFails` | `snapshot_dirty_code` and its errors |
| `ScanOverwrites`, `RecordReady`, `LeaseOtherJob` | what the problem's other jobs and the reconcile pass do to the backup: a scan's `upsertProblemUsage` resets the recorded generation, `markLocalPresentForJob`, `mark_local_verified` and `heal_usage_ready_projection` write one back, and a lease draws a token |
| `LoseLease`, `ControlPlaneRestart`, `DataPlaneRestart` | faults |
| `FailExpiredJob`, `SweepStalled`, `BackoffExpires`, `PurgeTerminalJob` | timers |

The triggers are part of the actions that fire them: `Unparked` in every action that moves `dirty_version`, `Outcome` in every action that ends a job. `Fenced` marks uploads older than the newest token. Simplifications: the problem stays in the catalog and its folder present; the scan job created beside an automatic snapshot, and the problem's restores and evictions, appear by what they write (`ScanOverwrites`, `RecordReady`, `LeaseOtherJob`), not as rows of `jobs` (JobQueue has those, and that only one of the problem's jobs runs); an upload's first statements after its claim (the `hashing` state, the folder read again) run with the claim; keys are tuples (kind, version, number) instead of strings; `failures` stops at the threshold, the only value it is compared with; `round` counts without end, as the column does, when `Rounds = 0`, and modulo `Rounds` in the runs, which exceeds the number of rows they retain (`NextRound`).

### Archive and SnapshotStore

`Archive` has one variable: what a restore of each generation yields today. A generation is published above the newest one, which moves to its rollback window and stays until that ends (`Publish`, `WindowEnds`); what a generation restores never changes. `Replace` is the same demotion by a generation that nothing is promised of.

State of `SnapshotStore`: `rows` (`snapshots` with the key that `snapshot_objects` has for each path), `store` (content objects, named by hash and shared), `manifests` (one key per problem and generation, overwritten by retries), `uploads` (background tasks; each remembers whether the row it claimed still exists, and whether its lease is the newest), `marks` (`gc_marks`), `holder` (session advisory locks per key), `gc` (one `gc_collect` worker each, with the `delete_object` call it has open), `claims` (bound), and the histories `contested` and `strays`.

| Action | Code |
|---|---|
| `LeaseSnapshot`, `ClaimSnapshot`, `BeginHashing` | a newer token; `claim_snapshot` with its take-over of failed and stale rows; the deletion of what an earlier attempt recorded |
| `PrepareUpload` | locks of all keys in order, deletion of their marks, references recorded, before a byte is sent |
| `SendFile`, `SendChangedFile` | put or head, read back and compare; the file changed after it was hashed |
| `BeginVerifying`, `PutManifest`, `FinalizeSnapshot` | state, manifest, READY transaction with the demotion of the predecessor |
| `FailUpload`, `LoseUpload`, `FailStalled` | `mark_snapshot_error`; a dropped task or process; the six-hour sweep |
| `WindowPasses`, `ApplyRetention` | a retention date passes; prune, then mark |
| `StartCollection`, `LockKey`, `CheckKey`, `DeleteObject`, `RecordCollected`, `LeaveKey` | list, lease assertion and lock, re-check, DELETE, `markGcCollected`; any way out without a deletion |

Simplifications: the safety window of a mark may end at any time after it was set; a mark whose key is collected is never purged; a dropped `delete_object` leaves its key locked on a pooled connection in the code, here it is released at once (a lock held longer only delays); the deletion of an earlier attempt's references and the state `hashing` are one step, and so are a file's transfer and the comparison of what is read back; two uploads that agree in everything the model keeps of them are one element of `uploads`; a row's states keep the names of the table.

Nothing bounds an upload in time. An active row may be claimed again (the code waits two hours), swept to `error` (six hours), and pruned after that, while the attempt that claimed it still runs; its statements then find another attempt's row, or none (`Updated`). What such an attempt may spoil is recorded in two histories that no code keeps: `contested`, the rows that were claimed again or swept under a live attempt, until they are claimed with none alive; and `strays`, the keys an attempt at a contested row has written since they were last deleted. The properties except these and nothing else.

### LocalLifecycle

State: `folder` (version of the files, 0 when there are none), `ready` (what the READY snapshot holds), `dirty`, `usage` (`problem_usage`, reduced to what is compared), `jobs`, one operation of each type in the data plane (`upload`, `eviction`, `restore`, `scan`), `sweep` (the reconcile pass's plan for the folder), `event` (watcher), `ask` (an ensure-ready request), `faults`. Locks are not variables: who holds the file lock and the advisory lock follows from where eviction and restore stand.

| Action | Code |
|---|---|
| `RequestSnapshot`, `RequestScan`, `RequestEvict`, `RequestRestore` | the routes, with `createJob`'s conflict and the cancellation a restore commits first |
| `Edit`, `MarkDirty` | ClueOJ under the file lock (external), its notification |
| `WatchFolder`, `WatchChange` | `snapshot_dirty_code`; while a snapshot job runs, `scan_orphan_now` records the folder as present (its scan and its write are one step) |
| `StartSnapshot`, `PublishSnapshot`, `SnapshotFails` | a backup as the folder sees it |
| `StartEviction`, `LockForEviction`, `ClaimEviction`, `MoveAway`, `CommitEviction`, `EvictionRefused` | `evict_local`: projection, file lock and scan, transaction and its checks, rename, commit |
| `StartRestore` … `CommitRestore`, `RestoreRefused` | `restore_snapshot`: staging, locks, checks, two renames, commit |
| `AssertRestoreLease`, `ReportRestore`, `RunScan`, `ScanRecords`, `AssertScanLease`, `ReportScan`, `NothingThere` | the worker writes the projection one statement after it asserted its lease |
| `StartSweep`, `RecordSweep`, `AbandonSweep` | reconcile pass with `heal_usage_ready_projection` |
| `Touch`, `CheckReady`, `ClaimMissing`, `Leave` | ensure-ready: access fence, look at the disk, restore or believe the projection |
| `DropEviction`, `DropRestore`, `LoseLease` | a timeout, a death, an expired lease between any two steps |

Simplifications: a folder that exists can be scanned (no 409 for a partial one); evictions are forced and name an idle cutoff; a generation is the READY one or older; hidden staging folders that a dropped operation leaves behind are not restored by anybody in the code and do not appear; a lease, its token and the start of the operation are one step.

### Catalog

State: `oj` (ClueOJ's problems), `rows` (`problems` with the part of `problem_usage` the schedulers look at and the records an orphan left), `folders`, `cached` (codes whose `problem_tree_cache` signature is current), `events`, `notices` (notifications not yet effective), `request` (a `problems:reconcile` request), `pass` (what is left of the reconcile plan), `asked` (problems a scheduler came to), `changes`.

| Action | Code |
|---|---|
| `CreateProblem`, `RenameProblem`, `DeleteProblem`, `TouchFolder` | ClueOJ (external), each with a notification that may get lost |
| `MarkDirty` | `markProblemDirtyIdempotent`: claim of the code, tombstone or scheduling |
| `SendCatalog`, `UpsertProblem`, `MarkMissing` | the request, problem by problem; the first conflict ends it; tombstones and scheduling come last |
| `ScheduleBatch` | the minute batch |
| `WatchFolder`, `MakeHistory` | the watcher's discovery of a code; an operator who works on an orphan |
| `StartPass`, `ReconcileKnown`, `ReconcileMissing`, `ReconcileOrphan` | `build_reconcile_plan`, `apply_reconcile_plan` with cached accounting |
| `Crash` | events, request and pass are gone |

Simplifications: each transaction is one step; the external id `orphan:<code>` is written as the code; mirrors, quotas and owners are left out; an empty list writes no tombstones, as in the code (`db.ts:173`); events that the kernel drops, about which the code does nothing (`watcher.rs:37-41`), are left out.

### KeysetLists

State: `kind` (lists of ids, of the newest first, the feed; chosen once), `clock`, `rows` (the stamps of each id), `writing` (open transactions), `cursor` and `ended` (the reader's), `got` (rows whose present form the reader has), and the histories `base`, `ties`, `late`, `unstamped`.

| Action | Code |
|---|---|
| `Begin`, `Commit` | a transaction takes its stamp, and its rows become visible later: `upsertProblem`, `upsertProblemUsage` and the inserts of the listed tables |
| `TouchUsage` | `mark_stale` and `touchProblemAccess`: a delivered column changes, `observed_at` does not |
| `Remove` | retention of jobs and snapshots, orphan rows |
| `WalkPage`, `WalkAgain` | the list functions: `limit + 1` rows past the cursor, a cursor only when there are more |
| `Pull` | `getSyncChanges`: a cursor with every page that has rows |

`PageRows`, `IsLast`, `CursorAt`, `Past` and `Before` are the parts all of these functions share (LIMIT, the last row, `encodeCursor` of its key, WHERE and ORDER BY).
Simplifications: one list and one reader at a time; of the orders of `listProblems`, the default one (with `sort=observed_at` the cursor holds a text that is no RFC 3339 time, and rows without an owner drop out behind a cursor of `sort=owner_organization`); the files of one snapshot, which never change (`listProblemFiles` looks for the READY snapshot at every page, so a newer one makes the pages of a walk come from two); one clock, where the end of a scan is the data plane's time. The history of incident commands has a cursor without an id and is left out.

### Backfill

State: `problems`, `state` (`backfill_state`), `jobs` (backfill jobs with payload, fingerprint and parent), `admin` (start requests in progress), `exec` (what each loop does), and the histories `begun`, `since`, `attended`.

| Action | Code |
|---|---|
| `StartState`, `StartJob`, `StartPayload`, `StartFails` | the three statements of the start route, or its death in between |
| `Pause` | the pause route |
| `Acquire`, `ReadCursor`, `ListPage`, `WorkOn`, `Publish`, `CreateNext`, `NextPayload`, `Finish`, `Fail` | `acquireJob` and `JobWorker.backfill`, statement by statement |
| `Die`, `Expire`, `FailExpired` | a process dies, a lease runs out, `failExpiredRunningJobs` |
| `Appear`, `Vanish` | the catalogue changes |

`WorkOn` is one problem of the page, whatever became of it: scanned, given a snapshot job, skipped, or counted as an error (a lost lease is an error like any other, `worker.ts:241-243`). What a scan or a snapshot job does is in the other modules. A job claimed before `setJobPayload` works on the default capability, `accounting`.

## 3. Runs

| Run | Expectation | Checks | Bounds |
|---|---|---|---|
| `fencing` | holds | `TypeOK` `LeaseExclusive` `CompletedHasEffect` `PendingCanRun` `KeyNamesOneJob` `AcceptedIsServed` `EffectsInTokenOrder` `RevokedNeverEnters` | 1 problem, 2 loops, watcher, operators, 2 clients that reuse a key, 2 jobs, tokens ≤ 5, 2 attempts |
| `settles` | holds | `TokensUnique` `JobsSettle` (fair) | jobs of 2 problems or of none, one loop, 2 rows expiring together, tokens ≤ 7 |
| `backup` | holds | `TypeOK` `NothingLost` `FreshRound` `ReadyForward` | watcher and batch, scans and restores, one manual or backfill request, 1 edit, 3 generations, 2 faults |
| `repaired` | holds | `BackedUp` (fair) | the first edit breaks the folder, the second repairs it, 1 fault |
| `archive` | holds | `TypeOK` `WindowRestorable` `CollectedIsGone` `PrunedLeavesNothing` `ArchiveSpec` | 2 generations, 2 claims, 2 uploads at once that last as long as they like, 1 collector, one object that one of two contents has |
| `local` | holds | `TypeOK` `NothingDestroyed` `RestoresReady` `ServedKeepsFolder` `WaitsForFolder` (fair) | 2 versions of the files, 1 fault, any number of requests |
| `catalog` | holds | `TypeOK` `ClaimKeepsHistory` `Converges` `AccountedIsScheduled` (fair) | 2 problems, 2 codes, 2 changes, 1 notification under way, operator on one orphan |
| `lists` | holds | `TypeOK` `FeedCurrent` `WalkComplete` `WalkOnce` `FeedAdvances` | 3 ids, pages of 1 or 2, 2 open transactions, 2 microseconds to the millisecond, 3 microseconds |
| `backfill` | holds | `TypeOK` `PassesOverNothing` | 2 problems in pages of 1, 2 executors, 2 jobs, 2 attempts, 2 expiries |
| `stale_failure` | violated | `StaleFailureNotCounted` | broken, then repaired folder |
| `adopted` | violated | `SettledIsScheduled` (fair) | no change at all: a folder, a problem, a list |
| `unhealed` | violated | `ReadyIsProjected` (fair) | as `local` |

### What the passing runs say

* **fencing, settles** — two acquisitions of a problem never publish out of order, a key names one job, an accepted request is served, and every job ends. `CompletedHasEffect` excepts the rows that the watcher completed (`watcher.rs:235` completes a job whose snapshot another run is still uploading), and `AcceptedIsServed` is about the request that was accepted, not about a backup that a restore cancelled for it.
* **backup, repaired** — a clean problem has what was notified; once a generation is READY there is always exactly one, and never an older one, although scans reset the generation the READY transaction compares with (the unique index of migration 008 is what holds then, and the mutant without it is caught); a parked problem comes back. `NothingLost` excepts a restart of the data plane that drops a change (`missed`); `BackedUp` is checked without the watcher and without backfills, named generations and slow uploads; the last three break it or `NothingLost`, as the configurations below show.
* **archive** — `WindowRestorable` relates a row to its manifest and to every object the manifest lists, while attempts of any length retry, fail after storing other bytes or outlive their row, another generation shares the object, and a collector that listed the object is anywhere between its re-check and its DELETE. Its exception is a row that was claimed again or swept under a live attempt (`contested`): the two attempts write one manifest key, and the code compares nothing before it does. No other row suffers from them. `ArchiveSpec` (the refinement, `kept <- Archived`) adds what no state tells: generations are published in order, a replaced one keeps yielding the same content, and nothing but the end of its window takes it away. Contested generations are outside it, except that they too demote the newest one. `CollectedIsGone` and `PrunedLeavesNothing` are about the two records a deletion leaves behind; what a late attempt wrote afterwards (`strays`) is the only object either may miss.
* **local** — `NothingDestroyed` is the promise that makes eviction safe: the folder goes only when the READY snapshot has its content, although the scan, the dirty flag, the generation and the renames are read and done in different steps and a dropped operation leaves its rename behind. `ServedKeepsFolder` is the race of a submission with an idle eviction; `WaitsForFolder` says that a submission waiting for a restore gets the folder, whatever crash left it absent.
* **catalog** — `Converges`: once ClueOJ rests, the table says what ClueOJ says, unless a code conflict is in the way. `ClaimKeepsHistory` quotes migration 006 and is about the two claims of a code, not about the orphan rows that the reconcile pass removes (`history_lost.cfg`). `AccountedIsScheduled`: every listed problem with a folder that was accounted for as a problem's gets its backup.
* **lists** — `FeedCurrent`: a change that ClueOJ has not got is still in front of its cursor, with two exceptions: a transaction that was open while a page was read (`late`), and a change of `stale` or `last_accessed_at` that `mark_stale` or `touchProblemAccess` makes to a row ClueOJ had, without moving its stamp (`unstamped`). `WalkComplete` is the same for a list that has an end, and its exception is a millisecond that a page of the newest first ended in. `WalkOnce` and `FeedAdvances` say what a next page may be.
* **backfill** — `PassesOverNothing`: two starts, a reclaimed page with two executors, or a page computed while problems come and go may move the cursor forward and back, but it passes no problem that no page came to. To come to a problem is not to have processed it: one that counts as an error after a lost lease was come to.

### Why the bounds are enough to be of interest

A fencing error needs two acquisitions of a problem and an operation left over from the first; with two jobs, two loops and the watcher TLC also covers an operation left over from a cancelled job, a reclaim, and an adoption by the watcher.
Two attempts are the least that distinguish a first try, a reclaim and exhaustion.
`settles` allows tokens up to 7 because two jobs must each be leased twice before both expire for good, and the group of two then takes two tokens more.
The first content, which the batch backs up unasked, and one edit give `backup` an older and a newer version; one fault suffices for each race of `AutoSnapshot` (the lost lease, the crash, or the executor that overtakes `setJobPayload`), two let one follow another, and one row is used again and again; the same run with two edits and one fault holds too (13,013,759 states, four and a half minutes by hand), and `explicit.cfg` adds a second row, for a job that is finished beside one that is active, and a second edit. `Threshold = 1` lets one failure park.
`archive`: two generations are the least with a demotion, and two claims give either the second generation or a second attempt at the first, under the live one or after it; with one content that has the object and one that has not, generations share it or leave it to one of them (773,647 states, a little over a minute). Three larger variants pass by hand: `two_collectors.cfg`, where a stale lease stands beside a new one (5,258,187 states up to symmetry); two objects, one for each content (2,341,010); three claims without a collector, where a contested generation is published above a READY one (2,437,897). The theorems of section 4 have none of these bounds.
`local`: an eviction compares the folder with one READY version, so two versions are enough for every outcome of a comparison, and an edit between scan and rename makes the second; requests repeat for ever, so only versions and faults are bounded.
`catalog`: two codes allow a rename, an orphan under the second code, and a code that one problem frees and another takes.
`lists`: three ids are the least with a page boundary inside a group of rows that share a millisecond; three microseconds give two stamps in one millisecond and one before them; two transactions commit in either order.
`backfill`: two pages are the least with a cursor between them, two expiries with two attempts give a reclaimed page beside its first executor and the failure of an exhausted job.
`requests.cfg` (all local kinds under a shared key, no loops) and `explicit.cfg` (four generations, two rows) are larger instances of `fencing`, for `KeyNamesOneJob` and `AcceptedIsServed`, and of `backup`, for `FreshRound` and `ReadyForward`; they pass and are run by hand.
Deadlock is checked in `local`, `catalog`, `adopted` and `unhealed`, where requests or lists always come; the other instances stop when their bounds are used up.

### What the violations show

* **stale_failure** — migration 011 lost the version comparison of migration 010.
* **adopted** — a problem that takes over an orphan's row keeps `local_status = 'orphan'`, which neither scheduler accepts and the reuse of the cached tree never renews: it gets no backup until somebody changes its folder.
* **unhealed** — a scan job resets `r2_status` to `none` and the generation to NULL; a verification or a restore then writes the READY generation without `r2_status`, and the guard of `heal_usage_ready_projection` no longer applies.

Thirteen more configurations record consequences that the code has no rule against, or a precondition of a passing run. They are run by hand (`tlc -config <file> <module>`) and TLC finds each violated:

* **coalesce** (`MCJobQueue`, `SameWorkCoalesces`) — `createJob` decides on rows seen before it held the lock, so one of two concurrent identical restores can be refused instead of sharing the job.
* **restore_lane** (`MCJobQueue`, `RestoreNeverQueues`) — the head of the restore order can be a restore whose problem has a running row; nothing behind it is tried, the expired row that blocks it included.
* **stranded** (`MCAutoSnapshot`, `BackedUp`) — a backfill page gives a dirty problem a generation of its own; the dirty generation is then too old to be finalized, and the minute batch retries it without end.
* **named_generation** (`MCAutoSnapshot`, `NothingLost`) — a manual generation ahead of the counter is later handed to an edit, which is then recorded as backed up.
* **late_manifest** (`MCSnapshotStore`, `EveryManifestKept`) — an attempt whose row was claimed again still puts its manifest over that of the generation its successor published (`snapshot.rs:305`), although "active, ready, and superseded generations remain immutable" (`snapshot.rs:125`). This is the exception `contested` of `archive`.
* **tombstone** (`MCCatalog`, `DeletedIsTombstoned`) — a code freed by a deletion and taken again is a conflict that ends every list before the tombstones are written.
* **history_lost** (`MCCatalog`, `HistoryKept`) — the reconcile pass removes an orphan row together with the snapshots and jobs that refer to it.
* **told_ready** (`LocalLifecycle`, `ReadyIsPresent`) — a scan or a pass writes what it saw earlier with the current time, and ensure-ready believes it: a submission is told the folder is ready while it is missing.
* **feed_skips** (`MCKeysetLists`, `FeedSkipsNothing`) — a transaction commits rows with a stamp that ClueOJ's cursor has already passed, or a folder event marks a delivered row stale without a stamp: the change is not delivered until the row is stamped again.
* **feed_stuck** (`MCKeysetLists`, `FeedCatchesUp`, fair) — a transaction stamps as many rows as a page has, all with one time whose microseconds the cursor drops: the next page is the same page, for ever, while `db-contract.test.ts:256` expects the feed to paginate without replay.
* **list_misses** (`MCKeysetLists`, `WalkMissesNothing`) — lists of the newest first pass over rows that share the millisecond of a page's last row.
* **backfill_stalls** (`MCBackfill`, `RunningIsDriven`) — a start that dies between its two statements (or a replayed key that names a finished job, or a page job that fails for good) leaves a backfill that says running and has no job; a further start is refused until it is paused.
* **pause_lost** (`MCBackfill`, `PauseHolds`) — a page that was running when the backfill was paused writes `running` or `completed` over the pause and goes on with the next page (`README.md:165` documents pause and resume).

`SlowUploads` is FALSE in every run of `AutoSnapshot`. With TRUE, TLC finds `BackedUp` violated: an upload that outlives the two-hour takeover ends with an error that marks the row of its successor, whose own failure does the same to the next.
`SnapshotStore` makes no such assumption: its uploads outlive every limit.

### Fairness

`JobQueue!FairSpec`: every loop polls for ever, so each of its steps is weakly fair; a call returns or its timeout strikes; a request in progress is processed; the lease of a job that no worker remembers runs out (nobody renews it); expired jobs are failed by the loops. Nothing is assumed of operators, clients, landing operations or the data plane's success.

`AutoSnapshot!FairSpec`: the same for the executor; the minute batch, hourly purge and six-hour sweep run on timers that re-arm themselves (`maintenance.ts:46-72`, `worker.ts:40-56`); an upload ends; the watcher processes events; twenty-four hours pass. Edits, notifications, replays, requests and faults are never assumed.

`LocalLifecycle!FairSpec`: worker loops and the data plane's handlers run what was leased (`SnapshotStep`, `EvictionStep`, `RestoreStep`, `ScanStep`: some step of each, a refusal included, never a success); the watcher handles its events; the reconcile timer starts a pass and the pass goes on; a request that is being handled is handled to its end. A submission never has to leave, an edit never has to come.

`Catalog!FairSpec`: ClueOJ sends its list again and again and the request runs to its end (`RequestStep`), the minute batch, the reconcile pass and the watcher run on their timers. Notifications are never assumed to arrive.

`KeysetLists!FairSpec`, used by `feed_stuck.cfg`: ClueOJ pulls again and again.

Faults and changes are finitely many, so "once they are over" has a meaning: `BackedUp`, `Converges` and `AccountedIsScheduled` are of the form `<>[]`. Weak fairness is enough because no step it is asked of is switched on and off for ever in these instances.

## 4. Proofs

### The queue

`JobQueueProofs` and `JobQueueServiceProofs` prove, for every number of problems, loops, clients, jobs, tokens and attempts that satisfies `QueueAssumption`:

* `TypeCorrect` — `Spec => []TypeOK`; `PendingJobsCanRun` — `Spec => []PendingCanRun`; `InductiveInvariant` — `Spec => []IInv`;
* `LeasesExclude`, `EffectsOrdered`, `RevokedStaysOut` — the properties `LeaseExclusive`, `EffectsInTokenOrder`, `RevokedNeverEnters`;
* in `JobQueueServiceProofs`: `ServiceInvariant` — `Spec => []ServiceInv` — and from it `TokensNeverShared`, `KeysNameJobs`, `AcceptedAreServed`, `CompletedWasPublished`, the properties `TokensUnique`, `KeyNamesOneJob`, `AcceptedIsServed`, `CompletedHasEffect`.

`QueueAssumption` names only what the program guarantees about its constants: at least two attempts (the rows say three), well-typed requests, the global key not a problem. TLC evaluates it on every `JobQueue` run.

The fencing properties are not inductive: that an effect's token exceeds the earlier ones says nothing of the operation about to commit. `IInv` adds what the code keeps:

* `CounterAhead` — every token of a row is below its problem's counter, so a new acquisition's token exceeds all others;
* `MemoryBehind` — what claims, operations and effects remember is at most the token of their row, because tokens of a row never decrease;
* `ClaimsDistinct`, `OpsDistinct` — within one problem, no two workers remember the same token, nor do two operations, nor an operation and an effect, and a claim whose operation has not started has a token no operation or effect carries;
* `LockSound` — at most one operation of a problem is inside its lock, and every effect of the problem is older than that operation's token;
* `OneRunning` — the unique index on running local operations;
* `CancelRevokes` — an operation that still has its row's token belongs to a row no one has cancelled.

Every step falls into one of a few classes, each treated once: steps that leave tokens and memories alone or forget some (`QuietStep`), steps that hand out a token (`AcquireStep`), and the three that create, admit and land an operation. That rows only advance (type and problem fixed, tokens growing, a cancellation moving the token) is a lemma about `Next` and carries the action properties.

What the queue promises to those that submit work is `ServiceInv`. It joins the four properties to `IInv` and to what they lean on:

* `AbsentBlank` — a row nothing was inserted into has no key, so the keys of the table are those of its jobs;
* `SeenExist` — the rows a statement saw before it held the lock still exist when `createJob` answers with one of them;
* `DoneHasEffect` — a loop that is about to report a snapshot or a restore done has seen it published. The phase is set to done only in the steps that see the effect (`OpLand`, `JoinedPhase`).

One lemma, `TableMoves`, says what any step may do to each row (keep it, renew its token from the counter, insert it, cancel it, expire it with a rank of its group); tokens, keys and answers are then facts about these moves and not about each action anew. `AcceptedIsServed` speaks of a job that *serves* the request (`Serves`): a garbage collection in progress answers every request for one, whatever batch it names, because `createJob` coalesces those without comparing the fingerprint (`db.ts:1045-1056`).

### The backup of a problem

`AutoSnapshotProofs` proves, for any number of schedulers, edits, generations, rows, requests and faults (`BackupAssumption` says that bounds are numbers and named generations are generations):

* `TypeCorrect` and `ReadyMovesForward` (`TypeOK`, `ReadyForward`) with no further hypothesis;
* `RoundsStayFresh` (`FreshRound`) for `Rounds = 0`, the counter without end that the column is. A counter that wraps is a device of the runs; it would repeat a key as soon as the table keeps more rows than it has values;
* `NotificationsSurvive` (`NothingLost`) for `NamedGens = {}`, no request that names its generation. `named_generation.cfg` is the counterexample without that hypothesis. The hypothesis is about operators: the OJ and the timers never name one.

`ReadyForward` rests on `AtMostOneReady`, which is inductive with the types: the READY transaction is the only step that makes a row READY or stops one from being READY (`ReadyStep`), it demotes every older row, and the unique index refuses it under a newer one (`LandsAbove`). The recorded generation proves nothing here: `ScanOverwrites` and `RecordReady` move it both ways. `FreshRound` needs `JobRounds` and `SchedRounds`: a finished automatic job has a round below the counter, and an active one or a scheduler in progress has a round at most the counter; finishing a job moves the counter past it.

`NothingLost` is the promise of the backup and the hardest of these. The mark is withdrawn by two pieces of code, each with a version or a generation it read long before. `BackupInv` says why that is safe:

* `GensAllocated` — every generation in use is below the counter. A new mark takes the counter's value, so what was scanned before it has an older generation. A named generation breaks this conjunct;
* `WatcherSees` — what the watcher scanned is the disk's content unless an event is waiting, and nothing is notified that was not edited;
* `OneLive` — at most one upload is not fenced, it belongs to the holder of the lease, and its row is not READY yet;
* `ScansCurrent` — a scan or an unfenced upload whose generation may withdraw the mark has what was notified, or the change is still with the watcher; and while the problem is clean, what may replace the READY snapshot has what was notified.

`ProblemStep` classifies every step by what it does to the mark and to the counter (marks and allocates, allocates, withdraws, nothing); the preservation of `ScansCurrent` goes by these classes.

### The local folder

`LocalLifecycleProofs` proves, for any number of versions and faults (`LifecycleAssumption` says no more than that they are numbers): `TypeCorrect`; `FolderInvariant`, the inductive `IInv`; `FilesAreNeverLost`, `RestoresPublishReady` and `ServedFolderStays` — the properties `NothingDestroyed`, `RestoresReady` and `ServedKeepsFolder`.

What a rename relies on was compared several steps before, so `IInv` says what holds in between:

* `OneHolder` — eviction and restore are never both past the file lock;
* `EvictionSafe` — from the scan under the file lock on, the folder holds the READY content unless another generation became READY meanwhile, and from the claim on none can;
* `RestoreSafe` — a restore has staged the content of the READY generation while its own is that one, which is so from the claim on, and a folder it is about to move away holds that content;
* `AskSafe` — a submission in progress has touched the problem, and none is in progress while an eviction is past its claim: `touchProblemAccess` takes the lock that the transaction holds, and the transaction checks the access;
* `SnapshotSafe` — an upload has read a folder that existed, and a submission waits for files only when there is a READY snapshot.

### The snapshot store

`SnapshotStoreProofs` proves, for any problems, generations, contents, shared objects, collectors and bounds that satisfy `StoreAssumption` (kinds of keys differ, generations are positive numbers), and for uploads of any length: `TypeCorrect`, `StoreInvariant`, `WindowsStayRestorable`, `CollectedObjectsAreGone`, `PruningLeavesNothing` and `ImplementsArchive` — the properties `WindowRestorable`, `CollectedIsGone`, `PrunedLeavesNothing` and `ArchiveSpec`. No theorem has a further hypothesis; what late attempts spoil is excepted in the properties by name.

An uncontested row is *solid* while an upload fills it after prepare or it is in the window, and a key is *needed* while a solid row refers to it. `IInv` joins:

* `UploadsDistinct`, `UploadStage`, `UploadStored` — an uncontested row has one upload, its state column tells the stage, its references are that upload's keys, and what was sent is stored. A claim or a sweep under a live attempt makes the row contested, and only a claim that meets no live attempt ends that, so a row with two attempts is never solid;
* `WindowStored` — manifest and objects of the promised rows are there; preserved by `FinalizeSnapshot` because of the former, by `DeleteObject` because of the next, and by the late attempts of other rows because a stored object is never replaced by other bytes, only added when it is absent;
* `ClearedKeys` — a key that passed the re-check under its lock is not needed until it is unlocked: a row starts to need a key only in `PrepareUpload`, which takes the lock of every key (`LocksHeld`), or stops being solid;
* `MarksTrue` — a collected mark names an object that nothing needs and that is absent or a stray; prepare deletes the mark before the object may return, and `valid` follows the mark row a collector listed.

For the refinement, `FinalizePublishes` maps the READY transaction of an uncontested row to `Publish`, `FinalizeDemotes` that of a contested one to `Replace`, `WindowPassesArchive` the end of a superseded row's window to `WindowEnds`, and `UploadStepArchive`, `CollectorStepArchive` and `ArchiveStep` show that nothing else changes what a restore of a promised row yields.

Each `IInv` was checked by TLC on its module's instance before it was proved.

### The catalogue

`CatalogProofs` proves, for any problems, codes, changes and notifications that satisfy `CatalogAssumption` (problem keys and codes differ, and "none", "new" and "deleted", which stand where a code may, are no codes): `InductiveInvariant` (`CatalogInv`), `TypeCorrect`, and `ClaimsKeepHistory`, the property `ClaimKeepsHistory`.

`CatalogInv` adds to the types `CodesUnique` (the UNIQUE constraint on the code, which each upsert and each adoption has to respect), `Blank` (nothing is accounted for, and nothing recorded, under an identity that has no row) and `PlanKnown` (a pass in progress names problems by rows that nothing deletes, although it was planned before). The action property needs all of them: a claim moves the one row that has the code, and a pass that still plans for the orphan meets no row and writes nothing.

### Lists and the feed

`KeysetListsProofs` proves, for any ids, transactions, page sizes, clock and cut of stamps that satisfy `ListAssumption` (a page has at least one row; the cut is monotone, idempotent and never exceeds the stamp, as `toISOString` does): `InductiveInvariant`, `TypeCorrect`, and the properties `FeedCurrent`, `WalkComplete`, `WalkOnce` and `FeedAdvances` as `FeedLosesOvertakenOrUnstamped`, `WalksAreComplete`, `WalksRepeatNothing` and `FeedMovesOn`.

The argument is one fact about a page (`PageClosed`, `PageShift`): with a row, a page has every matching row before it in the order, so what it leaves out comes after its last row; and cutting that row's stamp down moves an ascending cursor backwards, never past a row. That counting to the limit yields such a page is about cardinalities and uses the library's facts about finite sets. `IInv` adds to the properties:

* `WritesInTime` — stamps are never ahead of the clock, and an open transaction that no page overtook has a stamp beyond the feed's cursor, because it began after the last page was read;
* `InsertsApart` — outside the feed open transactions insert rows that do not exist yet, each its own;
* `WalkSplit` — during a walk, what the reader has is behind its cursor and what it lacks is in front of it, ties excepted. `WalkComplete` says this of the end only.

### Backfill

`BackfillProofs` proves, for any problems, page size, executors, start requests, attempts and expiries that satisfy `BackfillAssumption` (ids are positive, a page has at least one problem, rows get at least one attempt): `InductiveInvariant`, `TypeCorrect`, and `BackfillsAreComplete`, the property `PassesOverNothing`.

The lease plays no part in it. What an executor will publish was true when it read it, and it stays true, because what a page came to is never undone: `ExecutorsSafe` says that of the problems that were there from the first page on, each was worked on or is beyond the cursor an executor read (`ReadSafe`), or on its page, or beyond that page's end (`PageSafe`). `BeginningsUntouched` covers the problems that appear before the first page.

### Model-checked only

Every invariant and every action property of a passing run is stated by a theorem above. Liveness (`JobsSettle`, `BackedUp`, `WaitsForFolder`, `Converges`, `AccountedIsScheduled`) and everything that needs `ENABLED` are outside what the prover handles and stay with TLC, as do facts that need induction over data.

## 5. Not modelled, and the plan

In order of importance:

1. Operator cancel and retry with payloads (a retried snapshot has no version, a retried eviction is a dry run), several problems in one batch and the conflict that ends it.
2. `JobQueueSpec`, an abstract lock service that `JobQueue` implements (one holder per problem, effects in token order).
3. The watcher's debounce table and its channel of 256, which one long upload fills.
4. Mirrors and quotas of the catalogue, the interleaving of its two claims on a code nobody has.
5. The purge of collected marks, batches of marks, hidden staging folders, evictions without force.
6. Pure operators: canonical archive selection, manifest validation, `debounce_wait_for_age`.

Left out for good: the dashboard, generated client, images and scripts (no protocol), HTTP and R2 transport (their failures are the failing steps above), audit records, password hashing.
