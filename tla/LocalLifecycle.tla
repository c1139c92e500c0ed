--------------------------- MODULE LocalLifecycle ---------------------------
(***************************************************************************)
(* The local folder of one problem: ClueOJ edits it, the data plane evicts *)
(* and restores it, scan jobs, the reconcile pass and the watcher record   *)
(* what they saw of it in problem_usage, and submissions ask for it with   *)
(* ensure-ready.                                                           *)
(*                                                                         *)
(* Writers, evictions and restores share the problem's file lock; evictions *)
(* and restores then hold the problem's advisory lock in a transaction that *)
(* spans their renames.  Who holds a lock follows from where each operation *)
(* is.  Generations appear as what they are compared with: the READY one.  *)
(* An operation outlives the lease of its job, and a request that times    *)
(* out or a process that dies drops it between any two steps.              *)
(***************************************************************************)
EXTENDS Integers

CONSTANTS
  MaxVersion, \* bound: versions of the folder's files
  MaxFaults   \* bound: dropped operations, lost leases and failed jobs

ASSUME LifecycleAssumption ==
  /\ MaxVersion \in Nat \ {0}
  /\ MaxFaults \in Nat

VARIABLES
  folder,   \* the problem's folder
  ready,    \* what its READY snapshot holds
  dirty,    \* problems.dirty
  usage,    \* the problem_usage row
  jobs,     \* jobs of the problem: at most one active of a type, one running
  upload, eviction, restore, scan,   \* operations those jobs started
  sweep,    \* the reconcile pass: what its plan says of the folder
  event,    \* a debounced filesystem event waits in the watcher
  ask,      \* an ensure-ready request
  faults

vars == <<folder, ready, dirty, usage, jobs, upload, eviction, restore, scan,
          sweep, event, ask, faults>>

ops == <<upload, eviction, restore, scan>>

Types == {"scan", "snapshot", "restore", "evict"}

Absent == 0      \* no folder, no snapshot

Folders == 0..MaxVersion

Usage == [local: {"present", "missing"},
          r2: {"none", "ready"},
          gen: {"null", "old", "ready"},   \* snapshot_generation, as the READY one or below it
          accessed: BOOLEAN,               \* last_accessed_at is after the eviction's cutoff
          newer: BOOLEAN]                  \* observed_at is after the ask's observation

NoEviction == [pc |-> "idle", newest |-> FALSE, same |-> FALSE]

NoScan == [pc |-> "idle", newest |-> FALSE, late |-> FALSE]

(* newest: the token the operation was given is still the newest. *)
TypeOK ==
  /\ folder \in Folders /\ ready \in Folders /\ dirty \in BOOLEAN
  /\ usage \in Usage
  /\ jobs \in [Types -> {"none", "pending", "running"}]
  /\ upload \in [pc: {"idle", "sending"}, newest: BOOLEAN, content: Folders, fresh: BOOLEAN]
  /\ eviction \in [pc: {"idle", "started", "locked", "claimed", "moved"},
                   newest: BOOLEAN, same: BOOLEAN]
  /\ restore \in [pc: {"idle", "started", "staged", "locked", "claimed", "moved", "published", "committed", "reporting"},
                  newest: BOOLEAN, same: BOOLEAN, content: Folders]
  /\ scan \in [pc: {"idle", "scanned", "recorded", "reporting"}, newest: BOOLEAN, late: BOOLEAN]
  /\ sweep \in {"idle", "present", "missing"}
  /\ event \in BOOLEAN
  /\ ask \in {"idle", "touched", "missing", "served", "restoring"}
  /\ faults \in 0..MaxFaults
  /\ \A t, s \in Types : jobs[t] = "running" /\ jobs[s] = "running" => s = t

Init ==
  /\ folder = 1
  /\ ready = Absent
  /\ dirty = FALSE
  /\ usage = [local |-> "present", r2 |-> "none", gen |-> "null", accessed |-> FALSE, newer |-> FALSE]
  /\ jobs = [t \in Types |-> "none"]
  /\ upload = [pc |-> "idle", newest |-> FALSE, content |-> Absent, fresh |-> FALSE]
  /\ eviction = NoEviction
  /\ restore = [pc |-> "idle", newest |-> FALSE, same |-> FALSE, content |-> Absent]
  /\ scan = NoScan
  /\ sweep = "idle"
  /\ event = FALSE
  /\ ask = "idle"
  /\ faults = 0

-----------------------------------------------------------------------------
\* Locks and helpers

(* lock_problem_data: one holder, ClueOJ's writers included. *)
FileLocked ==
  \/ eviction.pc \in {"locked", "claimed", "moved"}
  \/ restore.pc \in {"locked", "claimed", "moved", "published"}

(* The transaction that takes the problem's advisory lock. *)
Locked == eviction.pc \in {"claimed", "moved"} \/ restore.pc \in {"claimed", "moved", "published"}

(* Row locks on problem_usage that such a transaction holds. *)
UsageLocked == eviction.pc \in {"claimed", "moved"} \/ restore.pc = "published"

Active(t) == jobs[t] # "none"

(* ready_snapshot_matches_scan *)
Mutant_Matches(c) == ready # Absent /\ ~dirty
Matches(c) == ready # Absent /\ c = ready /\ ~dirty

(* The data plane's upsert_problem_usage for a folder it scanned. *)
SeenPresent(u) == [u EXCEPT !.local = "present", !.newer = TRUE]

(* The job leaves 'running': it may be tried again or is over. *)
Ended(t, next) == jobs' = [jobs EXCEPT ![t] = IF @ = "running" THEN next ELSE @]

Fault == faults < MaxFaults /\ faults' = faults + 1

Mutant_Lease(t) == jobs[t] = "pending" /\ jobs' = [jobs EXCEPT ![t] = "running"]

(* A job of type t is leased: it draws the newest token of the problem. *)
Lease(t) ==
  /\ jobs[t] = "pending"
  /\ \A s \in Types : jobs[s] # "running"
  /\ jobs' = [jobs EXCEPT ![t] = "running"]

(* cancelPendingLocalJobsForRestore *)
Cancelled == [t \in Types |-> IF t \in {"scan", "snapshot"} /\ jobs[t] = "pending" THEN "none" ELSE jobs[t]]

Outdated(op) == [op EXCEPT !.newest = FALSE]

-----------------------------------------------------------------------------
\* Requests that insert a job (createJob): none of the problem may be active

Request(t) ==
  /\ \A s \in Types : ~Active(s)
  /\ jobs' = [jobs EXCEPT ![t] = "pending"]

RequestSnapshot ==
  /\ Request("snapshot") /\ upload.pc = "idle"
  /\ UNCHANGED <<folder, ready, dirty, usage, ops, sweep, event, ask, faults>>

RequestScan ==
  /\ Request("scan") /\ scan.pc = "idle"
  /\ UNCHANGED <<folder, ready, dirty, usage, ops, sweep, event, ask, faults>>

(* POST evict of a problem idle since a cutoff: no submission that is still   *)
(* being served was sent before it.  (Without idle_before the operation is    *)
(* the same but for that check.)                                              *)
RequestEvict ==
  /\ Request("evict") /\ eviction.pc = "idle"
  /\ usage' = [usage EXCEPT !.accessed = @ /\ ask # "idle"]
  /\ UNCHANGED <<folder, ready, dirty, ops, sweep, event, ask, faults>>

(* POST restore of the READY generation, whatever the folder is. The pending  *)
(* scan or snapshot stays cancelled even when createJob then refuses.         *)
RequestRestore ==
  /\ restore.pc = "idle" /\ ready # Absent
  /\ IF \A s \in Types : Cancelled[s] = "none"
     THEN /\ jobs' = [Cancelled EXCEPT !["restore"] = "pending"]
          /\ restore' = [restore EXCEPT !.same = TRUE, !.content = ready]
     ELSE jobs' = Cancelled /\ UNCHANGED restore
  /\ UNCHANGED <<folder, ready, dirty, usage, upload, eviction, scan, sweep, event, ask, faults>>

-----------------------------------------------------------------------------
\* ClueOJ and the watcher

(* An upload in ClueOJ publishes new files under the file lock. *)
Edit ==
  /\ ~FileLocked
  /\ \E c \in Folders :
       /\ \A d \in {folder, ready, upload.content} : c > d
       /\ folder' = c
  /\ event' = TRUE
  /\ UNCHANGED <<ready, dirty, usage, jobs, ops, sweep, ask, faults>>

(* ClueOJ's notification of a change. *)
MarkDirty ==
  /\ ~Locked
  /\ ~dirty \/ upload.fresh
  /\ dirty' = TRUE
  /\ upload' = [upload EXCEPT !.fresh = FALSE]
  /\ UNCHANGED <<folder, ready, usage, jobs, eviction, restore, scan, sweep, event, ask, faults>>

(* snapshot_dirty_code: a missing folder is recorded, a folder that matches    *)
(* the READY snapshot verified.                                               *)
WatchFolder ==
  /\ event /\ ~UsageLocked
  /\ folder = Absent \/ Matches(folder)
  /\ event' = FALSE
  /\ usage' = IF folder = Absent THEN [usage EXCEPT !.local = "missing", !.newer = TRUE]
              ELSE [SeenPresent(usage) EXCEPT !.gen = "ready"]
  /\ UNCHANGED <<folder, ready, dirty, jobs, ops, sweep, ask, faults>>

(* Any other folder is marked dirty and uploaded, under a snapshot job that    *)
(* starts out running, unless another operation is. If that is a snapshot, the *)
(* mark stays and scan_orphan_now records the folder; if not, it is undone.    *)
WatchChange ==
  /\ event /\ ~Locked
  /\ folder # Absent /\ ~Matches(folder)
  /\ event' = FALSE
  /\ IF upload.pc = "idle" /\ \A t \in Types : jobs[t] # "running"
     THEN /\ dirty' = TRUE
          /\ jobs' = [jobs EXCEPT !["snapshot"] = "running"]
          /\ upload' = [pc |-> "sending", newest |-> TRUE, content |-> folder, fresh |-> TRUE]
          /\ usage' = SeenPresent(usage)
          /\ eviction' = Outdated(eviction) /\ restore' = Outdated(restore) /\ scan' = Outdated(scan)
     ELSE /\ dirty' = (dirty \/ jobs["snapshot"] = "running")
          /\ upload' = [upload EXCEPT !.fresh = @ /\ jobs["snapshot"] # "running"]
          /\ usage' = IF jobs["snapshot"] = "running" THEN SeenPresent(usage) ELSE usage
          /\ UNCHANGED <<jobs, eviction, restore, scan>>
  /\ UNCHANGED <<folder, ready, sweep, ask, faults>>

-----------------------------------------------------------------------------
\* Snapshot jobs, seen from the folder

StartSnapshot ==
  /\ Lease("snapshot") /\ upload.pc = "idle"
  /\ folder # Absent
  /\ \E fresh \in BOOLEAN :
       upload' = [pc |-> "sending", newest |-> TRUE, content |-> folder, fresh |-> fresh]
  /\ eviction' = Outdated(eviction) /\ restore' = Outdated(restore) /\ scan' = Outdated(scan)
  /\ UNCHANGED <<folder, ready, dirty, usage, sweep, event, ask, faults>>

(* The READY transaction supersedes the earlier generation. *)
PublishSnapshot ==
  /\ upload.pc = "sending" /\ upload.newest
  /\ ~Locked
  /\ ready' = upload.content
  /\ usage' = [usage EXCEPT !.r2 = "ready", !.gen = "ready", !.newer = TRUE]
  /\ dirty' = (dirty /\ ~upload.fresh)
  /\ upload' = [upload EXCEPT !.pc = "idle", !.newest = FALSE, !.fresh = FALSE]
  /\ eviction' = [eviction EXCEPT !.same = FALSE]
  /\ restore' = [restore EXCEPT !.same = FALSE]
  /\ Ended("snapshot", "none")
  /\ UNCHANGED <<folder, scan, sweep, event, ask, faults>>

SnapshotFails ==
  /\ upload.pc = "sending"
  /\ upload' = [upload EXCEPT !.pc = "idle", !.newest = FALSE, !.fresh = FALSE]
  /\ Ended("snapshot", "none")
  /\ UNCHANGED <<folder, ready, dirty, usage, eviction, restore, scan, sweep, event, ask, faults>>

-----------------------------------------------------------------------------
\* Eviction

(* evict_local reads the generation the projection calls READY. *)
StartEviction ==
  /\ Lease("evict") /\ eviction.pc = "idle"
  /\ usage.r2 = "ready" /\ usage.gen # "null"
  /\ eviction' = [eviction EXCEPT !.pc = "started", !.newest = TRUE, !.same = (usage.gen = "ready")]
  /\ upload' = Outdated(upload) /\ restore' = Outdated(restore) /\ scan' = Outdated(scan)
  /\ UNCHANGED <<folder, ready, dirty, usage, sweep, event, ask, faults>>

(* Under the file lock the folder is scanned and compared. *)
LockForEviction ==
  /\ eviction.pc = "started"
  /\ ~FileLocked
  /\ folder # Absent /\ Matches(folder) /\ eviction.same
  /\ eviction' = [eviction EXCEPT !.pc = "locked"]
  /\ UNCHANGED <<folder, ready, dirty, usage, jobs, upload, restore, scan, sweep, event, ask, faults>>

(* The transaction's checks, under the advisory lock and row locks. *)
Mutant_MayEvict ==
  eviction.newest /\ usage.r2 = "ready" /\ usage.gen = "ready" /\ eviction.same /\ ~dirty
MayEvict ==
  /\ eviction.newest
  /\ usage.r2 = "ready" /\ usage.gen = "ready" /\ eviction.same
  /\ ~dirty
  /\ ~usage.accessed

ClaimEviction ==
  /\ eviction.pc = "locked"
  /\ MayEvict
  /\ eviction' = [eviction EXCEPT !.pc = "claimed"]
  /\ UNCHANGED <<folder, ready, dirty, usage, jobs, upload, restore, scan, sweep, event, ask, faults>>

(* The folder is renamed to a hidden one. *)
MoveAway ==
  /\ eviction.pc = "claimed"
  /\ folder' = Absent
  /\ eviction' = [eviction EXCEPT !.pc = "moved"]
  /\ UNCHANGED <<ready, dirty, usage, jobs, upload, restore, scan, sweep, event, ask, faults>>

(* The transaction commits and the hidden folder is removed. *)
CommitEviction ==
  /\ eviction.pc = "moved"
  /\ usage' = [usage EXCEPT !.local = "missing", !.newer = TRUE]
  /\ eviction' = NoEviction
  /\ Ended("evict", "none")
  /\ UNCHANGED <<folder, ready, dirty, upload, restore, scan, sweep, event, ask, faults>>

(* A check refuses, or nothing is there to evict: the job ends. *)
EvictionRefused ==
  /\ \/ /\ Lease("evict") /\ eviction.pc = "idle"
        /\ usage.r2 # "ready" \/ usage.gen = "null"
     \/ /\ eviction.pc = "started" /\ ~FileLocked
        /\ folder = Absent \/ ~Matches(folder) \/ ~eviction.same
     \/ eviction.pc = "locked" /\ ~MayEvict
  /\ eviction' = NoEviction
  /\ jobs' = [jobs EXCEPT !["evict"] = IF eviction.pc = "idle" \/ @ = "running" THEN "none" ELSE @]
  /\ UNCHANGED <<folder, ready, dirty, usage, upload, restore, scan, sweep, event, ask, faults>>

-----------------------------------------------------------------------------
\* Restore

StartRestore ==
  /\ Lease("restore") /\ restore.pc = "idle"
  /\ restore' = [restore EXCEPT !.pc = "started", !.newest = TRUE]
  /\ upload' = Outdated(upload) /\ eviction' = Outdated(eviction) /\ scan' = Outdated(scan)
  /\ UNCHANGED <<folder, ready, dirty, usage, sweep, event, ask, faults>>

(* The generation's files are downloaded into a hidden folder. *)
StageRestore ==
  /\ restore.pc = "started"
  /\ restore' = [restore EXCEPT !.pc = "staged"]
  /\ UNCHANGED <<folder, ready, dirty, usage, jobs, upload, eviction, scan, sweep, event, ask, faults>>

LockForRestore ==
  /\ restore.pc = "staged"
  /\ ~FileLocked
  /\ restore' = [restore EXCEPT !.pc = "locked"]
  /\ UNCHANGED <<folder, ready, dirty, usage, jobs, upload, eviction, scan, sweep, event, ask, faults>>

(* The token, the generation still READY, and a folder that is either missing *)
(* or already holds what is restored.                                         *)
Mutant_MayRestore == restore.newest /\ (folder # Absent => Matches(folder))
Mutant_MayRestoreClean == restore.newest /\ restore.same /\ ~dirty /\ (folder # Absent => Matches(folder))
MayRestore ==
  /\ restore.newest
  /\ restore.same
  /\ folder # Absent => Matches(folder)

ClaimRestore ==
  /\ restore.pc = "locked"
  /\ MayRestore
  /\ restore' = [restore EXCEPT !.pc = "claimed"]
  /\ UNCHANGED <<folder, ready, dirty, usage, jobs, upload, eviction, scan, sweep, event, ask, faults>>

(* An existing folder is renamed away before the new one takes its name. *)
MoveOld ==
  /\ restore.pc = "claimed"
  /\ folder' = Absent
  /\ restore' = [restore EXCEPT !.pc = "moved"]
  /\ UNCHANGED <<ready, dirty, usage, jobs, upload, eviction, scan, sweep, event, ask, faults>>

PublishFolder ==
  /\ restore.pc = "moved"
  /\ folder' = restore.content
  /\ event' = TRUE
  /\ restore' = [restore EXCEPT !.pc = "published"]
  /\ UNCHANGED <<ready, dirty, usage, jobs, upload, eviction, scan, sweep, ask, faults>>

CommitRestore ==
  /\ restore.pc = "published"
  /\ usage' = [SeenPresent(usage) EXCEPT !.accessed = TRUE]
  /\ restore' = [restore EXCEPT !.pc = "committed"]
  /\ UNCHANGED <<folder, ready, dirty, jobs, upload, eviction, scan, sweep, event, ask, faults>>

(* The worker asserts its lease before it writes the projection; without it   *)
(* the result is discarded.                                                   *)
AssertRestoreLease ==
  /\ restore.pc = "committed"
  /\ restore' = IF jobs["restore"] = "running" THEN [restore EXCEPT !.pc = "reporting"]
                ELSE [restore EXCEPT !.pc = "idle", !.newest = FALSE]
  /\ UNCHANGED <<folder, ready, dirty, usage, jobs, upload, eviction, scan, sweep, event, ask, faults>>

(* markLocalPresentForJob *)
ReportRestore ==
  /\ restore.pc = "reporting" /\ ~UsageLocked
  /\ usage' = [SeenPresent(usage) EXCEPT !.accessed = TRUE,
                                         !.gen = IF restore.same THEN "ready" ELSE "old"]
  /\ restore' = [restore EXCEPT !.pc = "idle", !.newest = FALSE]
  /\ Ended("restore", "none")
  /\ UNCHANGED <<folder, ready, dirty, upload, eviction, scan, sweep, event, ask, faults>>

(* A check refuses; the worker's attempts end the same way. *)
RestoreRefused ==
  /\ restore.pc = "locked" /\ ~MayRestore
  /\ restore' = [restore EXCEPT !.pc = "idle", !.newest = FALSE]
  /\ Ended("restore", "none")
  /\ UNCHANGED <<folder, ready, dirty, usage, upload, eviction, scan, sweep, event, ask, faults>>

-----------------------------------------------------------------------------
\* Scan jobs and the reconcile pass

(* The data plane scans the folder and records it. *)
RunScan ==
  /\ Lease("scan") /\ scan.pc = "idle"
  /\ folder # Absent
  /\ scan' = [pc |-> "scanned", newest |-> TRUE, late |-> TRUE]
  /\ upload' = Outdated(upload) /\ eviction' = Outdated(eviction) /\ restore' = Outdated(restore)
  /\ UNCHANGED <<folder, ready, dirty, usage, sweep, event, ask, faults>>

ScanRecords ==
  /\ scan.pc = "scanned" /\ ~UsageLocked
  /\ scan' = [scan EXCEPT !.pc = "recorded"]
  /\ usage' = SeenPresent(usage)
  /\ UNCHANGED <<folder, ready, dirty, jobs, upload, eviction, restore, sweep, event, ask, faults>>

AssertScanLease ==
  /\ scan.pc = "recorded"
  /\ scan' = IF jobs["scan"] = "running" THEN [scan EXCEPT !.pc = "reporting"]
             ELSE NoScan
  /\ UNCHANGED <<folder, ready, dirty, usage, jobs, upload, eviction, restore, sweep, event, ask, faults>>

(* upsertProblemUsageForJob overwrites every column but last_accessed_at. *)
ReportScan ==
  /\ scan.pc = "reporting" /\ ~UsageLocked
  /\ usage' = [usage EXCEPT !.local = "present", !.r2 = "none", !.gen = "null", !.newer = scan.late]
  /\ scan' = NoScan
  /\ Ended("scan", "none")
  /\ UNCHANGED <<folder, ready, dirty, upload, eviction, restore, sweep, event, ask, faults>>

(* A job that finds no folder fails. *)
NothingThere(t) ==
  /\ t \in {"scan", "snapshot"}
  /\ jobs[t] = "pending" /\ \A s \in Types : jobs[s] # "running"
  /\ folder = Absent
  /\ jobs' = [jobs EXCEPT ![t] = "none"]
  /\ UNCHANGED <<folder, ready, dirty, usage, ops, sweep, event, ask, faults>>

(* heal_usage_ready_projection *)
Healed(u) ==
  IF ready # Absent /\ u.gen # "ready" /\ u.r2 # "ready"
  THEN [u EXCEPT !.r2 = "ready", !.gen = "ready", !.newer = TRUE] ELSE u

(* A reconcile pass lists the folders, heals the projection and scans. *)
StartSweep ==
  /\ sweep = "idle" /\ ~UsageLocked
  /\ sweep' = IF folder = Absent THEN "missing" ELSE "present"
  /\ usage' = Healed(usage)
  /\ UNCHANGED <<folder, ready, dirty, jobs, ops, event, ask, faults>>

(* upsert_problem_usage or upsert_missing_usage, from what was listed. *)
RecordSweep ==
  /\ sweep # "idle" /\ ~UsageLocked
  /\ usage' = IF sweep = "present" THEN SeenPresent(usage)
              ELSE [usage EXCEPT !.local = "missing", !.newer = TRUE]
  /\ sweep' = "idle"
  /\ UNCHANGED <<folder, ready, dirty, jobs, ops, event, ask, faults>>

(* The pass stops at a folder it cannot scan. *)
AbandonSweep ==
  /\ sweep # "idle"
  /\ sweep' = "idle"
  /\ UNCHANGED <<folder, ready, dirty, usage, jobs, ops, event, ask, faults>>

-----------------------------------------------------------------------------
\* ensure-ready

(* touchProblemAccess: the access is recorded and a pending eviction cancelled, *)
(* under the lock of a running one's transaction.                               *)
Touch ==
  /\ ask = "idle" /\ ~Locked
  /\ usage' = [usage EXCEPT !.accessed = TRUE]
  /\ jobs' = [jobs EXCEPT !["evict"] = IF @ = "pending" THEN "none" ELSE @]
  /\ ask' = "touched"
  /\ UNCHANGED <<folder, ready, dirty, ops, sweep, event, faults>>

(* problem_readiness; without a READY snapshot a missing folder is a 409. *)
CheckReady ==
  /\ ask = "touched"
  /\ ask' = CASE folder # Absent -> "served" [] ready # Absent -> "missing" [] OTHER -> "idle"
  /\ usage' = [usage EXCEPT !.newer = FALSE]
  /\ scan' = [scan EXCEPT !.late = FALSE]
  /\ UNCHANGED <<folder, ready, dirty, jobs, upload, eviction, restore, sweep, event, faults>>

(* createRestoreJobIfMissing: an active restore of the READY generation is     *)
(* joined; a projection found present since the observation is believed;       *)
(* otherwise a restore is queued unless another operation is active.           *)
ClaimMissing ==
  /\ ask = "missing" /\ ~UsageLocked
  /\ IF Active("restore") /\ restore.same
     THEN ask' = "restoring" /\ UNCHANGED <<usage, jobs, restore>>
     ELSE IF usage.local = "present" /\ usage.newer
     THEN ask' = "served" /\ jobs' = Cancelled /\ UNCHANGED <<usage, restore>>
     ELSE IF restore.pc = "idle" /\ \A t \in Types : Cancelled[t] = "none"
     THEN /\ ask' = "restoring"
          /\ jobs' = [Cancelled EXCEPT !["restore"] = "pending"]
          /\ restore' = [restore EXCEPT !.same = TRUE, !.content = ready]
          /\ usage' = [usage EXCEPT !.local = "missing"]
     ELSE ask' = "idle" /\ UNCHANGED <<usage, jobs, restore>>
  /\ UNCHANGED <<folder, ready, dirty, upload, eviction, scan, sweep, event, faults>>

(* The submission is judged, or its client gives up. *)
Leave ==
  /\ ask \in {"served", "restoring"}
  /\ ask' = "idle"
  /\ UNCHANGED <<folder, ready, dirty, usage, jobs, ops, sweep, event, faults>>

-----------------------------------------------------------------------------
\* Faults

(* A request times out or a process dies: locks and transactions are gone,    *)
(* renames are not undone.                                                    *)
DropEviction ==
  /\ eviction.pc # "idle" /\ Fault
  /\ eviction' = NoEviction
  /\ Ended("evict", "pending")
  /\ UNCHANGED <<folder, ready, dirty, usage, upload, restore, scan, sweep, event, ask>>

DropRestore ==
  /\ restore.pc # "idle" /\ Fault
  /\ restore' = [restore EXCEPT !.pc = "idle", !.newest = FALSE]
  /\ Ended("restore", "pending")
  /\ UNCHANGED <<folder, ready, dirty, usage, upload, eviction, scan, sweep, event, ask>>

(* The lease of a running job expires; its operation goes on. *)
LoseLease(t) ==
  /\ jobs[t] = "running" /\ Fault
  /\ jobs' = [jobs EXCEPT ![t] = "pending"]
  /\ UNCHANGED <<folder, ready, dirty, usage, ops, sweep, event, ask>>

-----------------------------------------------------------------------------
SnapshotStep == StartSnapshot \/ PublishSnapshot \/ SnapshotFails

EvictionStep ==
  StartEviction \/ LockForEviction \/ ClaimEviction \/ MoveAway \/ CommitEviction \/ EvictionRefused

RestoreStep ==
  \/ StartRestore \/ StageRestore \/ LockForRestore \/ ClaimRestore \/ MoveOld
  \/ PublishFolder \/ CommitRestore \/ AssertRestoreLease \/ ReportRestore \/ RestoreRefused

ScanStep == RunScan \/ ScanRecords \/ AssertScanLease \/ ReportScan \/ \E t \in Types : NothingThere(t)

SweepStep == StartSweep \/ RecordSweep \/ AbandonSweep

AskStep == Touch \/ CheckReady \/ ClaimMissing \/ Leave

Next ==
  \/ RequestSnapshot \/ RequestScan \/ RequestRestore \/ RequestEvict
  \/ Edit \/ MarkDirty \/ WatchFolder \/ WatchChange
  \/ SnapshotStep \/ EvictionStep \/ RestoreStep \/ ScanStep \/ SweepStep \/ AskStep
  \/ DropEviction \/ DropRestore
  \/ \E t \in Types : LoseLease(t)

Spec == Init /\ [][Next]_vars

(* Worker loops, request handlers, the watcher and the reconcile timer run.  *)
Fairness ==
  /\ WF_vars(SnapshotStep) /\ WF_vars(EvictionStep)
  /\ WF_vars(ScanStep) /\ WF_vars(RestoreStep)
  /\ WF_vars(WatchFolder \/ WatchChange)
  /\ WF_vars(StartSweep) /\ WF_vars(RecordSweep)
  /\ WF_vars(CheckReady \/ ClaimMissing)

FairSpec == Spec /\ Fairness

-----------------------------------------------------------------------------
(* Eviction and restore never take away files that the READY snapshot does   *)
(* not hold: the scan, the dirty flag, the generation and the file lock hold *)
(* together against edits, new snapshots, stale operations and drops.        *)
NothingDestroyed ==
  [][folder # Absent /\ folder' = Absent => folder = ready]_vars

(* "restores the single READY R2 generation": what a restore publishes is the *)
(* READY snapshot of that moment.                                            *)
RestoresReady ==
  [][restore.pc = "moved" /\ restore'.pc = "published" => folder' = ready]_vars

(* "a submission racing the eviction cancels it or waits for the completed   *)
(* eviction" (docs/clueoj-integration.md): no idle eviction takes the folder *)
(* from a submission that was told it is ready.                              *)
ServedKeepsFolder ==
  [][eviction.pc = "claimed" /\ eviction'.pc = "moved" => ask # "served"]_vars

(* An ensure-ready answer of "ready" is given while the folder is there. *)
ReadyIsPresent == [][ask # "served" /\ ask' = "served" => folder # Absent]_vars

(* A submission that waits for a restore gets the folder, unless a newer     *)
(* snapshot replaces the generation it waits for or its client leaves.       *)
WaitsForFolder ==
  (ask = "restoring" /\ restore.same) ~> (folder # Absent \/ ~restore.same \/ ask # "restoring")

(* A READY snapshot ends up in the projection, however scan jobs, restores   *)
(* and crashes left it.                                                      *)
ReadyIsProjected == (ready # Absent) ~> (usage.r2 = "ready")
=============================================================================
