---------------------------- MODULE AutoSnapshot ----------------------------
(***************************************************************************)
(* The backup of one problem folder: how an edit becomes a dirty row, a    *)
(* snapshot job and a READY generation, and how failed snapshots park the  *)
(* problem.  The actors: the OJ's dirty notifications, the schedulers of   *)
(* control-plane/src/db.ts, the executor of worker.ts, the upload tasks of *)
(* rust-data-plane/src/snapshot.rs, its filesystem watcher, and the        *)
(* triggers of migrations 010 and 011.  JobQueue models the queue itself;  *)
(* here a job has the states and the lease that matter to the backup.      *)
(*                                                                         *)
(* The folder's content is a number that every edit increases.  The        *)
(* problem stays in the catalog and its folder stays present.              *)
(***************************************************************************)
EXTENDS Naturals, Sequences, FiniteSets

CONSTANTS
  Schedulers,     \* concurrent runs of the code that creates snapshot jobs
  Unusable,       \* contents without an init.yml naming a canonical archive
  Threshold,      \* STORAGE_PERMANENT_FAILURE_THRESHOLD
  WatcherOn,      \* whether the filesystem watcher sees the edits
  RequestKinds,   \* explicit snapshot work: subset of {"manual", "backfill"}
  SlowUploads,    \* whether an upload may still run after two hours
  NamedGens,      \* generations a manual request may name in its body
  MaxEdits,       \* bound: edits of the folder
  MaxGen,         \* bound: generations allocated
  MaxJobs,        \* bound: retained job rows
  MaxRequests,    \* bound: manual and backfill requests
  MaxFaults,      \* bound: lost leases, restarts, failed or stuck uploads
  MaxWaits,       \* bound: backoff windows waited out over unusable content
  Rounds          \* bound: modulus of the schedule round, above MaxJobs + 1;
                  \* 0 counts without end, as the bigint column does

Gens == 1 .. MaxGen

ASSUME BackupAssumption ==
  /\ Threshold \in Nat /\ Rounds \in Nat
  /\ MaxEdits \in Nat /\ MaxGen \in Nat /\ MaxJobs \in Nat /\ MaxRequests \in Nat
  /\ WatcherOn \in BOOLEAN /\ NamedGens \subseteq Gens

MaxAttempts == 3     \* jobs.max_attempts as createJob inserts it

VARIABLES
  disk,      \* content of the problem folder
  event,     \* a debounced filesystem event waits for the watcher
  problem,   \* the problems row: dirty, dirty_version, dirty_generation
  nextGen,   \* problem_generation_counters.next_generation
  usage,     \* the problem_usage row
  snaps,     \* the snapshots rows, by generation
  jobs,      \* the problem's snapshot jobs, oldest first
  sched,     \* the runs of scheduling code in progress
  run,       \* the execution holding the running job's lease
  watcher,   \* the scan the watcher is about to claim a job for
  uploads,   \* upload tasks alive in the data plane
  requests, faults, waits,  \* how much of the bounds is used
  notified,  \* history: content at the last dirty notification
  missed     \* history: a data plane restart dropped a change it had not marked

rows  == <<problem, nextGen, usage, snaps, jobs>>
tasks == <<sched, run, watcher, uploads>>
spent == <<requests, faults, waits>>
vars  == <<disk, event, rows, tasks, spent, notified, missed>>

Idle  == [phase |-> "idle", version |-> 0, gen |-> 0, key |-> <<"none", 0, 0>>]
NoRun == [who |-> "none", key |-> <<"none", 0, 0>>, phase |-> "none",
          gen |-> 0, version |-> 0, content |-> 0]
\* A snapshots row: the content a READY manifest holds, and whether an error
\* was a rejected manifest.
Snap(state) == [state |-> state, content |-> 0, integrity |-> FALSE]
NotClaimed == [busy |-> FALSE, content |-> 0]

Init ==
  /\ disk = 0 /\ event = FALSE
  /\ problem = [dirty |-> FALSE, version |-> 1, gen |-> 0]
  /\ nextGen = 1
  /\ usage = [gen |-> 0, failures |-> 0, failed |-> "never", round |-> 0]
  /\ snaps = [g \in Gens |-> Snap("none")]
  /\ jobs = <<>>
  /\ sched = [s \in Schedulers |-> Idle]
  /\ run = NoRun /\ watcher = NotClaimed /\ uploads = {}
  /\ requests = 0 /\ faults = 0 /\ waits = 0
  /\ notified = 0 /\ missed = FALSE

(***************************************************************************)
(* Rows and triggers.                                                      *)
(***************************************************************************)
NoReady == \A g \in Gens : snaps[g].state # "ready"
Parked  == usage.failures >= Threshold /\ usage.failed = "recent"

Holding(states) == {i \in DOMAIN jobs : jobs[i].state \in states}
Active          == Holding({"pending", "running"})
Row(key)        == CHOOSE i \in DOMAIN jobs : jobs[i].key = key

\* A new dirty_version unparks the problem (problems_reset_snapshot_backoff).
Unparked(u) == [u EXCEPT !.failures = 0, !.failed = "never"]

\* The round does not advance.
Mutant_Outcome(u, state, permanent) ==
  [u EXCEPT !.failures = IF permanent THEN Threshold
                         ELSE IF state = "completed" THEN 0 ELSE @,
            !.failed = IF permanent THEN "recent"
                       ELSE IF state = "completed" THEN "never" ELSE @]

NextRound(r) == IF Rounds = 0 THEN r + 1 ELSE (r + 1) % Rounds

\* Terminal outcomes of snapshot jobs (track_snapshot_job_outcome).  The
\* count stops at Threshold, the only value it is compared with.
Outcome(u, state, permanent) ==
  [u EXCEPT !.round = NextRound(@),
            !.failures = IF permanent THEN IF @ < Threshold THEN @ + 1 ELSE @
                         ELSE IF state = "completed" THEN 0 ELSE @,
            !.failed = IF permanent THEN "recent"
                       ELSE IF state = "completed" THEN "never" ELSE @]

\* Whatever mark is there is withdrawn.
Mutant_Cleared(p, gen, version) ==
  IF p.dirty THEN [p EXCEPT !.dirty = FALSE, !.gen = 0] ELSE p

\* The generation stays behind.
Mutant_ClearedGen(p, gen, version) ==
  IF version # 0 /\ p.dirty /\ p.gen <= gen /\ p.version = version
    THEN [p EXCEPT !.dirty = FALSE] ELSE p

\* The dirty mark is withdrawn for the version the snapshot was made for.
Cleared(p, gen, version) ==
  IF version # 0 /\ p.dirty /\ p.gen <= gen /\ p.version = version
    THEN [p EXCEPT !.dirty = FALSE, !.gen = 0] ELSE p

Fenced == {[u EXCEPT !.fenced = TRUE] : u \in uploads}
Fault  == faults < MaxFaults /\ faults' = faults + 1
UploadAlive(g) == \E u \in uploads : u.gen = g

\* A row is old enough to be taken over or swept: its uploader is gone, or slow.
Stalled(g) ==
  /\ snaps[g].state = "active"
  /\ IF UploadAlive(g) THEN SlowUploads /\ Fault ELSE UNCHANGED faults

(***************************************************************************)
(* Edits, and the OJ's notifications of them.                              *)
(***************************************************************************)
Edit ==
  /\ disk < MaxEdits
  /\ disk' = disk + 1 /\ event' = WatcherOn
  /\ UNCHANGED <<rows, tasks, spent, notified, missed>>

\* A request is about to schedule the problem as the row reads now.
Pick(s, p) ==
  sched' = [sched EXCEPT ![s] = [phase |-> "picked", version |-> p.version,
                                 gen |-> p.gen, key |-> <<"none", 0, 0>>]]

NotifyDirty(s) ==
  /\ disk > notified /\ sched[s].phase = "idle" /\ nextGen <= MaxGen
  /\ problem' = [dirty |-> TRUE, version |-> problem.version + 1, gen |-> nextGen]
  /\ nextGen' = nextGen + 1
  /\ usage' = Unparked(usage)
  /\ Pick(s, problem') /\ notified' = disk
  /\ UNCHANGED <<disk, event, snaps, jobs, run, watcher, uploads, spent, missed>>

\* A replayed notification, or a catalog reconcile, schedules without a mark.
ScheduleAgain(s) ==
  /\ problem.dirty /\ sched[s].phase = "idle"
  /\ Pick(s, problem)
  /\ UNCHANGED <<disk, event, rows, run, watcher, uploads, spent, notified, missed>>

(***************************************************************************)
(* Scheduling: the batch that runs every minute and the steps every        *)
(* scheduler takes, each on what it read in an earlier one.                *)
(***************************************************************************)
\* A problem without a READY snapshot is dirty again, at the same version.
MarkDirtyIfNoReady ==
  IF problem.dirty THEN UNCHANGED <<problem, nextGen>>
  ELSE /\ NoReady /\ nextGen <= MaxGen
       /\ problem' = [problem EXCEPT !.dirty = TRUE, !.gen = nextGen]
       /\ nextGen' = nextGen + 1

ScheduleBatch(s) ==
  /\ sched[s].phase = "idle" /\ ~Parked
  /\ problem.dirty \/ NoReady
  /\ MarkDirtyIfNoReady
  /\ Pick(s, problem')
  /\ UNCHANGED <<disk, event, usage, snaps, jobs, run, watcher, uploads, spent, notified, missed>>

ReadRound(s) ==
  /\ sched[s].phase = "picked"
  /\ sched' = IF Parked THEN [sched EXCEPT ![s] = Idle]
              ELSE [sched EXCEPT ![s].phase = "create",
                                 ![s].key = <<"auto", sched[s].version, usage.round>>]
  /\ UNCHANGED <<disk, event, rows, run, watcher, uploads, spent, notified, missed>>

\* POST /snapshot reads the row; the generation is the caller's, the dirty
\* row's, or allocated in a step of its own.
RequestSnapshot(s) ==
  /\ "manual" \in RequestKinds /\ requests < MaxRequests /\ sched[s].phase = "idle"
  /\ requests' = requests + 1
  /\ \E g \in NamedGens \cup {problem.gen} :
       sched' = [sched EXCEPT ![s] =
         [phase |-> IF g = 0 THEN "allocate" ELSE "create",
          version |-> problem.version, gen |-> g, key |-> <<"manual", 0, requests'>>]]
  /\ UNCHANGED <<disk, event, rows, run, watcher, uploads, faults, waits, notified, missed>>

\* An r2_snapshot backfill page takes a new generation, dirty or not, and its
\* payload names no version.
BackfillSnapshot(s) ==
  /\ "backfill" \in RequestKinds /\ requests < MaxRequests /\ sched[s].phase = "idle"
  /\ requests' = requests + 1
  /\ sched' = [sched EXCEPT ![s] = [phase |-> "allocate", version |-> 0, gen |-> 0,
                                           key |-> <<"backfill", 0, requests'>>]]
  /\ UNCHANGED <<disk, event, rows, run, watcher, uploads, faults, waits, notified, missed>>

AllocateGeneration(s) ==
  /\ sched[s].phase = "allocate" /\ nextGen <= MaxGen
  /\ sched' = [sched EXCEPT ![s].phase = "create", ![s].gen = nextGen]
  /\ nextGen' = nextGen + 1
  /\ UNCHANGED <<disk, event, problem, usage, snaps, jobs, run, watcher, uploads, spent, notified, missed>>

\* createJob: the key's row is replayed or conflicts, an active job of the
\* same generation is joined, another one refuses the request.
CreateSnapshotJob(s) ==
  LET req      == sched[s]
      taken    == {i \in DOMAIN jobs : jobs[i].key = req.key}
      same(is) == {i \in is : jobs[i].gen = req.gen}
      found    == IF taken # {} THEN same(taken) ELSE same(Active)
  IN /\ req.phase = "create"
     /\ \/ /\ found # {}
           /\ \E i \in found : sched' = [sched EXCEPT ![s].phase = "payload", ![s].key = jobs[i].key]
           /\ UNCHANGED jobs
        \/ /\ found = {} /\ taken \cup Active # {}
           /\ sched' = [sched EXCEPT ![s] = Idle]
           /\ UNCHANGED jobs
        \/ /\ taken \cup Active = {} /\ Len(jobs) < MaxJobs
           /\ jobs' = Append(jobs, [key |-> req.key, gen |-> req.gen, state |-> "pending",
                                    payload |-> 0, attempt |-> 1])
           /\ sched' = [sched EXCEPT ![s].phase = "payload"]
     /\ UNCHANGED <<disk, event, problem, nextGen, usage, snaps, run, watcher, uploads, spent, notified, missed>>

\* setJobPayload only writes a pending job.
WritePayload(s) ==
  /\ sched[s].phase = "payload"
  /\ jobs' = [i \in DOMAIN jobs |->
                IF jobs[i].key = sched[s].key /\ jobs[i].state = "pending"
                  THEN [jobs[i] EXCEPT !.payload = sched[s].version] ELSE jobs[i]]
  /\ sched' = [sched EXCEPT ![s] = Idle]
  /\ UNCHANGED <<disk, event, problem, nextGen, usage, snaps, run, watcher, uploads, spent, notified, missed>>

SchedulerStep(s) ==
  ReadRound(s) \/ AllocateGeneration(s) \/ CreateSnapshotJob(s) \/ WritePayload(s)

(***************************************************************************)
(* Execution.  The token of a new lease fences every upload in flight.     *)
(***************************************************************************)
\* Between createJob and setJobPayload the job is pending without a version.
PayloadDue(i) == jobs[i].state = "pending" /\ jobs[i].payload = 0 /\ \E s \in Schedulers :
                   sched[s].phase = "payload" /\ sched[s].key = jobs[i].key /\ sched[s].version # 0

\* The job's payload travels with the lease: a later write is not seen.  An
\* executor faster than the scheduler's next statement is one of the faults.
AcquireJob ==
  \E i \in Active :
    /\ jobs[i].attempt < MaxAttempts /\ run = NoRun
    /\ IF PayloadDue(i) THEN Fault ELSE UNCHANGED faults
    /\ jobs' = [jobs EXCEPT ![i].state = "running",
                            ![i].attempt = IF jobs[i].state = "pending" THEN @ ELSE @ + 1]
    /\ run' = [who |-> "worker", key |-> jobs[i].key, phase |-> "start", gen |-> jobs[i].gen,
               version |-> jobs[i].payload, content |-> 0]
    /\ uploads' = Fenced
    /\ UNCHANGED <<disk, event, problem, nextGen, usage, snaps, sched, watcher, requests, waits, notified, missed>>

\* A running job whose lease nobody holds, out of attempts.
FailExpiredJob ==
  \E i \in Holding({"running"}) :
    /\ jobs[i].attempt >= MaxAttempts /\ run = NoRun
    /\ jobs' = [jobs EXCEPT ![i].state = "failed"]
    /\ usage' = Outcome(usage, "failed", FALSE)
    /\ uploads' = Fenced
    /\ UNCHANGED <<disk, event, problem, nextGen, snaps, sched, run, watcher, spent, notified, missed>>

\* The data plane scans the folder for the job, then claims the generation.
WorkerScan ==
  /\ run.who = "worker" /\ run.phase = "start"
  /\ run' = [run EXCEPT !.phase = "scanned", !.content = disk]
  /\ UNCHANGED <<disk, event, rows, sched, watcher, uploads, spent, notified, missed>>

\* claim_snapshot: a new or failed row is uploaded, and one that has been
\* active for two hours is taken over; any other row belongs to another run.
Mutant_Claimable(g) == snaps[g].state = "none" /\ UNCHANGED faults   \* no retry
Claimable(g) ==
  \/ snaps[g].state \in {"none", "error"} /\ UNCHANGED faults
  \/ Stalled(g)

ClaimSnapshot ==
  /\ run.phase = "scanned"
  /\ \/ /\ Claimable(run.gen)
        /\ snaps' = [snaps EXCEPT ![run.gen] = Snap("active")]
        /\ uploads' = uploads \cup {[gen |-> run.gen, version |-> run.version, content |-> run.content,
                                     fenced |-> FALSE, by |-> run.who]}
        /\ run' = [run EXCEPT !.phase = "waiting", !.content = 0]
     \/ /\ snaps[run.gen].state \notin {"none", "error"}
        /\ run' = [run EXCEPT !.phase = IF run.who = "worker" THEN "waiting" ELSE "landed",
                              !.content = 0]
        /\ UNCHANGED <<snaps, uploads, faults>>
  /\ UNCHANGED <<disk, event, problem, nextGen, usage, jobs, sched, watcher, requests, waits, notified, missed>>

\* Only the recorded generation, which scans reset, holds an older one back.
Mutant_NoIndex(u) ==
  /\ ~u.fenced /\ u.content \notin Unusable
  /\ snaps[u.gen].state = "active" /\ usage.gen < u.gen

\* finalize_snapshot_cas accepts an upload; the unique index on READY rows
\* refuses one while a newer generation is READY.
CanLand(u) ==
  /\ ~u.fenced /\ u.content \notin Unusable
  /\ snaps[u.gen].state = "active" /\ usage.gen < u.gen
  /\ \A g \in Gens : snaps[g].state = "ready" => g < u.gen

\* The watcher uploads inline; its run ends with the upload.
Ended(u, phase) ==
  IF u.by = "watcher" /\ run.who = "watcher" THEN [run EXCEPT !.phase = phase] ELSE run

UploadLands ==
  \E u \in uploads :
    /\ CanLand(u)
    /\ snaps' = [g \in Gens |->
                   IF g = u.gen THEN [Snap("ready") EXCEPT !.content = u.content]
                   ELSE IF g < u.gen /\ snaps[g].state = "ready" THEN Snap("superseded")
                   ELSE snaps[g]]
    /\ usage' = [usage EXCEPT !.gen = u.gen]
    /\ problem' = Cleared(problem, u.gen, u.version)
    /\ uploads' = uploads \ {u}
    /\ run' = Ended(u, "landed")
    /\ UNCHANGED <<disk, event, nextGen, jobs, sched, watcher, spent, notified, missed>>

\* Files that changed since the scan, and refused uploads, record an error.
UploadFails ==
  \E u \in uploads :
    /\ IF ~CanLand(u) \/ u.content # disk THEN UNCHANGED faults ELSE Fault
    /\ snaps' = IF snaps[u.gen].state = "ready" THEN snaps
                ELSE [snaps EXCEPT ![u.gen] =
                        [Snap("error") EXCEPT !.integrity = u.content \in Unusable]]
    /\ uploads' = uploads \ {u}
    /\ run' = Ended(u, "failed")
    /\ UNCHANGED <<disk, event, problem, nextGen, usage, jobs, sched, watcher, requests, waits, notified, missed>>

\* The executor polls the row of its generation, whoever made it READY.
WorkerClears ==
  /\ run.who = "worker" /\ run.phase = "waiting" /\ snaps[run.gen].state = "ready"
  /\ problem' = Cleared(problem, run.gen, run.version)
  /\ run' = [run EXCEPT !.phase = "cleared"]
  /\ UNCHANGED <<disk, event, nextGen, usage, snaps, jobs, sched, watcher, uploads, spent, notified, missed>>

\* The result replaces the payload.
Finish(state, permanent) ==
  /\ jobs' = [jobs EXCEPT ![Row(run.key)].state = state, ![Row(run.key)].payload = 0]
  /\ usage' = Outcome(usage, state, permanent)
  /\ run' = NoRun
  /\ UNCHANGED <<disk, event, problem, nextGen, snaps, sched, watcher, uploads, requests, waits, notified, missed>>

CompleteJob ==
  /\ run.phase \in {"cleared", "landed"}
  /\ Finish("completed", FALSE)
  /\ UNCHANGED faults

WorkerFails ==
  LET row == snaps[run.gen] IN
  /\ run.who = "worker"
  /\ \/ /\ run.phase = "waiting" /\ row.state \in {"error", "superseded"}
        /\ Finish("failed", row.state = "error" /\ row.integrity) /\ UNCHANGED faults
     \/ /\ run.phase = "waiting" /\ row.state = "active"    \* SNAPSHOT_WAIT_MS
        /\ IF UploadAlive(run.gen) THEN Fault ELSE UNCHANGED faults
        /\ Finish("failed", FALSE)
     \/ /\ run.phase = "broken"                             \* the request died
        /\ Finish("failed", FALSE) /\ UNCHANGED faults

\* fail_job puts the job back while attempts remain; its code never parks.
WatcherFails ==
  /\ run.who = "watcher" /\ run.phase = "failed"
  /\ IF jobs[Row(run.key)].attempt < MaxAttempts
       THEN jobs' = [jobs EXCEPT ![Row(run.key)].state = "pending"] /\ UNCHANGED usage
       ELSE jobs' = [jobs EXCEPT ![Row(run.key)].state = "failed"]
            /\ usage' = Outcome(usage, "failed", FALSE)
  /\ run' = NoRun
  /\ UNCHANGED <<disk, event, problem, nextGen, snaps, sched, watcher, uploads, spent, notified, missed>>

(***************************************************************************)
(* The watcher scans the folder before it marks the problem dirty.         *)
(***************************************************************************)
\* A clean problem whose READY snapshot matches the scan needs no job.
WatcherScan ==
  /\ event /\ ~watcher.busy /\ run.who # "watcher"
  /\ event' = FALSE
  /\ IF ~problem.dirty /\ disk \notin Unusable
        /\ \E g \in Gens : snaps[g].state = "ready" /\ snaps[g].content = disk
       THEN UNCHANGED watcher
       ELSE watcher' = [busy |-> TRUE, content |-> disk]
  /\ UNCHANGED <<disk, rows, sched, run, uploads, spent, notified, missed>>

\* A new version and generation; then a pending job is adopted with the
\* generation it has, a running one is left alone, or a job is inserted.
WatcherClaim ==
  LET version == problem.version + 1
      Lease(key, g) == /\ run' = [who |-> "watcher", key |-> key, phase |-> "scanned", gen |-> g,
                                  version |-> version, content |-> watcher.content]
                       /\ uploads' = Fenced
  IN /\ watcher.busy /\ nextGen <= MaxGen
     /\ problem' = [dirty |-> TRUE, version |-> version, gen |-> nextGen]
     /\ nextGen' = nextGen + 1 /\ usage' = Unparked(usage)
     /\ watcher' = NotClaimed
     /\ \/ \E i \in Holding({"pending"}) :
             /\ jobs' = [jobs EXCEPT ![i].state = "running", ![i].attempt = @ + 1]
             /\ Lease(jobs[i].key, jobs[i].gen)
        \/ Holding({"running"}) # {} /\ UNCHANGED <<jobs, run, uploads>>
        \/ /\ Active = {} /\ Len(jobs) < MaxJobs
           /\ jobs' = Append(jobs, [key |-> <<"watcher", 0, nextGen>>, gen |-> nextGen,
                                    state |-> "running", payload |-> 0, attempt |-> 1])
           /\ Lease(<<"watcher", 0, nextGen>>, nextGen)
     /\ UNCHANGED <<disk, event, snaps, sched, spent, notified, missed>>

(***************************************************************************)
(* The problem's other jobs and the reconcile pass: they write the         *)
(* generation that problem_usage records, and their leases draw tokens.    *)
(***************************************************************************)
\* upsertProblemUsage stores a scan's result, which names no generation.
ScanOverwrites ==
  /\ usage.gen # 0
  /\ usage' = [usage EXCEPT !.gen = 0]
  /\ UNCHANGED <<disk, event, problem, nextGen, snaps, jobs, tasks, spent, notified, missed>>

\* A restore or the reconcile pass records the generation it found published,
\* which may have been superseded since.
RecordReady ==
  \E g \in Gens :
    /\ snaps[g].state \in {"ready", "superseded"} /\ g # usage.gen
    /\ usage' = [usage EXCEPT !.gen = g]
    /\ UNCHANGED <<disk, event, problem, nextGen, snaps, jobs, tasks, spent, notified, missed>>

\* Another job of the problem is leased: one of them runs at a time.
LeaseOtherJob ==
  /\ Holding({"running"}) = {}
  /\ uploads' = Fenced
  /\ UNCHANGED <<disk, event, rows, sched, run, watcher, spent, notified, missed>>

(***************************************************************************)
(* Faults, sweeps and time.                                                *)
(***************************************************************************)
\* A watcher that loses its lease abandons its upload, row and all.
WatcherUploads == {u \in uploads : u.by = "watcher"}

LoseLease ==
  /\ run # NoRun /\ Fault
  /\ uploads' = IF run.who = "watcher" THEN uploads \ WatcherUploads ELSE uploads
  /\ run' = NoRun
  /\ UNCHANGED <<disk, event, rows, sched, watcher, requests, waits, notified, missed>>

ControlPlaneRestart ==
  /\ Fault
  /\ sched' = [s \in Schedulers |-> Idle]
  /\ run' = IF run.who = "worker" THEN NoRun ELSE run
  /\ UNCHANGED <<disk, event, rows, watcher, uploads, requests, waits, notified, missed>>

DataPlaneRestart ==
  /\ Fault
  /\ event' = FALSE /\ watcher' = NotClaimed /\ uploads' = {}
  /\ run' = IF run.who = "watcher" THEN NoRun
            ELSE IF run.phase = "scanned" THEN [run EXCEPT !.phase = "broken"] ELSE run
  /\ missed' = (missed \/ event \/ watcher.busy)
  /\ UNCHANGED <<disk, rows, sched, requests, waits, notified>>

\* failStalledSnapshots: rows left active for six hours.
SweepStalled ==
  \E g \in Gens :
    /\ Stalled(g)
    /\ snaps' = [snaps EXCEPT ![g] = Snap("error")]
    /\ UNCHANGED <<disk, event, problem, nextGen, usage, jobs, tasks, requests, waits, notified, missed>>

\* Twenty-four hours after the last permanent failure.
BackoffExpires ==
  /\ Parked
  /\ IF disk \in Unusable THEN waits < MaxWaits /\ waits' = waits + 1 ELSE UNCHANGED waits
  /\ usage' = [usage EXCEPT !.failed = "old"]
  /\ UNCHANGED <<disk, event, problem, nextGen, snaps, jobs, tasks, requests, faults, notified, missed>>

\* purgeTerminalJobs deletes the oldest; no scheduler holds a key for as long
\* as the retention period.
PurgeTerminalJob ==
  /\ jobs # <<>> /\ Head(jobs).state \in {"completed", "failed"}
  /\ \A s \in Schedulers : sched[s].key # Head(jobs).key
  /\ jobs' = Tail(jobs)
  /\ UNCHANGED <<disk, event, problem, nextGen, usage, snaps, tasks, spent, notified, missed>>

Next ==
  \/ Edit
  \/ \E s \in Schedulers :
       \/ NotifyDirty(s) \/ ScheduleAgain(s) \/ ScheduleBatch(s)
       \/ RequestSnapshot(s) \/ BackfillSnapshot(s)
       \/ SchedulerStep(s)
  \/ AcquireJob \/ FailExpiredJob \/ WorkerScan \/ ClaimSnapshot
  \/ UploadLands \/ UploadFails
  \/ WorkerClears \/ CompleteJob \/ WorkerFails \/ WatcherFails
  \/ WatcherScan \/ WatcherClaim
  \/ ScanOverwrites \/ RecordReady \/ LeaseOtherJob
  \/ LoseLease \/ ControlPlaneRestart \/ DataPlaneRestart
  \/ SweepStalled \/ BackoffExpires \/ PurgeTerminalJob

Spec == Init /\ [][Next]_vars

(***************************************************************************)
(* Fairness: the loops of the worker, the maintenance timers and the data  *)
(* plane's tasks go on.  Nobody has to edit, notify, replay or request.    *)
(***************************************************************************)
Fairness ==
  /\ WF_vars(\E s \in Schedulers : ScheduleBatch(s))
  /\ \A s \in Schedulers : WF_vars(SchedulerStep(s))
  /\ WF_vars(AcquireJob) /\ WF_vars(FailExpiredJob)
  /\ WF_vars(WorkerScan) /\ WF_vars(ClaimSnapshot)
  /\ WF_vars(UploadLands \/ UploadFails)
  /\ WF_vars(WorkerClears) /\ WF_vars(CompleteJob)
  /\ WF_vars(WorkerFails) /\ WF_vars(WatcherFails)
  /\ WF_vars(WatcherScan) /\ WF_vars(WatcherClaim)
  /\ WF_vars(SweepStalled) /\ WF_vars(BackoffExpires) /\ WF_vars(PurgeTerminalJob)

FairSpec == Spec /\ Fairness

(***************************************************************************)
(* Properties.                                                             *)
(***************************************************************************)
Keys == {"none", "auto", "manual", "backfill", "watcher"} \X Nat \X Nat

\* TypeOK: the rows, leases and tasks have the shapes the code gives them,
\* and every reference to a generation names one that was allocated or named.
TypeOK ==
  /\ disk \in 0 .. MaxEdits /\ event \in BOOLEAN /\ missed \in BOOLEAN
  /\ problem \in [dirty : BOOLEAN, version : Nat \ {0}, gen : 0 .. MaxGen]
  /\ problem.dirty <=> problem.gen # 0
  /\ nextGen \in 1 .. MaxGen + 1
  /\ usage \in [gen : 0 .. MaxGen, failures : 0 .. Threshold,
                failed : {"never", "recent", "old"}, round : Nat]
  /\ Rounds # 0 => usage.round < Rounds
  /\ snaps \in [Gens -> [state : {"none", "active", "ready", "superseded", "error"},
                         content : 0 .. MaxEdits, integrity : BOOLEAN]]
  /\ \A i \in DOMAIN jobs :
       jobs[i] \in [key : Keys, gen : Gens, state : {"pending", "running", "completed", "failed"},
                    payload : Nat, attempt : 1 .. MaxAttempts]
  /\ Cardinality(Active) <= 1
  /\ sched \in [Schedulers -> [phase : {"idle", "picked", "allocate", "create", "payload"},
                               version : Nat, gen : 0 .. MaxGen, key : Keys]]
  /\ run \in [who : {"none", "worker", "watcher"}, key : Keys,
              phase : {"none", "start", "scanned", "waiting", "cleared", "landed", "failed", "broken"},
              gen : 0 .. MaxGen, version : Nat, content : 0 .. MaxEdits]
  /\ run # NoRun => \E i \in Holding({"running"}) : jobs[i].key = run.key /\ jobs[i].gen = run.gen
  /\ watcher \in [busy : BOOLEAN, content : 0 .. MaxEdits]
  /\ uploads \subseteq [gen : Gens, version : Nat, content : 0 .. MaxEdits, fenced : BOOLEAN,
                        by : {"worker", "watcher"}]
  /\ notified \in 0 .. MaxEdits

Backed(c) == \E g \in Gens : snaps[g].state = "ready" /\ snaps[g].content >= c

\* NothingLost: a problem reads clean only when a READY snapshot holds what
\* the OJ last notified, or the watcher still has the change to process.  The
\* dirty mark is withdrawn by finalize_snapshot_cas and by
\* clearDirtyAfterSnapshotForJob, each on a version read long before; only a
\* data plane restart, which drops unprocessed events, is excepted.
NothingLost ==
  ~problem.dirty => Backed(notified) \/ notified = 0 \/ event \/ watcher.busy \/ missed

\* ReadyForward: once a generation is READY, exactly one is, and it is never
\* an older one, whatever uploads land late and although scans and restores
\* rewrite the generation the READY transaction compares with
\* (finalize_snapshot_cas, idx_snapshots_one_ready_problem).
ReadyForward ==
  [][\A g \in Gens : snaps[g].state = "ready" =>
       \E h \in Gens : h >= g /\ \A k \in Gens : snaps'[k].state = "ready" <=> k = h]_vars

\* FreshRound: the key the next scheduler would build is never that of a
\* finished job, whose replay would schedule nothing
\* (docs/snapshot-backoff-retention.md:31-32).
FreshRound ==
  \A i \in Holding({"completed", "failed"}) :
    jobs[i].key # <<"auto", problem.version, usage.round>>

\* StaleFailureNotCounted: a snapshot job of an older dirty version fails
\* without counting against the edited problem
\* (postgres-contract.test.ts:614-615, docs/snapshot-backoff-retention.md:14-15).
StaleFailureNotCounted ==
  [][\A i \in Holding({"running"}) :
       /\ jobs[i].payload \notin {0, problem.version}
       /\ i \in DOMAIN jobs' /\ jobs'[i].state = "failed"
       => usage'.failures = usage.failures]_vars

\* BackedUp: once edits, requests and faults are over, usable content ends up
\* clean and backed up: retries, parked windows and abandoned rows included
\* (scheduleDirtySnapshotBatch under maintenance.ts:57-60).
BackedUp ==
  <>[](disk \in Unusable \/ missed \/ (~problem.dirty /\ (Backed(notified) \/ notified = 0)))
=============================================================================
