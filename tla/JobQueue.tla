------------------------------ MODULE JobQueue ------------------------------
(***************************************************************************)
(* The durable job queue: the jobs table and the per-problem fencing       *)
(* counters in PostgreSQL, the control plane's requests and worker loops,  *)
(* the data plane's watcher, and the fenced operations the workers start   *)
(* in the data plane.  One action is one committed statement or            *)
(* transaction; everything that can happen between two of them can happen  *)
(* between two actions.                                                    *)
(*                                                                         *)
(* A job's id is its place in creation order (created_at, id).  A lease is *)
(* live or expired; renewing a live lease leaves it live, so renewal is a  *)
(* stutter and expiry may strike whenever no renewal came in time.  A      *)
(* request's target stands for its target generation and fingerprint.      *)
(***************************************************************************)
EXTENDS Naturals, FiniteSets

CONSTANTS
  Problems,       \* external ids of problems
  Global,         \* the '__global__' counter key of jobs without a problem
  Loops,          \* worker loops of the control plane
  RestoreLoops,   \* those reserved for restore jobs
  Watcher,        \* the data plane's watcher loop
  Clients,        \* API callers and the automatic scheduler
  Requests,       \* what a client may ask: [key, type, prob, target]
  WatchedProblems,\* problems whose folder the watcher sees change
  Operators,      \* TRUE if operators cancel, retry and pause
  MaxJobs,        \* bound: rows of the jobs table
  MaxToken,       \* bound: value of a fencing counter
  MaxEditToken,   \* bound: counter value past which folders change no more
  MaxAttempts     \* jobs.max_attempts

JobId == 1..MaxJobs
Keys == Problems \cup {Global}
Workers == Loops \cup {Watcher}
LocalTypes == {"scan", "snapshot", "restore", "evict"}
JobTypes == LocalTypes \cup {"gc_collect", "backfill"}
UniqueTypes == LocalTypes \cup {"gc_collect"}
\* The job types whose effect the data plane fences on the problem.
FencedTypes == {"snapshot", "restore", "evict"}
\* A job inserted by the watcher has a key no client uses.
NoKey == "none"

ASSUME QueueAssumption ==
  /\ Global \notin Problems
  /\ Watcher \notin Loops
  /\ RestoreLoops \subseteq Loops
  /\ MaxJobs \in Nat /\ MaxToken \in Nat \ {0} /\ MaxEditToken \in 0..MaxToken /\ MaxAttempts \in Nat /\ MaxAttempts >= 2
  /\ WatchedProblems \subseteq Problems
  /\ Operators \in BOOLEAN
  /\ \A r \in Requests :
       /\ r.key # NoKey /\ r.target \in 0..MaxJobs
       /\ \/ r.type \in LocalTypes /\ r.prob \in Problems
          \/ r.type \in {"gc_collect", "backfill"} /\ r.prob = Global

VARIABLES
  jobs,       \* the jobs table
  nextToken,  \* job_fencing_counters.next_token
  paused,     \* queue_state.paused
  request,    \* each client's request in progress
  claim,      \* each worker's memory of the job it acquired
  ops,        \* operations in flight in the data plane
  effects     \* history: the operations whose effect was committed

vars == <<jobs, nextToken, paused, request, claim, ops, effects>>

JobStates == {"absent", "pending", "running", "completed", "failed", "cancelled"}
Absent == [state |-> "absent", type |-> "scan", prob |-> Global, target |-> 0,
           key |-> NoKey, owner |-> "none", token |-> 0, live |-> FALSE,
           attempt |-> 0, cancelReq |-> FALSE]
NoClaim == [job |-> 0, token |-> 0, phase |-> "idle"]
NoRequest == [stage |-> "idle", req |-> [key |-> NoKey, type |-> "scan",
              prob |-> Global, target |-> 0], seen |-> {}, keySeen |-> FALSE]

-----------------------------------------------------------------------------
(* Reading the table *)

Exists(j) == jobs[j].state # "absent"
Active(j) == jobs[j].state \in {"pending", "running"}
ActiveOn(k) == {j \in JobId : Active(j) /\ jobs[j].prob = k}

\* idx_jobs_one_active_problem_job_type and idx_jobs_one_active_gc_collect
TypeTaken(k, type) ==
  type \in UniqueTypes /\ \E j \in ActiveOn(k) : jobs[j].type = type

\* idx_jobs_one_running_problem_operation: a running local operation other than j
RunningElsewhere(j) ==
  \E i \in JobId \ {j} : /\ jobs[i].state = "running" /\ jobs[i].prob = jobs[j].prob
                         /\ jobs[i].type \in LocalTypes /\ jobs[j].type \in LocalTypes

\* The row the next INSERT fills.
NextRow(j) == ~Exists(j) /\ \A i \in JobId : i < j => Exists(i)

\* All worker loops of a control-plane process share one workerId.
OwnerOf(w) == IF w = Watcher THEN "rust" ELSE "ts"

\* What assertJobLease (and the WHERE of a completion) asks of the row.
HoldsLease(w) ==
  LET c == claim[w] IN
  /\ c.phase # "idle"
  /\ jobs[c.job].state = "running" /\ jobs[c.job].owner = OwnerOf(w)
  /\ jobs[c.job].token = c.token /\ jobs[c.job].live /\ ~jobs[c.job].cancelReq

\* Room left under MaxToken for one transaction.
Room(k) == nextToken[k] + 2 <= MaxToken

-----------------------------------------------------------------------------
(* Requests: createJob is one SQL statement, but its table snapshot is taken *)
(* before the advisory lock inside it is granted, so reading and deciding    *)
(* are two actions.                                                          *)

Replies == {"accepted", "refused", "key_conflict", "ready"}
Stages == {"idle", "read", "decide", "ensure"} \cup Replies

Answer(c, reply) ==
  request' = [request EXCEPT ![c].stage = reply, ![c].seen = {}, ![c].keySeen = FALSE]

KeyRows(r) == {j \in JobId : Exists(j) /\ jobs[j].key = r.key /\ jobs[j].type = r.type}
Identical(j, r) == /\ jobs[j].type = r.type /\ jobs[j].prob = r.prob
                   /\ jobs[j].target = r.target
Mutant_ReplayReply(r) == "accepted"   \* the rest of the request is not compared
ReplayReply(r) == IF \E j \in KeyRows(r) : Identical(j, r)
                  THEN "accepted" ELSE "key_conflict"

\* Active local operations that may not coexist with the request.
Incompatible(r, rows) ==
  {j \in rows : /\ jobs[j].type \in LocalTypes /\ r.prob \in Problems
                /\ {jobs[j].type, r.type} # {"scan", "snapshot"}}

PendingRow(r) == [Absent EXCEPT !.state = "pending", !.type = r.type, !.prob = r.prob,
                                !.target = r.target, !.key = r.key, !.attempt = 1]

\* The table with the pending jobs of these types on the problem cancelled.
CancelPending(p, types) ==
  [j \in JobId |-> IF jobs[j].state = "pending" /\ jobs[j].prob = p /\ jobs[j].type \in types
                   THEN [jobs[j] EXCEPT !.state = "cancelled"] ELSE jobs[j]]

\* A route validates and calls createJob; the restore route first commits
\* cancelPendingLocalJobsForRestore.
Submit(c, r) ==
  /\ request[c].stage \in Replies \cup {"idle"}
  /\ request' = [request EXCEPT ![c] = [NoRequest EXCEPT !.stage = "read", !.req = r]]
  /\ jobs' = IF r.type = "restore" THEN CancelPending(r.prob, {"scan", "snapshot"}) ELSE jobs
  /\ UNCHANGED <<nextToken, paused, claim, ops, effects>>

\* The statement takes its snapshot of the table and waits for the lock.
ReadTable(c) ==
  LET r == request[c].req IN
  /\ request[c].stage = "read"
  /\ request' = [request EXCEPT ![c].stage = "decide", ![c].seen = ActiveOn(r.prob),
                                ![c].keySeen = KeyRows(r) # {}]
  /\ UNCHANGED <<jobs, nextToken, paused, claim, ops, effects>>

\* Unlike the snapshot, ON CONFLICT and the unique indexes see the rows
\* committed since.
Mutant_Insert(c, r) ==   \* no ON CONFLICT, and no unique index on the key
  /\ ~TypeTaken(r.prob, r.type)
  /\ \E j \in JobId : NextRow(j) /\ jobs' = [jobs EXCEPT ![j] = PendingRow(r)]
  /\ Answer(c, "accepted")
Insert(c, r) ==
  \/ KeyRows(r) # {} /\ Answer(c, ReplayReply(r)) /\ UNCHANGED jobs
  \/ /\ KeyRows(r) = {} /\ TypeTaken(r.prob, r.type)
     /\ Answer(c, IF r.type = "gc_collect" THEN "accepted" ELSE "refused")
     /\ UNCHANGED jobs
  \/ /\ KeyRows(r) = {} /\ ~TypeTaken(r.prob, r.type)
     /\ \E j \in JobId : NextRow(j) /\ jobs' = [jobs EXCEPT ![j] = PendingRow(r)]
     /\ Answer(c, "accepted")

\* The rest of the statement, with the lock held.
CreateJob(c) ==
  LET r == request[c].req
      seen == request[c].seen
      same == {j \in seen : Identical(j, r)}
  IN
  /\ request[c].stage = "decide"
  /\ \/ /\ request[c].keySeen
        /\ Answer(c, ReplayReply(r)) /\ UNCHANGED jobs
     \/ /\ ~request[c].keySeen /\ same # {}
        /\ Answer(c, "accepted") /\ UNCHANGED jobs
     \/ /\ ~request[c].keySeen /\ same = {} /\ Incompatible(r, seen) # {}
        /\ Answer(c, IF KeyRows(r) # {} THEN "key_conflict" ELSE "refused")
        /\ UNCHANGED jobs
     \/ /\ ~request[c].keySeen /\ same = {} /\ Incompatible(r, seen) = {}
        /\ Insert(c, r)
  /\ UNCHANGED <<nextToken, paused, claim, ops, effects>>

\* The data plane holds the problem's advisory lock (namespace 2907).
LockHeld(p) == \E o \in ops : o.stage = "locked" /\ jobs[o.job].prob = p

\* The ensure-ready route: touchProblemAccess waits for a running eviction
\* and cancels a pending one.
SubmitEnsure(c, r) ==
  /\ r.type = "restore"
  /\ request[c].stage \in Replies \cup {"idle"}
  /\ ~LockHeld(r.prob)
  /\ request' = [request EXCEPT ![c] = [NoRequest EXCEPT !.stage = "ensure", !.req = r]]
  /\ jobs' = CancelPending(r.prob, {"evict"})
  /\ UNCHANGED <<nextToken, paused, claim, ops, effects>>

\* createRestoreJobIfMissing: one transaction under the operation lock.  A
\* refusal rolls back the cancellations it made.
EnsureRestore(c) ==
  LET r == request[c].req
      same == {j \in ActiveOn(r.prob) : Identical(j, r)}
      cancelled == CancelPending(r.prob, {"scan", "snapshot"})
      rivals == {j \in ActiveOn(r.prob) : /\ jobs[j].type \in LocalTypes
                                          /\ cancelled[j].state # "cancelled"}
  IN
  /\ request[c].stage = "ensure"
  /\ \/ KeyRows(r) # {} /\ Answer(c, ReplayReply(r)) /\ UNCHANGED jobs
     \/ KeyRows(r) = {} /\ same # {} /\ Answer(c, "accepted") /\ UNCHANGED jobs
     \/ /\ KeyRows(r) = {} /\ same = {}
        /\ \/ jobs' = cancelled /\ Answer(c, "ready")   \* the folder is back
           \/ rivals # {} /\ Answer(c, "refused") /\ UNCHANGED jobs
           \/ /\ rivals = {} /\ Answer(c, "accepted")
              /\ \E j \in JobId : /\ NextRow(j)
                                  /\ jobs' = [cancelled EXCEPT ![j] = PendingRow(r)]
  /\ UNCHANGED <<nextToken, paused, claim, ops, effects>>

-----------------------------------------------------------------------------
(* Leasing: acquireJob, failExpiredRunningJobs, cancelJob, retryJob *)

Mutant_Eligible(w) ==   \* no attempt limit
  {j \in JobId : /\ \/ jobs[j].state = "pending" /\ ~paused
                    \/ jobs[j].state = "running" /\ ~jobs[j].live
                 /\ w \in RestoreLoops => jobs[j].type = "restore"}
Eligible(w) ==
  {j \in JobId : /\ jobs[j].attempt < MaxAttempts
                 /\ \/ jobs[j].state = "pending" /\ ~paused
                    \/ jobs[j].state = "running" /\ ~jobs[j].live
                 /\ w \in RestoreLoops => jobs[j].type = "restore"}

\* The queue's order: restores first, then creation order.
Before(i, j) ==
  IF (jobs[i].type = "restore") = (jobs[j].type = "restore")
  THEN i < j ELSE jobs[i].type = "restore"

\* Every acquisition takes a new token of the job's problem.
Mutant_AcquiredToken(j) ==   \* a reclaimed lease keeps its token
  IF jobs[j].state = "running" THEN jobs[j].token ELSE nextToken[jobs[j].prob]
AcquiredToken(j) == nextToken[jobs[j].prob]

\* A reclaimed lease is another attempt.
LeasedRow(j, owner, t) ==
  [jobs[j] EXCEPT !.state = "running", !.owner = owner, !.live = TRUE, !.token = t,
                  !.attempt = IF jobs[j].state = "pending" THEN @ ELSE @ + 1]

\* acquireJob, when the rows in locked are skipped because another
\* transaction holds them.  A candidate whose problem is busy violates
\* idx_jobs_one_running_problem_operation and nothing is acquired.
AcquireJob(w, locked) ==
  \E j \in Eligible(w) \ locked :
    LET t == AcquiredToken(j) IN
    /\ claim[w].phase = "idle"
    /\ \A i \in Eligible(w) \ locked : i # j => Before(j, i)
    /\ ~RunningElsewhere(j)
    /\ Room(jobs[j].prob)
    /\ nextToken' = [nextToken EXCEPT ![jobs[j].prob] = @ + 1]
    /\ jobs' = [jobs EXCEPT ![j] = LeasedRow(j, OwnerOf(w), t)]
    /\ claim' = [claim EXCEPT ![w] = [job |-> j, token |-> t, phase |-> "claimed"]]
    /\ UNCHANGED <<paused, request, ops, effects>>

\* No renewal came before the deadline.
LeaseExpires(j) ==
  /\ jobs[j].state = "running" /\ jobs[j].live
  /\ jobs' = [jobs EXCEPT ![j].live = FALSE]
  /\ UNCHANGED <<nextToken, paused, request, claim, ops, effects>>

Mutant_Exhausted(k) ==   \* > for >=
  {j \in JobId : /\ jobs[j].state = "running" /\ ~jobs[j].live
                 /\ jobs[j].attempt > MaxAttempts /\ jobs[j].prob = k}
Exhausted(k) == {j \in JobId : /\ jobs[j].state = "running" /\ ~jobs[j].live
                               /\ jobs[j].attempt >= MaxAttempts /\ jobs[j].prob = k}

\* Tokens handed to the revoked jobs of a problem: ROW_NUMBER over the
\* old counter, the counter having moved past all of them.
Mutant_RevokedToken(j) == nextToken[jobs[j].prob]   \* one token for all
RevokedToken(j) ==
  nextToken[jobs[j].prob] + Cardinality({i \in Exhausted(jobs[j].prob) : i < j})

FailExpiredRunningJobs ==
  /\ \E k \in Keys : Exhausted(k) # {}
  /\ \A k \in Keys : nextToken[k] + Cardinality(Exhausted(k)) <= MaxToken
  /\ jobs' = [j \in JobId |-> IF j \in Exhausted(jobs[j].prob)
                THEN [jobs[j] EXCEPT !.state = "failed", !.token = RevokedToken(j)]
                ELSE jobs[j]]
  /\ nextToken' = [k \in Keys |-> nextToken[k] + Cardinality(Exhausted(k))]
  /\ UNCHANGED <<paused, request, claim, ops, effects>>

Mutant_CancelJob(j) ==   \* the token is not revoked
  /\ Operators /\ Active(j) /\ Room(jobs[j].prob)
  /\ jobs' = [jobs EXCEPT ![j] = [@ EXCEPT !.state = "cancelled", !.cancelReq = TRUE]]
  /\ UNCHANGED <<nextToken, paused, request, claim, ops, effects>>
CancelJob(j) ==
  LET k == jobs[j].prob IN
  /\ Operators /\ Active(j) /\ Room(k)
  /\ jobs' = [jobs EXCEPT ![j] = [@ EXCEPT !.state = "cancelled", !.cancelReq = TRUE,
                                           !.token = nextToken[k]]]
  /\ nextToken' = [nextToken EXCEPT ![k] = @ + 1]
  /\ UNCHANGED <<paused, request, claim, ops, effects>>

\* The unique indexes reject a retry beside an active job of its type.
RetryJob(j) ==
  /\ Operators /\ jobs[j].state \in {"failed", "cancelled"}
  /\ jobs[j].attempt < MaxAttempts
  /\ ~TypeTaken(jobs[j].prob, jobs[j].type)
  /\ jobs' = [jobs EXCEPT ![j] = [@ EXCEPT !.state = "pending", !.owner = "none",
                                           !.live = FALSE, !.cancelReq = FALSE]]
  /\ UNCHANGED <<nextToken, paused, request, claim, ops, effects>>

\* The pause and resume commands of the incident route.
SetPaused(on) ==
  /\ Operators /\ paused = ~on
  /\ paused' = on
  /\ UNCHANGED <<jobs, nextToken, request, claim, ops, effects>>

-----------------------------------------------------------------------------
(* Running a job *)

\* Two snapshot jobs of one generation share the snapshot row, and with it
\* the upload; any other operation belongs to its own acquisition.
SameOperation(o, w) ==
  LET c == claim[w] IN
  \/ c.job = o.job /\ c.token = o.token
  \/ /\ jobs[o.job].type = "snapshot" /\ jobs[c.job].type = "snapshot"
     /\ jobs[o.job].prob = jobs[c.job].prob /\ jobs[o.job].target = jobs[c.job].target

Landed(j) == \E e \in effects : /\ jobs[e.job].type = jobs[j].type
                                /\ jobs[e.job].prob = jobs[j].prob
                                /\ jobs[e.job].target = jobs[j].target

Goto(w, phase) == claim' = [claim EXCEPT ![w].phase = phase]

\* The claims with the workers waiting for operation o moved on.
Released(o, phase) ==
  [w \in Workers |-> IF claim[w].phase = "called" /\ SameOperation(o, w)
                     THEN [claim[w] EXCEPT !.phase = phase] ELSE claim[w]]

\* claim_snapshot returned the row of another run: the control plane polls
\* it, the watcher goes on to complete its job.
Mutant_JoinedPhase(w) == "done"   \* nobody polls
JoinedPhase(w) == IF w = Watcher THEN "done" ELSE "called"

\* After the guard, the worker does the job's work: a scan, a page of
\* backfill or a collection round needs no fence on a problem; the fenced
\* types call the data plane.  A call may fail before it has any effect; a
\* dry-run eviction, or one of a missing folder, succeeds without one.
StartOp(w) ==
  LET c == claim[w]
      type == jobs[c.job].type
      new == [job |-> c.job, token |-> c.token, stage |-> "called"]
      uploading == \E o \in ops : SameOperation(o, w)
  IN
  /\ c.phase = "claimed" /\ HoldsLease(w)
  /\ \/ Goto(w, "failed") /\ UNCHANGED ops
     \/ type \in JobTypes \ {"snapshot", "restore"} /\ Goto(w, "done") /\ UNCHANGED ops
     \/ type \in {"restore", "evict"} /\ Goto(w, "called") /\ ops' = ops \cup {new}
     \/ /\ type = "snapshot" /\ ~Landed(c.job) /\ ~uploading
        /\ Goto(w, "called") /\ ops' = ops \cup {new}
     \/ /\ type = "snapshot" /\ ~Landed(c.job) /\ uploading
        /\ Goto(w, JoinedPhase(w)) /\ UNCHANGED ops
     \/ type = "snapshot" /\ Landed(c.job) /\ Goto(w, "done") /\ UNCHANGED ops
  /\ UNCHANGED <<jobs, nextToken, paused, request, effects>>

\* ensure_latest_fencing_tx: MAX(fencing_token) over every job of the problem.
Mutant_NotFenced(o) == jobs[o.job].token <= o.token   \* only its own job
NotFenced(o) ==
  \A j \in JobId : jobs[j].prob = jobs[o.job].prob => jobs[j].token <= o.token

\* The operation takes the problem's advisory lock and passes the fence.
OpEnter(o) ==
  /\ o.stage = "called" /\ ~LockHeld(jobs[o.job].prob) /\ NotFenced(o)
  /\ ops' = (ops \ {o}) \cup {[o EXCEPT !.stage = "locked"]}
  /\ UNCHANGED <<jobs, nextToken, paused, request, claim, effects>>

\* It commits, which publishes its effect and releases the lock.
OpLand(o) ==
  /\ o.stage = "locked"
  /\ ops' = ops \ {o}
  /\ effects' = effects \cup {[job |-> o.job, token |-> o.token]}
  /\ claim' = Released(o, "done")
  /\ UNCHANGED <<jobs, nextToken, paused, request>>

\* It ends without effect: fenced off, a failed check, an I/O error, or the
\* row of a dead upload declared stalled (failStalledSnapshots).
OpFails(o) ==
  /\ ops' = ops \ {o}
  /\ claim' = Released(o, "failed")
  /\ UNCHANGED <<jobs, nextToken, paused, request, effects>>

\* The control plane stops waiting (HTTP timeout, SNAPSHOT_WAIT_MS); the
\* operation goes on in the data plane.
Timeout(w) ==
  /\ w \in Loops /\ claim[w].phase = "called"
  /\ Goto(w, "failed")
  /\ UNCHANGED <<jobs, nextToken, paused, request, ops, effects>>

Drop(w) == claim' = [claim EXCEPT ![w] = NoClaim]

\* completeJobWithLease: completed after success, failed after an error.
Finish(w) ==
  /\ w \in Loops /\ claim[w].phase \in {"done", "failed"} /\ HoldsLease(w)
  /\ jobs' = [jobs EXCEPT ![claim[w].job].state =
                IF claim[w].phase = "done" THEN "completed" ELSE "failed"]
  /\ Drop(w)
  /\ UNCHANGED <<nextToken, paused, request, ops, effects>>

\* JobLeaseLostError, a database error, or a restart of the control plane:
\* the worker forgets the job and leaves its row alone.
Abandon(w) ==
  /\ w \in Loops /\ claim[w].phase # "idle"
  /\ Drop(w)
  /\ UNCHANGED <<jobs, nextToken, paused, request, ops, effects>>

-----------------------------------------------------------------------------
(* The data plane's watcher *)

\* GREATEST(next_token, MAX(fencing_token) + 1)
IsBaseToken(p, t) ==
  /\ t >= nextToken[p]
  /\ \A j \in JobId : jobs[j].prob = p => jobs[j].token < t
  /\ t = nextToken[p] \/ \E j \in JobId : jobs[j].prob = p /\ jobs[j].token + 1 = t

WatcherLeases(j, row, t) ==
  /\ jobs' = [jobs EXCEPT ![j] = [row EXCEPT !.state = "running", !.owner = OwnerOf(Watcher),
                                             !.live = TRUE, !.token = t]]
  /\ claim' = [claim EXCEPT ![Watcher] = [job |-> j, token |-> t, phase |-> "claimed"]]

\* A generation allocated for the edit: no request names it.
WatcherRow(p, j) == [Absent EXCEPT !.type = "snapshot", !.prob = p,
                                   !.target = MaxJobs + j, !.attempt = 1]

\* acquire_dirty_snapshot_job_by_code for a changed folder: adopt the pending
\* snapshot job, or insert a running one.  Another running operation of the
\* problem violates the index and rolls everything back; a running snapshot
\* leaves only the counter moved (twice: the second CTE always runs).
WatcherClaim(p) ==
  \E base \in 1..MaxToken :
    LET snapshots == {j \in ActiveOn(p) : jobs[j].type = "snapshot"} IN
    /\ claim[Watcher].phase = "idle" /\ ~LockHeld(p)
    /\ IsBaseToken(p, base) /\ base + 2 <= MaxEditToken
    /\ nextToken' = [nextToken EXCEPT ![p] = base + 2]
    /\ \/ \E j \in snapshots :
            /\ jobs[j].state = "pending" /\ ~RunningElsewhere(j)
            /\ WatcherLeases(j, [jobs[j] EXCEPT !.attempt = @ + 1], base + 1)
       \/ /\ \E j \in snapshots : jobs[j].state = "running"
          /\ UNCHANGED <<jobs, claim>>
       \/ /\ snapshots = {}
          /\ \A j \in ActiveOn(p) : ~(jobs[j].state = "running" /\ jobs[j].type \in LocalTypes)
          /\ \E j \in JobId : NextRow(j) /\ WatcherLeases(j, WatcherRow(p, j), base)
    /\ UNCHANGED <<paused, request, ops, effects>>

\* Dropping the watcher's future leaves its upload's row behind.
Orphaned(o) == [o EXCEPT !.stage = "orphan"]
WatcherUpload(o) == o.job = claim[Watcher].job /\ o.token = claim[Watcher].token
WithoutWatcherUpload == {IF WatcherUpload(o) THEN Orphaned(o) ELSE o : o \in ops}

\* What complete_job and fail_job ask of the row.
WatcherRowMatches ==
  LET row == jobs[claim[Watcher].job] IN
  /\ row.state = "running" /\ row.owner = OwnerOf(Watcher)
  /\ row.token = claim[Watcher].token

WatcherComplete ==
  /\ claim[Watcher].phase = "done" /\ WatcherRowMatches /\ jobs[claim[Watcher].job].live
  /\ jobs' = [jobs EXCEPT ![claim[Watcher].job].state = "completed"]
  /\ Drop(Watcher)
  /\ UNCHANGED <<nextToken, paused, request, ops, effects>>

Mutant_FailedState(j) ==   \* <= for <
  IF jobs[j].attempt <= MaxAttempts THEN "pending" ELSE "failed"
FailedState(j) == IF jobs[j].attempt < MaxAttempts THEN "pending" ELSE "failed"

\* An error of the work, or a renewal that failed: fail_job puts the job
\* back in the queue while attempts remain.
WatcherFail ==
  LET j == claim[Watcher].job IN
  /\ claim[Watcher].phase # "idle"
  /\ ops' = WithoutWatcherUpload
  /\ \/ /\ WatcherRowMatches
        /\ jobs' = [jobs EXCEPT ![j] = [@ EXCEPT !.state = FailedState(j),
                                                 !.owner = "none", !.live = FALSE]]
     \/ UNCHANGED jobs   \* no row matches, or the update itself failed
  /\ Drop(Watcher)
  /\ UNCHANGED <<nextToken, paused, request, effects>>

\* The data plane dies: calls in flight fail, uploads leave their rows.
DataPlaneRestart ==
  /\ Operators
  /\ ops' = {Orphaned(o) : o \in {p \in ops : jobs[p.job].type = "snapshot"}}
  /\ claim' = [w \in Workers |->
       IF w = Watcher THEN NoClaim
       ELSE IF claim[w].phase = "called" /\ jobs[claim[w].job].type # "snapshot"
            THEN [claim[w] EXCEPT !.phase = "failed"] ELSE claim[w]]
  /\ UNCHANGED <<jobs, nextToken, paused, request, effects>>

-----------------------------------------------------------------------------
(* The specification *)

Init ==
  /\ jobs = [j \in JobId |-> Absent]
  /\ nextToken = [k \in Keys |-> 1]
  /\ paused = FALSE
  /\ request = [c \in Clients |-> NoRequest]
  /\ claim = [w \in Workers |-> NoClaim]
  /\ ops = {} /\ effects = {}

ClientStep ==
  \E c \in Clients :
    \/ \E r \in Requests : Submit(c, r) \/ SubmitEnsure(c, r)
    \/ ReadTable(c)
    \/ CreateJob(c)
    \/ EnsureRestore(c)

\* At most one row is locked by someone else while acquireJob selects.
WorkerStep ==
  \E w \in Workers :
    \/ w \in Loops /\ \E locked \in {{}} \cup {{j} : j \in JobId} : AcquireJob(w, locked)
    \/ StartOp(w)
    \/ Timeout(w)
    \/ Finish(w)
    \/ Abandon(w)

WatcherStep ==
  \/ \E p \in WatchedProblems : WatcherClaim(p)
  \/ WatcherComplete
  \/ WatcherFail

DataPlaneStep == \E o \in ops : OpEnter(o) \/ OpLand(o) \/ OpFails(o)

QueueStep ==
  \/ FailExpiredRunningJobs
  \/ DataPlaneRestart
  \/ \E j \in JobId : LeaseExpires(j) \/ CancelJob(j) \/ RetryJob(j)
  \/ \E on \in BOOLEAN : SetPaused(on)

Next == ClientStep \/ WorkerStep \/ WatcherStep \/ DataPlaneStep \/ QueueStep

Spec == Init /\ [][Next]_vars

\* The lease of j belongs to nobody: no worker remembers this acquisition.
Unattended(j) == \A w \in Workers : ~(claim[w].job = j /\ claim[w].token = jobs[j].token)

\* Loops poll forever; calls return or time out; a lease nobody renews
\* runs out; requests are processed.
Fairness ==
  /\ \A c \in Clients : WF_vars(ReadTable(c)) /\ WF_vars(CreateJob(c)) /\ WF_vars(EnsureRestore(c))
  /\ \A w \in Loops : /\ WF_vars(AcquireJob(w, {}))
                      /\ WF_vars(StartOp(w))
                      /\ WF_vars(Timeout(w))
                      /\ WF_vars(Finish(w))
                      /\ WF_vars(~HoldsLease(w) /\ Abandon(w))
  /\ WF_vars(StartOp(Watcher)) /\ WF_vars(WatcherComplete \/ WatcherFail)
  /\ \A j \in JobId : WF_vars(Unattended(j) /\ LeaseExpires(j))
  /\ WF_vars(FailExpiredRunningJobs)

FairSpec == Spec /\ Fairness

-----------------------------------------------------------------------------
(* Properties *)

Token == 0..MaxToken
Target == 0..(2 * MaxJobs)
IdempotencyKey == {r.key : r \in Requests} \cup {NoKey}
JobRow == [state : JobStates, type : JobTypes, prob : Keys, target : Target,
           key : IdempotencyKey, owner : {"none", "ts", "rust"},
           token : Token, live : BOOLEAN, attempt : 0..MaxAttempts, cancelReq : BOOLEAN]
Operation == [job : JobId, token : Token, stage : {"called", "locked", "orphan"}]
Phases == {"claimed", "called", "done", "failed"}
ReqRecord == Requests \cup {NoRequest.req}

\* Types of the tables, of the processes' memory and of the operations in
\* flight; it bounds attempt by max_attempts (acquireJob, claim and fail_job).
TypeOK ==
  /\ jobs \in [JobId -> JobRow]
  /\ nextToken \in [Keys -> Token \ {0}]
  /\ paused \in BOOLEAN
  /\ request \in [Clients -> [stage : Stages, req : ReqRecord,
                              seen : SUBSET JobId, keySeen : BOOLEAN]]
  /\ claim \in [Workers -> [job : JobId, token : Token, phase : Phases] \cup {NoClaim}]
  /\ ops \subseteq Operation
  /\ effects \subseteq [job : JobId, token : Token]

\* Two workers never both pass the lease check (assertJobLease,
\* assert_job_lease) for the same job, nor for local operations of one
\* problem, although all loops of the control plane share one lease_owner.
LeaseExclusive ==
  \A v, w \in Workers :
    v # w /\ HoldsLease(v) /\ HoldsLease(w) =>
      /\ claim[v].job # claim[w].job
      /\ \/ jobs[claim[v].job].prob # jobs[claim[w].job].prob
         \/ jobs[claim[v].job].type \notin LocalTypes
         \/ jobs[claim[w].job].type \notin LocalTypes

\* Fencing: the effects committed on a problem have strictly increasing
\* tokens, so a worker that lost its lease, or a call the control plane gave
\* up on, never publishes over the work of a later acquisition.
EffectsInTokenOrder ==
  [][\A e \in effects' \ effects : \A d \in effects :
       jobs[d.job].prob = jobs[e.job].prob => d.token < e.token]_vars

\* A revoked acquisition (reclaimed, expired for good, or cancelled by an
\* operator) passes the fence no more: when an operation enters, the row of
\* its job still carries its token and no cancellation was requested.
RevokedNeverEnters ==
  [][\A o \in ops' \ ops :
       o.stage = "locked" => jobs[o.job].token = o.token /\ ~jobs[o.job].cancelReq]_vars

\* A snapshot or restore the control plane reports completed has really
\* been published, even when another worker's upload did it.
CompletedHasEffect ==
  \A j \in JobId :
    /\ jobs[j].state = "completed" /\ jobs[j].owner = "ts"
    /\ jobs[j].type \in {"snapshot", "restore"}
    => Landed(j)

\* fail_job and retryJob never queue a job that acquireJob would skip for
\* ever because its attempts are used up.
PendingCanRun ==
  \A j \in JobId : jobs[j].state = "pending" => jobs[j].attempt < MaxAttempts

\* No two jobs of a problem carry the same token, whoever assigned them:
\* acquireJob, the watcher (which allocates twice), cancelJob, or the ranks
\* of failExpiredRunningJobs.
TokensUnique ==
  \A i, j \in JobId :
    i # j /\ jobs[i].prob = jobs[j].prob /\ jobs[i].token # 0 => jobs[i].token # jobs[j].token

\* An idempotency key names one job of a type for ever, also when two
\* requests with the key read the table before either inserts.
KeyNamesOneJob ==
  \A i, j \in JobId :
    i # j /\ jobs[i].key # NoKey /\ jobs[i].key = jobs[j].key => jobs[i].type # jobs[j].type

\* A job does what a request asks; a collection in progress serves every
\* request for one, whatever batch it names.
Serves(j, r) ==
  \/ Identical(j, r)
  \/ r.type = "gc_collect" /\ jobs[j].type = "gc_collect" /\ jobs[j].prob = r.prob

\* A request answered with a job is answered with one that does what it
\* asks (replay, coalescing and insertion alike).
AcceptedIsServed ==
  \A c \in Clients : request[c].stage = "accepted" => \E j \in JobId : Exists(j) /\ Serves(j, request[c].req)

\* Every job the queue accepts is eventually completed, failed or cancelled,
\* whatever worker dies holding it.
JobsSettle == \A j \in JobId : Active(j) ~> ~Active(j)

\* A restore never queues behind other work: while it is the only active job
\* of its problem, the loops reserved for restores eventually claim it.
RestoreNeverQueues ==
  \A j \in JobId :
    LET waiting == /\ jobs[j].state = "pending" /\ jobs[j].type = "restore"
                   /\ ActiveOn(jobs[j].prob) = {j}
    IN waiting ~> ~waiting

\* A request is refused only because an operation of another kind or target
\* is active on the problem; requests for the same work coalesce.
SameWorkCoalesces ==
  [][\A c \in Clients :
       request[c].stage = "decide" /\ request'[c].stage = "refused" =>
         \E j \in ActiveOn(request[c].req.prob) : ~Identical(j, request[c].req)]_vars

-----------------------------------------------------------------------------
(* The inductive invariant behind LeaseExclusive and the fencing properties *)

SameProblem(i, j) == jobs[i].prob = jobs[j].prob
Claimed(w) == claim[w].phase # "idle"

\* The counter of a problem is ahead of every token given to its jobs.
CounterAhead == \A j \in JobId : jobs[j].token < nextToken[jobs[j].prob]

\* What workers, operations and effects remember is a row and a token it
\* carries or carried.
Remembers(x) == Exists(x.job) /\ x.token <= jobs[x.job].token
MemoryBehind ==
  /\ \A w \in Workers : Claimed(w) => Remembers(claim[w])
  /\ \A o \in ops : Remembers(o)
  /\ \A e \in effects : Remembers(e)

\* Nobody shares a token: neither two workers, nor two operations, nor an
\* operation and an effect, nor a worker yet to start and an operation.
ClaimsDistinct ==
  \A v, w \in Workers :
    v # w /\ Claimed(v) /\ Claimed(w) /\ SameProblem(claim[v].job, claim[w].job)
    => claim[v].token # claim[w].token
UnusedToken(x) ==
  /\ \A o \in ops : SameProblem(o.job, x.job) => o.token # x.token
  /\ \A e \in effects : SameProblem(e.job, x.job) => e.token # x.token
OpsDistinct ==
  /\ \A w \in Workers : claim[w].phase = "claimed" => UnusedToken(claim[w])
  /\ \A o, q \in ops : o # q /\ SameProblem(o.job, q.job) => o.token # q.token
  /\ \A o \in ops : \A e \in effects : SameProblem(e.job, o.job) => e.token # o.token

\* The advisory lock: one operation of a problem inside, above all effects.
LockSound ==
  /\ \A o, q \in ops :
       o.stage = "locked" /\ q.stage = "locked" /\ SameProblem(o.job, q.job) => o = q
  /\ \A o \in ops : \A e \in effects :
       o.stage = "locked" /\ SameProblem(e.job, o.job) => e.token < o.token

\* idx_jobs_one_running_problem_operation.
OneRunning ==
  \A i, j \in JobId :
    /\ i # j /\ SameProblem(i, j)
    /\ jobs[i].type \in LocalTypes /\ jobs[j].type \in LocalTypes
    => ~(jobs[i].state = "running" /\ jobs[j].state = "running")

\* A cancellation leaves no operation with the row's token.
CancelRevokes == \A o \in ops : jobs[o.job].token = o.token => ~jobs[o.job].cancelReq

IInv ==
  /\ TypeOK /\ PendingCanRun /\ CounterAhead /\ MemoryBehind /\ ClaimsDistinct
  /\ OpsDistinct /\ LockSound /\ OneRunning /\ CancelRevokes

-----------------------------------------------------------------------------
(* What the promises made to clients need besides IInv *)

\* A row nothing was inserted into holds no key.
AbsentBlank == \A j \in JobId : ~Exists(j) => jobs[j].key = NoKey

\* The rows a statement's snapshot of the table holds are never deleted.
SeenExist == \A c \in Clients : \A j \in request[c].seen : Exists(j)

\* A loop about to report a snapshot or a restore done has seen it published.
DoneHasEffect ==
  \A w \in Loops :
    /\ claim[w].phase = "done" /\ jobs[claim[w].job].type \in {"snapshot", "restore"}
    => Landed(claim[w].job)

ServiceInv ==
  /\ IInv /\ TokensUnique /\ AbsentBlank /\ KeyNamesOneJob
  /\ SeenExist /\ AcceptedIsServed /\ DoneHasEffect /\ CompletedHasEffect
=============================================================================
