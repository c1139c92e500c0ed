------------------------------ MODULE Backfill ------------------------------
(***************************************************************************)
(* Backfill of a capability over all problems (routes.ts, worker.ts).  The *)
(* start route marks backfill_state running and creates a page job; every  *)
(* page job reads the cursor, lists the next problems, works on each,      *)
(* writes cursor and status back and creates the next page's job.  None of *)
(* these statements shares a transaction with another, and the write of    *)
(* backfill_state does not ask for the job's lease: an executor that lost  *)
(* it counts the rest of its page as errors and goes on.                   *)
(*                                                                         *)
(* A job's fencing token is its attempt: every acquisition of a backfill   *)
(* job but the first raises it.  The order of acquisition is left open.    *)
(***************************************************************************)
EXTENDS Naturals, FiniteSets

CONSTANTS
  Ids,         \* ids of problems, in the order of the listing
  Limit,       \* problems to a page
  Started,     \* the capabilities operators start
  Admins,      \* start requests that may be in progress at once
  Loops,       \* worker loops
  MaxJobs,     \* bound: rows of the jobs table
  MaxAttempts, \* jobs.max_attempts
  MaxExpiries  \* bound: leases that run out

\* The capability of a page job without a payload (worker.ts:207).
Default == "accounting"
Caps == Started \cup {Default}
JobId == 1..MaxJobs

ASSUME BackfillAssumption ==
  /\ Ids \subseteq Nat \ {0} /\ IsFiniteSet(Ids)
  /\ Limit \in Nat \ {0}
  /\ MaxJobs \in Nat /\ MaxAttempts \in Nat \ {0} /\ MaxExpiries \in Nat

VARIABLES
  problems,  \* the problems table
  state,     \* backfill_state: status and cursor of each capability (0: NULL)
  jobs,      \* backfill jobs
  admin,     \* start requests in progress
  exec,      \* what each loop is doing
  expired,   \* leases that ran out so far
  begun,     \* history: capabilities of which a page was listed
  since,     \* history: problems that have been there since the first page was listed
  attended   \* history: problems a page has worked on, done or counted as an error

history == <<begun, since, attended>>
vars == <<problems, state, jobs, admin, exec, expired, history>>

None == "none"
Statuses == {None, "running", "paused", "completed"}
JobStates == {"absent", "pending", "running", "completed", "failed"}
Places == {"idle", "cursor", "list", "items", "create", "payload", "finish"}
Absent == [state |-> "absent", cap |-> None, print |-> [page |-> FALSE, cap |-> None, cursor |-> 0],
           parent |-> 0, attempt |-> 1, live |-> FALSE]
Idle == [at |-> "idle", job |-> 0, token |-> 0, cap |-> None, cursor |-> 0,
         todo |-> {}, more |-> FALSE, next |-> 0, child |-> 0]
NoStart == [at |-> "idle", cap |-> None, job |-> 0]

-----------------------------------------------------------------------------
(* Listing and the jobs table *)

\* listProblems(sort external_id, asc) after a cursor, and its next_cursor.
Beyond(c) == {p \in problems : p > c}
Page(c) == {p \in Beyond(c) : Cardinality({q \in Beyond(c) : q < p}) < Limit}
HasMore(c) == Cardinality(Beyond(c)) > Limit
Mutant_EndsAt(p, c) == p \in Beyond(c) \ Page(c)
EndsAt(p, c) == p \in Page(c) /\ \A q \in Page(c) : q <= p

Active(j) == jobs[j].state \in {"pending", "running"}
HoldsLease(w) ==
  LET j == exec[w].job IN
  /\ exec[w].at # "idle"
  /\ jobs[j].state = "running" /\ jobs[j].live /\ jobs[j].attempt = exec[w].token

\* What acquireJob picks: a pending job, or a running one whose lease ran out.
Mutant_Claimable(j) ==
  /\ jobs[j].attempt <= MaxAttempts
  /\ jobs[j].state = "pending" \/ (jobs[j].state = "running" /\ ~jobs[j].live)
Claimable(j) ==
  /\ jobs[j].attempt < MaxAttempts
  /\ jobs[j].state = "pending" \/ (jobs[j].state = "running" /\ ~jobs[j].live)

\* Rows createJob answers with instead of inserting one: the key's, or an
\* active one with the same fingerprint.  A start names its key by the job it
\* created (0: a new key), a page by its parent and cursor.
KeyRow(parent, print) ==
  {j \in JobId : /\ jobs[j].state # "absent" /\ parent # 0
                 /\ jobs[j].parent = parent /\ jobs[j].print = print}
SameWork(print) == {j \in JobId : Active(j) /\ jobs[j].print = print}
NextRow(j) == jobs[j].state = "absent" /\ \A i \in JobId : i < j => jobs[i].state # "absent"

\* createJob: j is the row it returns.
Create(j, parent, print) ==
  \/ /\ j \in KeyRow(parent, print)
     /\ UNCHANGED jobs
  \/ /\ KeyRow(parent, print) = {} /\ j \in SameWork(print)
     /\ UNCHANGED jobs
  \/ /\ KeyRow(parent, print) = {} /\ SameWork(print) = {} /\ NextRow(j)
     /\ jobs' = [jobs EXCEPT ![j] = [state |-> "pending", cap |-> None, print |-> print,
                                     parent |-> parent, attempt |-> 1, live |-> FALSE]]

\* setJobPayload writes only while the job is pending.
SetPayload(j, cap) ==
  jobs' = IF jobs[j].state = "pending" THEN [jobs EXCEPT ![j].cap = cap] ELSE jobs

-----------------------------------------------------------------------------
(* POST /backfill/:capability/start and /pause *)

StartPrint(cap) == [page |-> FALSE, cap |-> cap, cursor |-> 0]
PagePrint(cap, c) == [page |-> TRUE, cap |-> cap, cursor |-> c]

\* The upsert of backfill_state; a running backfill is refused with 409.
StartState(a, cap) ==
  /\ admin[a].at = "idle"
  /\ state[cap].status # "running"
  /\ state' = [state EXCEPT ![cap].status = "running"]
  /\ admin' = [admin EXCEPT ![a] = [at |-> "create", cap |-> cap, job |-> 0]]
  /\ UNCHANGED <<problems, jobs, exec, expired, history>>

\* createJob under a new key, or under the key of an earlier start, whose job
\* is answered whatever became of it.
StartJob(a, j) ==
  LET cap == admin[a].cap IN
  /\ admin[a].at = "create"
  /\ \/ Create(j, 0, StartPrint(cap))
     \/ jobs[j].state # "absent" /\ jobs[j].print = StartPrint(cap) /\ UNCHANGED jobs
  /\ admin' = [admin EXCEPT ![a].at = "payload", ![a].job = j]
  /\ UNCHANGED <<problems, state, exec, expired, history>>

StartPayload(a) ==
  /\ admin[a].at = "payload"
  /\ SetPayload(admin[a].job, admin[a].cap)
  /\ admin' = [admin EXCEPT ![a] = NoStart]
  /\ UNCHANGED <<problems, state, exec, expired, history>>

\* The control plane dies, or createJob refuses a key used for something else.
StartFails(a) ==
  /\ admin[a].at # "idle"
  /\ admin' = [admin EXCEPT ![a] = NoStart]
  /\ UNCHANGED <<problems, state, jobs, exec, expired, history>>

Pause(cap) ==
  /\ state[cap].status # None
  /\ state' = [state EXCEPT ![cap].status = "paused"]
  /\ UNCHANGED <<problems, jobs, admin, exec, expired, history>>

-----------------------------------------------------------------------------
(* JobWorker.backfill *)

\* acquireJob: the row it returns has the payload, if that has been written.
Acquire(w, j) ==
  LET token == IF jobs[j].state = "pending" THEN jobs[j].attempt ELSE jobs[j].attempt + 1
      cap == IF jobs[j].cap = None THEN Default ELSE jobs[j].cap
  IN
  /\ exec[w].at = "idle"
  /\ Claimable(j)
  /\ jobs' = [jobs EXCEPT ![j].state = "running", ![j].live = TRUE, ![j].attempt = token]
  /\ exec' = [exec EXCEPT ![w] = [Idle EXCEPT !.at = "cursor", !.job = j, !.token = token, !.cap = cap]]
  /\ UNCHANGED <<problems, state, admin, expired, history>>

ReadCursor(w) ==
  /\ exec[w].at = "cursor"
  /\ exec' = [exec EXCEPT ![w].at = "list", ![w].cursor = state[exec[w].cap].cursor]
  /\ UNCHANGED <<problems, state, jobs, admin, expired, history>>

ListPage(w) ==
  LET c == exec[w].cursor IN
  /\ exec[w].at = "list"
  /\ begun' = begun \cup {exec[w].cap}
  /\ \/ /\ HasMore(c)
        /\ \E p \in Ids : /\ EndsAt(p, c)
                          /\ exec' = [exec EXCEPT ![w].at = "items", ![w].todo = Page(c),
                                                  ![w].more = TRUE, ![w].next = p]
     \/ /\ ~HasMore(c)
        /\ exec' = [exec EXCEPT ![w].at = "items", ![w].todo = Page(c),
                                ![w].more = FALSE, ![w].next = 0]
  /\ UNCHANGED <<problems, state, jobs, admin, expired, since, attended>>

\* One problem of the page.  A lost lease is noticed here, inside the loop's
\* try: like every other failure it is counted and the page goes on.
WorkOn(w, p) ==
  /\ exec[w].at = "items"
  /\ p \in exec[w].todo /\ \A q \in exec[w].todo : p <= q
  /\ exec' = [exec EXCEPT ![w].todo = @ \ {p}]
  /\ attended' = [attended EXCEPT ![exec[w].cap] = @ \cup {p}]
  /\ UNCHANGED <<problems, state, jobs, admin, expired, begun, since>>

\* UPDATE backfill_state: no row, no effect; no question about the lease or
\* about a pause.
Publish(w) ==
  LET e == exec[w] IN
  /\ e.at = "items" /\ e.todo = {}
  /\ state' = IF state[e.cap].status = None THEN state
              ELSE [state EXCEPT ![e.cap] = [status |-> IF e.more THEN "running" ELSE "completed",
                                             cursor |-> e.next]]
  /\ exec' = [exec EXCEPT ![w].at = IF e.more THEN "create" ELSE "finish"]
  /\ UNCHANGED <<problems, jobs, admin, expired, history>>

CreateNext(w, j) ==
  LET e == exec[w] IN
  /\ e.at = "create"
  /\ Create(j, e.job, PagePrint(e.cap, e.next))
  /\ exec' = [exec EXCEPT ![w].at = "payload", ![w].child = j]
  /\ UNCHANGED <<problems, state, admin, expired, history>>

NextPayload(w) ==
  /\ exec[w].at = "payload"
  /\ SetPayload(exec[w].child, exec[w].cap)
  /\ exec' = [exec EXCEPT ![w].at = "finish"]
  /\ UNCHANGED <<problems, state, admin, expired, history>>

\* A finished row: its result has replaced the payload and its lease says no more.
Ended(j, result) == [jobs EXCEPT ![j] = [@ EXCEPT !.state = result, !.cap = None, !.live = FALSE]]

\* completeJobWithLease
End(w, result) ==
  /\ jobs' = IF HoldsLease(w) THEN Ended(exec[w].job, result) ELSE jobs
  /\ exec' = [exec EXCEPT ![w] = Idle]

Finish(w) ==
  /\ exec[w].at = "finish"
  /\ End(w, "completed")
  /\ UNCHANGED <<problems, state, admin, expired, history>>

\* A statement outside the loop's try throws: the job fails for good.
Fail(w) ==
  /\ exec[w].at \notin {"idle", "items"} \/ (exec[w].at = "items" /\ exec[w].todo = {})
  /\ End(w, "failed")
  /\ UNCHANGED <<problems, state, admin, expired, history>>

\* The process dies between two statements; the lease is all that is left.
Die(w) ==
  /\ exec[w].at # "idle"
  /\ exec' = [exec EXCEPT ![w] = Idle]
  /\ UNCHANGED <<problems, state, jobs, admin, expired, history>>

Expire(j) ==
  /\ jobs[j].state = "running" /\ jobs[j].live /\ expired < MaxExpiries
  /\ jobs' = [jobs EXCEPT ![j].live = FALSE]
  /\ expired' = expired + 1
  /\ UNCHANGED <<problems, state, admin, exec, history>>

\* failExpiredRunningJobs
FailExpired(j) ==
  /\ jobs[j].state = "running" /\ ~jobs[j].live /\ jobs[j].attempt >= MaxAttempts
  /\ jobs' = Ended(j, "failed")
  /\ UNCHANGED <<problems, state, admin, exec, expired, history>>

\* The catalogue gains and loses problems.
Appear(p) ==
  /\ p \notin problems
  /\ problems' = problems \cup {p}
  /\ since' = [cap \in Caps |-> IF cap \in begun THEN since[cap] ELSE problems']
  /\ UNCHANGED <<state, jobs, admin, exec, expired, begun, attended>>

Vanish(p) ==
  /\ p \in problems
  /\ problems' = problems \ {p}
  /\ since' = [cap \in Caps |-> since[cap] \ {p}]
  /\ UNCHANGED <<state, jobs, admin, exec, expired, begun, attended>>

-----------------------------------------------------------------------------
Init ==
  /\ problems \in SUBSET Ids
  /\ state = [cap \in Caps |-> [status |-> None, cursor |-> 0]]
  /\ jobs = [j \in JobId |-> Absent]
  /\ admin = [a \in Admins |-> NoStart]
  /\ exec = [w \in Loops |-> Idle]
  /\ expired = 0
  /\ begun = {} /\ since = [cap \in Caps |-> problems]
  /\ attended = [cap \in Caps |-> {}]

AdminStep ==
  \/ \E a \in Admins, cap \in Started : StartState(a, cap)
  \/ \E a \in Admins, j \in JobId : StartJob(a, j)
  \/ \E a \in Admins : StartPayload(a) \/ StartFails(a)
  \/ \E cap \in Started : Pause(cap)
WorkerStep ==
  \/ \E w \in Loops, j \in JobId : Acquire(w, j) \/ CreateNext(w, j)
  \/ \E w \in Loops, p \in Ids : WorkOn(w, p)
  \/ \E w \in Loops :
       ReadCursor(w) \/ ListPage(w) \/ Publish(w) \/ NextPayload(w) \/ Finish(w) \/ Fail(w) \/ Die(w)
  \/ \E j \in JobId : Expire(j) \/ FailExpired(j)
CatalogStep == \E p \in Ids : Appear(p) \/ Vanish(p)
Next == AdminStep \/ WorkerStep \/ CatalogStep

Spec == Init /\ [][Next]_vars

-----------------------------------------------------------------------------
(* Properties *)

Progress == [status : Statuses, cursor : Ids \cup {0}]
Fingerprint == [page : BOOLEAN, cap : Caps \cup {None}, cursor : Ids \cup {0}]
JobRow == [state : JobStates, cap : Caps \cup {None}, print : Fingerprint, parent : JobId \cup {0},
           attempt : 1..MaxAttempts, live : BOOLEAN]
Request == {s \in [at : {"idle", "create", "payload"}, cap : Caps \cup {None}, job : JobId \cup {0}] :
              /\ s.at # "idle" => s.cap \in Caps
              /\ s.at = "payload" => s.job \in JobId}
Executor == {e \in [at : Places, job : JobId \cup {0}, token : 0..MaxAttempts, cap : Caps \cup {None},
                    cursor : Ids \cup {0}, todo : SUBSET Ids, more : BOOLEAN,
                    next : Ids \cup {0}, child : JobId \cup {0}] :
              /\ e.at # "idle" => e.job \in JobId /\ e.cap \in Caps
              /\ e.at = "payload" => e.child \in JobId}

\* Rows, executors and requests are of their types: no attempt is given out
\* beyond max_attempts, an executor works on a row that exists.
TypeOK ==
  /\ problems \subseteq Ids
  /\ state \in [Caps -> Progress]
  /\ jobs \in [JobId -> JobRow]
  /\ admin \in [Admins -> Request]
  /\ exec \in [Loops -> Executor]
  /\ expired \in 0..MaxExpiries
  /\ begun \subseteq Caps
  /\ since \in [Caps -> SUBSET problems] /\ attended \in [Caps -> SUBSET Ids]

\* What a cursor has passed and what a completed backfill leaves: of the
\* problems that were there since the first page was listed, each has been
\* worked on (done or counted as an error), however many chains of pages run
\* at once and whoever of them lost its lease.
PassesOverNothing ==
  \A cap \in Caps :
    \A p \in since[cap] : p \in attended[cap] \/ ~(p <= state[cap].cursor \/ state[cap].status = "completed")

\* A job that will work on the capability, or somebody about to create one.
Driven(cap) ==
  \/ \E a \in Admins : admin[a].at # "idle" /\ admin[a].cap = cap
  \/ \E j \in JobId : Active(j) /\ jobs[j].print.cap = cap

\* A running backfill goes on (002_phase6.sql: resumable after restart): a
\* page's job, its lease expired or not, or a start is there to continue it.
RunningIsDriven ==
  \A cap \in Caps : state[cap].status = "running" => Driven(cap)

\* README.md:165: backfill can be paused and resumed.
PauseHolds ==
  [][\A cap \in Caps : state[cap].status = "paused" /\ state'[cap].status # "paused" =>
       \E a \in Admins : StartState(a, cap)]_vars
=============================================================================
