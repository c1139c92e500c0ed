--------------------------- MODULE BackfillProofs ---------------------------
(***************************************************************************)
(* A backfill passes over no problem, for any number of problems, page     *)
(* size, executors, start requests and attempts.  What an executor may     *)
(* publish long after it lost its lease is safe because of what it read    *)
(* then: a problem its cursor had passed was worked on, and stays so.      *)
(***************************************************************************)
EXTENDS Backfill, FiniteSetTheorems, TLAPS

\* A capability of which no page was listed is at its beginning, and so is
\* everybody who is about to list one.
BeginningsUntouched ==
  \A cap \in Caps \ begun :
    /\ state[cap].cursor = 0 /\ state[cap].status # "completed"
    /\ \A w \in Loops : exec[w].at # "idle" /\ exec[w].cap = cap =>
         exec[w].at \in {"cursor", "list"} /\ exec[w].cursor = 0

\* What an executor has read leaves out nothing: what is not in front of its
\* cursor, on its page or behind the page's end was worked on.
ReadSafe(w) ==
  exec[w].at = "list" =>
    \A p \in since[exec[w].cap] : p \in attended[exec[w].cap] \/ p > exec[w].cursor
PageSafe(w) ==
  exec[w].at = "items" =>
    \A p \in since[exec[w].cap] :
      \/ p \in attended[exec[w].cap] \/ p \in exec[w].todo
      \/ exec[w].more /\ p > exec[w].next
ExecutorsSafe == \A w \in Loops : ReadSafe(w) /\ PageSafe(w)

\* The inductive invariant.
IInv == TypeOK /\ BeginningsUntouched /\ ExecutorsSafe /\ PassesOverNothing

-----------------------------------------------------------------------------
(* Pages *)

LEMMA IdsPositive == \A p \in Ids : p \in Nat /\ p > 0
  BY BackfillAssumption

LEMMA BeyondFinite ==
  ASSUME problems \subseteq Ids, NEW c
  PROVE  Beyond(c) \subseteq Ids /\ IsFiniteSet(Beyond(c))
  BY BackfillAssumption, FS_Subset DEF Beyond

\* The rows before a row of the page are on the page: what is beyond the
\* cursor and not on the page comes after the page's last row.
LEMMA AfterPage ==
  ASSUME problems \subseteq Ids, NEW c, NEW e, EndsAt(e, c), NEW p \in Beyond(c) \ Page(c)
  PROVE  p > e
  <1> DEFINE ahead(x) == {q \in Beyond(c) : q < x}
  <1>1. e \in Page(c) /\ e \in Ids /\ p \in Ids /\ p \in Nat /\ e \in Nat
    BY BeyondFinite, IdsPositive DEF EndsAt, Page
  <1>2. SUFFICES ASSUME p <= e PROVE FALSE
    BY <1>1
  <1>3. ahead(p) \subseteq ahead(e)
    <2> SUFFICES ASSUME NEW q \in Beyond(c), q < p PROVE q < e
      OBVIOUS
    <2>1. q \in Nat
      BY BeyondFinite, IdsPositive
    <2> QED BY <2>1, <1>1, <1>2
  <1>4. IsFiniteSet(ahead(e))
    BY BeyondFinite, FS_Subset
  <1>5. IsFiniteSet(ahead(p)) /\ Cardinality(ahead(p)) <= Cardinality(ahead(e))
    BY <1>3, <1>4, FS_Subset
  <1>6. Cardinality(ahead(p)) \in Nat /\ Cardinality(ahead(e)) \in Nat
    BY <1>4, <1>5, FS_CardinalityType
  <1>7. Cardinality(ahead(e)) < Limit
    BY <1>1 DEF Page
  <1>8. Cardinality(ahead(p)) < Limit
    BY <1>5, <1>6, <1>7, BackfillAssumption
  <1>9. p \in Page(c)
    BY <1>8 DEF Page
  <1> QED BY <1>9

\* has_more = false: the page is everything beyond the cursor.
LEMMA LastPage ==
  ASSUME problems \subseteq Ids, NEW c, ~HasMore(c)
  PROVE  Page(c) = Beyond(c)
  <1> SUFFICES ASSUME NEW p \in Beyond(c) PROVE p \in Page(c)
    BY DEF Page
  <1> DEFINE ahead == {q \in Beyond(c) : q < p}
  <1>1. p \in Nat
    BY BeyondFinite, IdsPositive
  <1>2. ahead \subseteq Beyond(c) \ {p}
    BY <1>1
  <1>3. IsFiniteSet(Beyond(c) \ {p}) /\ Cardinality(Beyond(c) \ {p}) = Cardinality(Beyond(c)) - 1
    BY BeyondFinite, FS_RemoveElement
  <1>4. IsFiniteSet(ahead) /\ Cardinality(ahead) <= Cardinality(Beyond(c) \ {p})
    BY <1>2, <1>3, FS_Subset
  <1>5. Cardinality(ahead) \in Nat /\ Cardinality(Beyond(c)) \in Nat
    BY <1>4, BeyondFinite, FS_CardinalityType
  <1>6. Cardinality(ahead) < Limit
    BY <1>3, <1>4, <1>5, BackfillAssumption DEF HasMore
  <1> QED BY <1>6 DEF Page

-----------------------------------------------------------------------------
(* Types *)

USE DEF JobId, None

LEMMA RequestOK ==
  ASSUME TypeOK, NEW a \in Admins
  PROVE  /\ admin[a] \in Request
         /\ admin[a].at \in {"idle", "create", "payload"} /\ admin[a].job \in JobId \cup {0}
         /\ admin[a].cap \in Caps \cup {None}
         /\ admin[a].at # "idle" => admin[a].cap \in Caps
         /\ admin[a].at = "payload" => admin[a].job \in JobId
  BY DEF TypeOK, Request

LEMMA RowOK ==
  ASSUME TypeOK, NEW j \in JobId
  PROVE  /\ jobs[j] \in JobRow
         /\ jobs[j].state \in JobStates /\ jobs[j].cap \in Caps \cup {None} /\ jobs[j].print \in Fingerprint
         /\ jobs[j].parent \in JobId \cup {0} /\ jobs[j].attempt \in 1..MaxAttempts
         /\ jobs[j].live \in BOOLEAN
  BY DEF TypeOK, JobRow

LEMMA ExecutorOK ==
  ASSUME TypeOK, NEW w \in Loops
  PROVE  /\ exec[w] \in Executor
         /\ exec[w].at \in Places /\ exec[w].job \in JobId \cup {0}
         /\ exec[w].token \in 0..MaxAttempts
         /\ exec[w].cap \in Caps \cup {None} /\ exec[w].cursor \in Ids \cup {0}
         /\ exec[w].todo \subseteq Ids /\ exec[w].more \in BOOLEAN
         /\ exec[w].next \in Ids \cup {0} /\ exec[w].child \in JobId \cup {0}
         /\ exec[w].at # "idle" => exec[w].job \in JobId /\ exec[w].cap \in Caps
         /\ exec[w].at = "payload" => exec[w].child \in JobId
  BY DEF TypeOK, Executor

LEMMA InitType == Init => TypeOK
  <1> SUFFICES ASSUME Init PROVE TypeOK
    OBVIOUS
  <1>1. Absent \in JobRow
    BY BackfillAssumption DEF Absent, JobRow, Fingerprint, JobStates
  <1>2. Idle \in Executor /\ NoStart \in Request
    BY BackfillAssumption DEF Idle, NoStart, Executor, Request, Places
  <1>3. [status |-> None, cursor |-> 0] \in Progress
    BY DEF Progress, Statuses
  <1>4. expired \in 0..MaxExpiries
    BY BackfillAssumption DEF Init
  <1> QED BY <1>1, <1>2, <1>3, <1>4 DEF Init, TypeOK

LEMMA CreateType ==
  ASSUME TypeOK, NEW j \in JobId, NEW parent \in JobId \cup {0}, NEW print \in Fingerprint,
         Create(j, parent, print)
  PROVE  jobs' \in [JobId -> JobRow]
  <1> DEFINE row == [state |-> "pending", cap |-> None, print |-> print,
                     parent |-> parent, attempt |-> 1, live |-> FALSE]
  <1>1. row \in JobRow
    BY BackfillAssumption DEF JobRow, JobStates
  <1>2. jobs' = jobs \/ jobs' = [jobs EXCEPT ![j] = row]
    BY DEF Create
  <1> HIDE DEF row
  <1> QED BY <1>1, <1>2 DEF TypeOK

LEMMA PayloadType ==
  ASSUME TypeOK, NEW j \in JobId, NEW cap \in Caps, SetPayload(j, cap)
  PROVE  jobs' \in [JobId -> JobRow]
  <1>1. [jobs[j] EXCEPT !.cap = cap] \in JobRow
    BY RowOK DEF JobRow
  <1> QED BY <1>1 DEF TypeOK, SetPayload

LEMMA EndedType ==
  ASSUME TypeOK, NEW j \in JobId, NEW result \in {"completed", "failed"}, jobs' = Ended(j, result)
  PROVE  jobs' \in [JobId -> JobRow]
  <1>1. [jobs[j] EXCEPT !.state = result, !.cap = None, !.live = FALSE] \in JobRow
    BY RowOK DEF JobRow, JobStates
  <1> QED BY <1>1 DEF TypeOK, Ended

LEMMA AdminType ==
  ASSUME TypeOK, AdminStep
  PROVE  TypeOK'
  <1>1. NoStart \in Request
    BY DEF NoStart, Request
  <1>2. ASSUME NEW a \in Admins, NEW cap \in Started, StartState(a, cap)
        PROVE TypeOK'
    <2>1. [at |-> "create", cap |-> cap, job |-> 0] \in Request /\ cap \in Caps
      BY DEF Request, Caps
    <2>2. [state[cap] EXCEPT !.status = "running"] \in Progress
      BY <2>1 DEF TypeOK, Progress, Statuses
    <2> QED BY <1>2, <2>1, <2>2 DEF StartState, TypeOK, history
  <1>3. ASSUME NEW a \in Admins, NEW j \in JobId, StartJob(a, j)
        PROVE TypeOK'
    <2>1. admin[a].cap \in Caps /\ StartPrint(admin[a].cap) \in Fingerprint
      BY <1>3, RequestOK DEF StartJob, StartPrint, Fingerprint
    <2>2. jobs' \in [JobId -> JobRow]
      <3>1. CASE Create(j, 0, StartPrint(admin[a].cap))
        BY <2>1, <3>1, CreateType
      <3>2. CASE UNCHANGED jobs
        BY <3>2 DEF TypeOK
      <3> QED BY <1>3, <3>1, <3>2 DEF StartJob
    <2>3. [admin[a] EXCEPT !.at = "payload", !.job = j] \in Request
      BY <2>1, RequestOK DEF Request
    <2>4. admin' = [admin EXCEPT ![a] = [admin[a] EXCEPT !.at = "payload", !.job = j]]
      BY <1>3 DEF StartJob
    <2> QED BY <1>3, <2>2, <2>3, <2>4 DEF StartJob, TypeOK, history
  <1>4. ASSUME NEW a \in Admins, StartPayload(a)
        PROVE TypeOK'
    <2>1. jobs' \in [JobId -> JobRow]
      BY <1>4, RequestOK, PayloadType DEF StartPayload
    <2> QED BY <1>1, <1>4, <2>1 DEF StartPayload, TypeOK, history
  <1>5. ASSUME NEW a \in Admins, StartFails(a)
        PROVE TypeOK'
    BY <1>1, <1>5 DEF StartFails, TypeOK, history
  <1>6. ASSUME NEW cap \in Started, Pause(cap)
        PROVE TypeOK'
    <2>1. cap \in Caps /\ [state[cap] EXCEPT !.status = "paused"] \in Progress
      BY DEF TypeOK, Progress, Statuses, Caps
    <2> QED BY <1>6, <2>1 DEF Pause, TypeOK, history
  <1> QED BY <1>2, <1>3, <1>4, <1>5, <1>6 DEF AdminStep

LEMMA EndType ==
  ASSUME TypeOK, NEW w \in Loops, exec[w].at # "idle", NEW result \in {"completed", "failed"},
         End(w, result), UNCHANGED <<problems, state, admin, expired, history>>
  PROVE  TypeOK'
  <1>1. exec' = [exec EXCEPT ![w] = Idle] /\ Idle \in Executor
    BY BackfillAssumption DEF End, Idle, Executor, Places
  <1>2. jobs' \in [JobId -> JobRow]
    <2>1. CASE jobs' = jobs
      BY <2>1 DEF TypeOK
    <2>2. CASE jobs' = Ended(exec[w].job, result)
      BY <2>2, ExecutorOK, EndedType
    <2> QED BY <2>1, <2>2 DEF End
  <1> QED BY <1>1, <1>2 DEF TypeOK, history

LEMMA WorkerType ==
  ASSUME TypeOK, WorkerStep
  PROVE  TypeOK'
  <1>1. ASSUME NEW w \in Loops, NEW j \in JobId, Acquire(w, j)
        PROVE TypeOK'
    <2> DEFINE token == IF jobs[j].state = "pending" THEN jobs[j].attempt ELSE jobs[j].attempt + 1
               cap == IF jobs[j].cap = None THEN Default ELSE jobs[j].cap
               taken == [Idle EXCEPT !.at = "cursor", !.job = j, !.token = token, !.cap = cap]
               row == [jobs[j] EXCEPT !.state = "running", !.live = TRUE, !.attempt = token]
    <2>1. token \in 1..MaxAttempts /\ token \in 0..MaxAttempts
      BY <1>1, RowOK, BackfillAssumption DEF Acquire, Claimable
    <2>2. cap \in Caps
      BY RowOK DEF Caps
    <2>3. /\ jobs' = [jobs EXCEPT ![j] = row] /\ exec' = [exec EXCEPT ![w] = taken]
          /\ UNCHANGED <<problems, state, admin, expired, history>>
      BY <1>1 DEF Acquire
    <2>4. row \in JobRow
      BY <2>1, RowOK DEF JobRow, JobStates
    <2>5. taken \in Executor
      BY <2>1, <2>2 DEF Idle, Executor, Places
    <2> HIDE DEF token, cap, taken, row
    <2> QED BY <2>3, <2>4, <2>5 DEF TypeOK, history
  <1>2. ASSUME NEW w \in Loops, NEW j \in JobId, CreateNext(w, j)
        PROVE TypeOK'
    <2>1. PagePrint(exec[w].cap, exec[w].next) \in Fingerprint /\ exec[w].job \in JobId
      BY <1>2, ExecutorOK DEF CreateNext, PagePrint, Fingerprint
    <2>2. jobs' \in [JobId -> JobRow]
      BY <1>2, <2>1, CreateType DEF CreateNext
    <2>3. [exec[w] EXCEPT !.at = "payload", !.child = j] \in Executor
      BY <1>2, ExecutorOK DEF CreateNext, Executor, Places
    <2>4. exec' = [exec EXCEPT ![w] = [exec[w] EXCEPT !.at = "payload", !.child = j]]
      BY <1>2 DEF CreateNext
    <2> QED BY <1>2, <2>2, <2>3, <2>4 DEF CreateNext, TypeOK, history
  <1>3. ASSUME NEW w \in Loops, NEW p \in Ids, WorkOn(w, p)
        PROVE TypeOK'
    <2>1. exec[w].cap \in Caps /\ [exec[w] EXCEPT !.todo = @ \ {p}] \in Executor
      BY <1>3, ExecutorOK DEF WorkOn, Executor, Places
    <2>2. exec' = [exec EXCEPT ![w] = [exec[w] EXCEPT !.todo = @ \ {p}]]
      BY <1>3 DEF WorkOn
    <2>3. attended' \in [Caps -> SUBSET Ids]
      BY <1>3, <2>1 DEF WorkOn, TypeOK
    <2> QED BY <1>3, <2>1, <2>2, <2>3 DEF WorkOn, TypeOK
  <1>4. ASSUME NEW w \in Loops, ReadCursor(w)
        PROVE TypeOK'
    <2> DEFINE read == [exec[w] EXCEPT !.at = "list", !.cursor = state[exec[w].cap].cursor]
    <2>1. state[exec[w].cap].cursor \in Ids \cup {0}
      BY <1>4, ExecutorOK DEF ReadCursor, TypeOK, Progress
    <2>2. read \in Executor
      BY <1>4, <2>1, ExecutorOK DEF ReadCursor, Executor, Places
    <2>3. exec' = [exec EXCEPT ![w] = read]
      BY <1>4 DEF ReadCursor
    <2> HIDE DEF read
    <2> QED BY <1>4, <2>2, <2>3 DEF ReadCursor, TypeOK, history
  <1>5. ASSUME NEW w \in Loops, ListPage(w)
        PROVE TypeOK'
    <2> DEFINE listed(more, next) ==
          [exec[w] EXCEPT !.at = "items", !.todo = Page(exec[w].cursor), !.more = more, !.next = next]
    <2>1. Page(exec[w].cursor) \subseteq Ids /\ exec[w].cap \in Caps
      BY <1>5, BeyondFinite, ExecutorOK DEF Page, TypeOK, ListPage
    <2>2. PICK more \in BOOLEAN, next \in Ids \cup {0} : exec' = [exec EXCEPT ![w] = listed(more, next)]
      BY <1>5 DEF ListPage
    <2>3. listed(more, next) \in Executor
      BY <1>5, <2>1, ExecutorOK DEF ListPage, Executor, Places
    <2> HIDE DEF listed
    <2> QED BY <1>5, <2>1, <2>2, <2>3 DEF ListPage, TypeOK
  <1>6. ASSUME NEW w \in Loops, Publish(w)
        PROVE TypeOK'
    <2> DEFINE place == IF exec[w].more THEN "create" ELSE "finish"
               done == [exec[w] EXCEPT !.at = place]
               progress == [status |-> IF exec[w].more THEN "running" ELSE "completed", cursor |-> exec[w].next]
    <2>1. done \in Executor /\ exec' = [exec EXCEPT ![w] = done]
      BY <1>6, ExecutorOK DEF Publish, Executor, Places
    <2>2. progress \in Progress /\ exec[w].cap \in Caps
      BY <1>6, ExecutorOK DEF Publish, Progress, Statuses
    <2>3. state' = state \/ state' = [state EXCEPT ![exec[w].cap] = progress]
      BY <1>6 DEF Publish
    <2> HIDE DEF place, done, progress
    <2> QED BY <1>6, <2>1, <2>2, <2>3 DEF Publish, TypeOK, history
  <1>7. ASSUME NEW w \in Loops, NextPayload(w)
        PROVE TypeOK'
    <2>1. jobs' \in [JobId -> JobRow]
      BY <1>7, ExecutorOK, PayloadType DEF NextPayload
    <2>2. [exec[w] EXCEPT !.at = "finish"] \in Executor
      BY <1>7, ExecutorOK DEF NextPayload, Executor, Places
    <2>3. exec' = [exec EXCEPT ![w] = [exec[w] EXCEPT !.at = "finish"]]
      BY <1>7 DEF NextPayload
    <2> QED BY <1>7, <2>1, <2>2, <2>3 DEF NextPayload, TypeOK, history
  <1>8. ASSUME NEW w \in Loops, Finish(w)
        PROVE TypeOK'
    BY <1>8, EndType DEF Finish
  <1>9. ASSUME NEW w \in Loops, Fail(w)
        PROVE TypeOK'
    BY <1>9, EndType DEF Fail
  <1>10. ASSUME NEW w \in Loops, Die(w)
         PROVE TypeOK'
    <2>1. Idle \in Executor
      BY BackfillAssumption DEF Idle, Executor, Places
    <2> QED BY <1>10, <2>1 DEF Die, TypeOK, history
  <1>11. ASSUME NEW j \in JobId, Expire(j)
         PROVE TypeOK'
    <2>1. [jobs[j] EXCEPT !.live = FALSE] \in JobRow
      BY RowOK DEF JobRow
    <2>2. jobs' = [jobs EXCEPT ![j] = [jobs[j] EXCEPT !.live = FALSE]]
      BY <1>11 DEF Expire
    <2>3. expired' \in 0..MaxExpiries
      BY <1>11, BackfillAssumption DEF Expire, TypeOK
    <2> QED BY <1>11, <2>1, <2>2, <2>3 DEF Expire, TypeOK, history
  <1>12. ASSUME NEW j \in JobId, FailExpired(j)
         PROVE TypeOK'
    <2>1. jobs' \in [JobId -> JobRow]
      BY <1>12, EndedType DEF FailExpired
    <2> QED BY <1>12, <2>1 DEF FailExpired, TypeOK, history
  <1> QED BY <1>1, <1>2, <1>3, <1>4, <1>5, <1>6, <1>7, <1>8, <1>9, <1>10, <1>11, <1>12 DEF WorkerStep

LEMMA CatalogType ==
  ASSUME TypeOK, CatalogStep
  PROVE  TypeOK'
  BY DEF CatalogStep, Appear, Vanish, TypeOK

LEMMA NextType ==
  ASSUME TypeOK, [Next]_vars
  PROVE  TypeOK'
  <1>1. CASE UNCHANGED vars
    BY <1>1 DEF TypeOK, vars, history
  <1> QED BY <1>1, AdminType, WorkerType, CatalogType DEF Next

-----------------------------------------------------------------------------
(* The invariant *)

LEMMA InitInv == Init => IInv
  <1> SUFFICES ASSUME Init PROVE IInv
    OBVIOUS
  <1>1. TypeOK
    BY InitType
  <1>2. BeginningsUntouched
    BY DEF Init, BeginningsUntouched, Idle
  <1>3. ExecutorsSafe
    BY DEF Init, ExecutorsSafe, ReadSafe, PageSafe, Idle
  <1>4. PassesOverNothing
    <2> SUFFICES ASSUME NEW cap \in Caps, NEW p \in since[cap]
                 PROVE  ~(p <= state[cap].cursor \/ state[cap].status = "completed")
      BY DEF PassesOverNothing
    <2>1. p \in Nat /\ p > 0
      BY <1>1, IdsPositive DEF TypeOK
    <2> QED BY <2>1 DEF Init
  <1> QED BY <1>1, <1>2, <1>3, <1>4 DEF IInv

\* A step that touches neither the problems nor what has been worked on, and
\* after which an executor is where it was, idle, or past publishing, and a
\* capability where it was or, if it is not running, started or paused.
QuietExec(w) ==
  \/ exec'[w] = exec[w]
  \/ exec'[w].at \in {"idle", "payload", "finish"}
  \/ exec'[w].at = "cursor" /\ exec'[w].cursor = 0

LEMMA QuietInv ==
  ASSUME IInv, TypeOK', UNCHANGED <<problems, history>>,
         \A cap \in Caps : /\ state'[cap].cursor = state[cap].cursor
                           /\ state'[cap].status = "completed" => state[cap].status = "completed",
         \A w \in Loops : /\ QuietExec(w)
                          /\ exec'[w].at \in {"payload", "finish"} => exec'[w].cap = exec[w].cap
                               /\ exec[w].at \in {"create", "payload", "finish"}
  PROVE  IInv'
  <1>1. BeginningsUntouched'
    BY DEF IInv, BeginningsUntouched, QuietExec, history
  <1>2. ExecutorsSafe'
    BY DEF IInv, ExecutorsSafe, ReadSafe, PageSafe, QuietExec, history
  <1>3. PassesOverNothing'
    BY DEF IInv, PassesOverNothing, history
  <1> QED BY <1>1, <1>2, <1>3 DEF IInv

LEMMA AdminInv ==
  ASSUME IInv, TypeOK', AdminStep
  PROVE  IInv'
  <1>1. TypeOK
    BY DEF IInv
  <1>2. UNCHANGED <<problems, exec, history>>
    BY DEF AdminStep, StartState, StartJob, StartPayload, StartFails, Pause
  <1>3. \A cap \in Caps : /\ state'[cap].cursor = state[cap].cursor
                          /\ state'[cap].status = "completed" => state[cap].status = "completed"
    <2>1. CASE UNCHANGED state
      BY <2>1
    <2>2. ASSUME NEW a \in Admins, NEW cap \in Started, StartState(a, cap)
          PROVE <1>3
      BY <2>2, <1>1 DEF StartState, TypeOK, Progress, Caps
    <2>3. ASSUME NEW cap \in Started, Pause(cap)
          PROVE <1>3
      BY <2>3, <1>1 DEF Pause, TypeOK, Progress, Caps
    <2> QED BY <2>1, <2>2, <2>3 DEF AdminStep, StartJob, StartPayload, StartFails
  <1>4. \A w \in Loops : QuietExec(w) /\ (exec'[w].at \in {"payload", "finish"} => exec'[w].cap = exec[w].cap)
    BY <1>2 DEF QuietExec
  <1> QED
    BY <1>2, <1>3, <1>4, QuietInv

LEMMA EndInv ==
  ASSUME IInv, TypeOK', NEW w \in Loops, exec' = [exec EXCEPT ![w] = Idle],
         UNCHANGED <<problems, state, history>>
  PROVE  IInv'
  <1>1. \A v \in Loops : exec'[v] = exec[v] \/ exec'[v].at = "idle"
    BY DEF IInv, TypeOK, Idle
  <1>2. \A v \in Loops : QuietExec(v) /\ (exec'[v].at \in {"payload", "finish"} => exec'[v].cap = exec[v].cap)
    BY <1>1 DEF QuietExec
  <1> QED BY <1>1, <1>2, QuietInv

\* The executor acts, the others stay.
LEMMA Others ==
  ASSUME TypeOK, NEW w \in Loops, NEW e, exec' = [exec EXCEPT ![w] = e]
  PROVE  exec'[w] = e /\ \A v \in Loops \ {w} : exec'[v] = exec[v]
  BY DEF TypeOK

LEMMA AcquireInv ==
  ASSUME IInv, TypeOK', NEW w \in Loops, NEW j \in JobId, Acquire(w, j)
  PROVE  IInv'
  <1>1. UNCHANGED <<problems, state, history>>
    BY DEF Acquire
  <1>2. \A v \in Loops : exec'[v] = exec[v] \/ (exec'[v].at = "cursor" /\ exec'[v].cursor = 0)
    BY DEF Acquire, IInv, TypeOK, Idle
  <1>3. \A v \in Loops : QuietExec(v) /\ (exec'[v].at \in {"payload", "finish"} => exec'[v].cap = exec[v].cap)
    BY <1>2 DEF QuietExec
  <1> QED BY <1>1, <1>2, <1>3, QuietInv

LEMMA ReadCursorInv ==
  ASSUME IInv, TypeOK', NEW w \in Loops, ReadCursor(w)
  PROVE  IInv'
  <1>1. /\ exec[w].at = "cursor" /\ exec'[w].at = "list" /\ exec'[w].cap = exec[w].cap
        /\ exec'[w].cursor = state[exec[w].cap].cursor /\ exec[w].cap \in Caps
        /\ \A v \in Loops \ {w} : exec'[v] = exec[v]
        /\ UNCHANGED <<problems, state, history>>
    BY ExecutorOK DEF ReadCursor, IInv, TypeOK
  <1>2. BeginningsUntouched'
    BY <1>1 DEF IInv, BeginningsUntouched, history
  <1>3. ASSUME NEW p \in since[exec[w].cap]
        PROVE p \in attended[exec[w].cap] \/ p > state[exec[w].cap].cursor
    <2>1. p \in Nat /\ state[exec[w].cap].cursor \in Nat
      BY <1>1, IdsPositive DEF IInv, TypeOK, Progress
    <2> QED BY <1>1, <2>1 DEF IInv, PassesOverNothing
  <1>4. ExecutorsSafe'
    BY <1>1, <1>3 DEF IInv, ExecutorsSafe, ReadSafe, PageSafe, history
  <1>5. PassesOverNothing'
    BY <1>1 DEF IInv, PassesOverNothing, history
  <1> QED BY <1>2, <1>4, <1>5 DEF IInv

LEMMA ListPageInv ==
  ASSUME IInv, TypeOK', NEW w \in Loops, ListPage(w)
  PROVE  IInv'
  <1> DEFINE c == exec[w].cursor  cap == exec[w].cap
  <1>1. /\ exec[w].at = "list" /\ cap \in Caps /\ begun' = begun \cup {cap}
        /\ exec'[w].at = "items" /\ exec'[w].cap = cap /\ exec'[w].todo = Page(c)
        /\ \A v \in Loops \ {w} : exec'[v] = exec[v]
        /\ UNCHANGED <<problems, state, since, attended>>
        /\ \/ ~HasMore(c) /\ ~exec'[w].more
           \/ exec'[w].more /\ EndsAt(exec'[w].next, c)
    <2> DEFINE listed(more, next) ==
          [exec[w] EXCEPT !.at = "items", !.todo = Page(c), !.more = more, !.next = next]
    <2>1. PICK more \in BOOLEAN, next \in Ids \cup {0} :
            /\ exec' = [exec EXCEPT ![w] = listed(more, next)]
            /\ (~HasMore(c) /\ ~more) \/ (more /\ EndsAt(next, c))
      <3>1. CASE HasMore(c)
        <4>1. PICK p \in Ids : EndsAt(p, c) /\ exec' = [exec EXCEPT ![w] = listed(TRUE, p)]
          BY <3>1 DEF ListPage
        <4> HIDE DEF listed, c
        <4> QED BY <4>1
      <3>2. CASE ~HasMore(c)
        <4>1. exec' = [exec EXCEPT ![w] = listed(FALSE, 0)]
          BY <3>2 DEF ListPage
        <4> HIDE DEF listed, c
        <4> QED BY <3>2, <4>1
      <3> QED BY <3>1, <3>2
    <2>2. exec[w] \in [at : Places, job : JobId \cup {0}, token : 0..MaxAttempts, cap : Caps \cup {None},
                      cursor : Ids \cup {0}, todo : SUBSET Ids, more : BOOLEAN,
                      next : Ids \cup {0}, child : JobId \cup {0}]
      BY ExecutorOK DEF IInv, Executor
    <2>3. /\ listed(more, next).at = "items" /\ listed(more, next).cap = cap
          /\ listed(more, next).todo = Page(c)
          /\ listed(more, next).more = more /\ listed(more, next).next = next
      BY <2>2
    <2> HIDE DEF listed
    <2>4. exec'[w] = listed(more, next) /\ \A v \in Loops \ {w} : exec'[v] = exec[v]
      BY <2>1, Others DEF IInv
    <2>5. exec[w].at = "list" /\ cap \in Caps /\ begun' = begun \cup {cap}
          /\ UNCHANGED <<problems, state, since, attended>>
      BY ExecutorOK DEF ListPage, IInv
    <2> QED BY <2>1, <2>3, <2>4, <2>5
  <1>2. ASSUME NEW p \in since[cap], p \notin attended[cap], p \notin Page(c)
        PROVE exec'[w].more /\ p > exec'[w].next
    <2>1. p \in problems /\ problems \subseteq Ids
      BY <1>1 DEF IInv, TypeOK
    <2>2. p > c
      BY <1>1, <1>2 DEF IInv, ExecutorsSafe, ReadSafe
    <2>3. p \in Beyond(c)
      BY <2>1, <2>2 DEF Beyond
    <2>4. HasMore(c)
      BY <1>2, <2>1, <2>3, LastPage
    <2>5. EndsAt(exec'[w].next, c)
      BY <1>1, <2>4
    <2> QED BY <1>1, <1>2, <2>1, <2>3, <2>4, <2>5, AfterPage
  <1>3. BeginningsUntouched'
    BY <1>1 DEF IInv, BeginningsUntouched
  <1>4. ExecutorsSafe'
    BY <1>1, <1>2 DEF IInv, ExecutorsSafe, ReadSafe, PageSafe
  <1>5. PassesOverNothing'
    BY <1>1 DEF IInv, PassesOverNothing
  <1> QED BY <1>3, <1>4, <1>5 DEF IInv

LEMMA WorkOnInv ==
  ASSUME IInv, TypeOK', NEW w \in Loops, NEW p \in Ids, WorkOn(w, p)
  PROVE  IInv'
  <1>1. /\ exec[w].at = "items" /\ exec'[w] = [exec[w] EXCEPT !.todo = @ \ {p}] /\ exec[w].cap \in Caps
        /\ \A v \in Loops \ {w} : exec'[v] = exec[v]
        /\ attended' = [attended EXCEPT ![exec[w].cap] = @ \cup {p}]
        /\ UNCHANGED <<problems, state, begun, since>>
    BY ExecutorOK DEF WorkOn, IInv, TypeOK
  <1>2. /\ exec'[w].at = "items" /\ exec'[w].cap = exec[w].cap /\ exec'[w].todo = exec[w].todo \ {p}
        /\ exec'[w].more = exec[w].more /\ exec'[w].next = exec[w].next
        /\ exec'[w].cursor = exec[w].cursor
    <2>1. exec[w] \in [at : Places, job : JobId \cup {0}, token : 0..MaxAttempts, cap : Caps \cup {None},
                      cursor : Ids \cup {0}, todo : SUBSET Ids, more : BOOLEAN,
                      next : Ids \cup {0}, child : JobId \cup {0}]
      BY ExecutorOK DEF IInv, Executor
    <2> DEFINE e == exec[w]
    <2>2. exec'[w] = [e EXCEPT !.todo = e.todo \ {p}]
      BY <1>1
    <2> HIDE DEF e
    <2> QED BY <1>1, <2>1, <2>2 DEF e
  <1>3. /\ p \in attended'[exec[w].cap]
        /\ \A cap \in Caps : attended[cap] \subseteq attended'[cap]
    BY <1>1 DEF IInv, TypeOK
  <1>4. BeginningsUntouched'
    <2> SUFFICES ASSUME NEW cap \in Caps \ begun
                 PROVE  /\ state[cap].cursor = 0 /\ state[cap].status # "completed"
                        /\ \A v \in Loops : exec'[v].at # "idle" /\ exec'[v].cap = cap =>
                             exec'[v].at \in {"cursor", "list"} /\ exec'[v].cursor = 0
      BY <1>1 DEF BeginningsUntouched
    <2>1. exec[w].at = "items" /\ \A v \in Loops \ {w} : exec'[v] = exec[v]
      BY <1>1
    <2>2. exec'[w].cap # cap
      BY <1>2, <2>1 DEF IInv, BeginningsUntouched
    <2> QED BY <2>1, <2>2 DEF IInv, BeginningsUntouched
  <1>5. \A v \in Loops : exec[v].at # "idle" => exec[v].cap \in Caps
    BY ExecutorOK DEF IInv
  <1>6. ExecutorsSafe'
    <2>1. ASSUME NEW v \in Loops \ {w} PROVE ReadSafe(v)' /\ PageSafe(v)'
      BY <1>1, <1>3, <1>5 DEF IInv, ExecutorsSafe, ReadSafe, PageSafe
    <2>2. ReadSafe(w)' /\ PageSafe(w)'
      BY <1>1, <1>2, <1>3 DEF IInv, ExecutorsSafe, ReadSafe, PageSafe
    <2> QED BY <2>1, <2>2 DEF ExecutorsSafe
  <1>7. PassesOverNothing'
    BY <1>1, <1>3 DEF IInv, PassesOverNothing
  <1> QED BY <1>4, <1>6, <1>7 DEF IInv

LEMMA PublishInv ==
  ASSUME IInv, TypeOK', NEW w \in Loops, Publish(w)
  PROVE  IInv'
  <1> DEFINE cap == exec[w].cap
  <1>1. /\ exec[w].at = "items" /\ exec[w].todo = {} /\ cap \in Caps
        /\ exec'[w].at = IF exec[w].more THEN "create" ELSE "finish"
        /\ exec'[w].cap = cap
        /\ \A v \in Loops \ {w} : exec'[v] = exec[v]
        /\ UNCHANGED <<problems, history>>
    BY ExecutorOK DEF Publish, IInv, TypeOK
  <1>2. \/ state' = state
        \/ /\ \A d \in Caps \ {cap} : state'[d] = state[d]
           /\ state'[cap].cursor = exec[w].next
           /\ state'[cap].status = IF exec[w].more THEN "running" ELSE "completed"
    BY <1>1 DEF Publish, IInv, TypeOK
  <1>3. cap \in begun
    BY <1>1 DEF IInv, BeginningsUntouched
  <1>4. BeginningsUntouched'
    BY <1>1, <1>2, <1>3 DEF IInv, BeginningsUntouched, history
  <1>5. ExecutorsSafe'
    BY <1>1 DEF IInv, ExecutorsSafe, ReadSafe, PageSafe, history
  <1>6. ASSUME NEW p \in since[cap]
        PROVE p \in attended[cap] \/ (exec[w].more /\ ~(p <= exec[w].next))
    <2>1. p \in attended[cap] \/ (exec[w].more /\ p > exec[w].next)
      BY <1>1 DEF IInv, ExecutorsSafe, PageSafe
    <2>2. p \in Nat /\ exec[w].next \in Nat
      BY <1>1, IdsPositive, ExecutorOK DEF IInv, TypeOK
    <2> QED BY <2>1, <2>2
  <1>7. PassesOverNothing'
    BY <1>1, <1>2, <1>6 DEF IInv, PassesOverNothing, history
  <1> QED BY <1>4, <1>5, <1>7 DEF IInv

LEMMA WorkerInv ==
  ASSUME IInv, TypeOK', WorkerStep
  PROVE  IInv'
  <1>1. ASSUME NEW w \in Loops, NEW j \in JobId, CreateNext(w, j)
        PROVE IInv'
    <2>1. /\ exec[w].at = "create" /\ exec'[w].at = "payload" /\ exec'[w].cap = exec[w].cap
          /\ \A v \in Loops \ {w} : exec'[v] = exec[v]
          /\ UNCHANGED <<problems, state, history>>
      BY <1>1, ExecutorOK DEF CreateNext, IInv, TypeOK
    <2> QED BY <2>1, QuietInv DEF QuietExec
  <1>2. ASSUME NEW w \in Loops, NextPayload(w)
        PROVE IInv'
    <2>1. /\ exec[w].at = "payload" /\ exec'[w].at = "finish" /\ exec'[w].cap = exec[w].cap
          /\ \A v \in Loops \ {w} : exec'[v] = exec[v]
          /\ UNCHANGED <<problems, state, history>>
      BY <1>2, ExecutorOK DEF NextPayload, IInv, TypeOK
    <2> QED BY <2>1, QuietInv DEF QuietExec
  <1>3. ASSUME NEW w \in Loops, Finish(w) \/ Fail(w) \/ Die(w)
        PROVE IInv'
    BY <1>3, EndInv DEF Finish, Fail, Die, End, history
  <1>4. ASSUME NEW j \in JobId, Expire(j) \/ FailExpired(j)
        PROVE IInv'
    <2>1. UNCHANGED <<problems, state, exec, history>>
      BY <1>4 DEF Expire, FailExpired
    <2> QED BY <2>1, QuietInv DEF QuietExec
  <1> QED
    BY <1>1, <1>2, <1>3, <1>4, AcquireInv, ReadCursorInv, ListPageInv, WorkOnInv, PublishInv
    DEF WorkerStep

LEMMA CatalogInv ==
  ASSUME IInv, TypeOK', CatalogStep
  PROVE  IInv'
  <1>1. UNCHANGED <<state, exec, begun, attended>>
    BY DEF CatalogStep, Appear, Vanish
  <1>2. \A cap \in begun : since'[cap] \subseteq since[cap]
    BY DEF CatalogStep, Appear, Vanish, IInv, TypeOK
  <1>3. \A cap \in Caps : since'[cap] \subseteq Ids
    BY DEF TypeOK
  <1>4. BeginningsUntouched'
    BY <1>1 DEF IInv, BeginningsUntouched
  <1>5. \A v \in Loops : exec[v].at # "idle" => exec[v].cap \in Caps
    BY ExecutorOK DEF IInv
  <1>6. ExecutorsSafe'
    <2> SUFFICES ASSUME NEW w \in Loops, exec[w].at \in {"list", "items"}
                 PROVE  ReadSafe(w)' /\ PageSafe(w)'
      BY <1>1 DEF ExecutorsSafe, ReadSafe, PageSafe
    <2>1. CASE exec[w].cap \in begun
      BY <1>1, <1>2, <2>1 DEF IInv, ExecutorsSafe, ReadSafe, PageSafe
    <2>2. CASE exec[w].cap \notin begun
      BY <1>1, <1>3, <1>5, <2>2, IdsPositive DEF IInv, BeginningsUntouched, ReadSafe, PageSafe
    <2> QED BY <2>1, <2>2
  <1>7. PassesOverNothing'
    <2> SUFFICES ASSUME NEW cap \in Caps, NEW p \in since'[cap]
                 PROVE  p \in attended[cap] \/ ~(p <= state[cap].cursor \/ state[cap].status = "completed")
      BY <1>1 DEF PassesOverNothing
    <2>1. CASE cap \in begun
      BY <1>2, <2>1 DEF IInv, PassesOverNothing
    <2>2. CASE cap \notin begun
      BY <1>3, <2>2, IdsPositive DEF IInv, BeginningsUntouched
    <2> QED BY <2>1, <2>2
  <1> QED BY <1>4, <1>6, <1>7 DEF IInv

LEMMA NextInv == IInv /\ [Next]_vars => IInv'
  <1> SUFFICES ASSUME IInv, [Next]_vars PROVE IInv'
    OBVIOUS
  <1>1. TypeOK'
    BY NextType DEF IInv
  <1>2. CASE UNCHANGED vars
    BY <1>1, <1>2, QuietInv DEF vars, history, QuietExec
  <1> QED BY <1>1, <1>2, AdminInv, WorkerInv, CatalogInv DEF Next

-----------------------------------------------------------------------------
(* Theorems *)

\* Beginnings, executors and the promise together hold in every state.
THEOREM InductiveInvariant == Spec => []IInv
  BY InitInv, NextInv, PTL DEF Spec

\* Rows, executors and requests are of their types: acquireJob gives out no
\* attempt beyond max_attempts.
THEOREM TypeCorrect == Spec => []TypeOK
  BY InductiveInvariant, PTL DEF IInv

\* JobWorker.backfill: the cursor and the status completed pass over no problem
\* that was there since the first page, although executors publish them after
\* they lost the lease and several chains of pages share them.
THEOREM BackfillsAreComplete == Spec => []PassesOverNothing
  BY InductiveInvariant, PTL DEF IInv
=============================================================================
