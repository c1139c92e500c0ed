--------------------------- MODULE JobQueueProofs ---------------------------
(* The type invariant of JobQueue and its inductive invariant, for every     *)
(* value of the constants, and from them the exclusiveness of leases and the *)
(* soundness of fencing.                                                     *)
EXTENDS JobQueue, FiniteSetTheorems, TLAPS

USE QueueAssumption DEF JobId, Token

-----------------------------------------------------------------------------
(* Rows of the jobs table *)

Owners == {"none", "ts", "rust"}

LEMMA RowUpdates ==
  ASSUME NEW row \in JobRow, NEW s \in JobStates, NEW t \in Token, NEW o \in Owners,
         NEW a \in 0..MaxAttempts, NEW b \in BOOLEAN, NEW d \in BOOLEAN
  PROVE  /\ [row EXCEPT !.state = s] \in JobRow
         /\ [row EXCEPT !.live = b] \in JobRow
         /\ [row EXCEPT !.attempt = a] \in JobRow
         /\ [row EXCEPT !.state = s, !.token = t] \in JobRow
         /\ [row EXCEPT !.state = s, !.owner = o, !.live = b] \in JobRow
         /\ [row EXCEPT !.state = s, !.cancelReq = b, !.token = t] \in JobRow
         /\ [row EXCEPT !.state = s, !.owner = o, !.live = b, !.cancelReq = d] \in JobRow
         /\ [row EXCEPT !.state = s, !.owner = o, !.live = b, !.token = t] \in JobRow
         /\ [row EXCEPT !.state = s, !.owner = o, !.live = b, !.token = t, !.attempt = a] \in JobRow
  <1>1. [row EXCEPT !.state = s] \in JobRow BY Zenon DEF JobRow
  <1>2. [row EXCEPT !.live = b] \in JobRow BY Zenon DEF JobRow
  <1>3. [row EXCEPT !.attempt = a] \in JobRow BY Zenon DEF JobRow
  <1>4. [row EXCEPT !.state = s, !.token = t] \in JobRow BY Zenon DEF JobRow
  <1>5. [row EXCEPT !.state = s, !.owner = o, !.live = b] \in JobRow
    BY Zenon DEF JobRow, Owners
  <1>6. [row EXCEPT !.state = s, !.cancelReq = b, !.token = t] \in JobRow BY Zenon DEF JobRow
  <1>7. [row EXCEPT !.state = s, !.owner = o, !.live = b, !.cancelReq = d] \in JobRow
    BY Zenon DEF JobRow, Owners
  <1>8. [row EXCEPT !.state = s, !.owner = o, !.live = b, !.token = t] \in JobRow
    BY Zenon DEF JobRow, Owners
  <1>9. [row EXCEPT !.state = s, !.owner = o, !.live = b, !.token = t, !.attempt = a] \in JobRow
    BY Zenon DEF JobRow, Owners
  <1> QED BY <1>1, <1>2, <1>3, <1>4, <1>5, <1>6, <1>7, <1>8, <1>9

LEMMA AbsentType == Absent \in JobRow
  BY DEF Absent, JobRow, JobStates, JobTypes, LocalTypes, Keys, Target, IdempotencyKey

LEMMA PendingRowType ==
  ASSUME NEW r \in ReqRecord
  PROVE  PendingRow(r) \in JobRow
  <1>1. r.type \in JobTypes /\ r.prob \in Keys /\ r.target \in Target /\ r.key \in IdempotencyKey
    BY DEF ReqRecord, NoRequest, JobTypes, LocalTypes, Keys, Target, IdempotencyKey
  <1>2. "pending" \in JobStates /\ 1 \in 0..MaxAttempts
    BY DEF JobStates
  <1> QED BY <1>1, <1>2, AbsentType, Zenon DEF PendingRow, JobRow

LEMMA WatcherRowType ==
  ASSUME NEW p \in Problems, NEW j \in JobId
  PROVE  WatcherRow(p, j) \in JobRow
  <1>1. "snapshot" \in JobTypes /\ p \in Keys /\ MaxJobs + j \in Target /\ 1 \in 0..MaxAttempts
    BY DEF JobTypes, LocalTypes, Keys, Target
  <1> QED BY <1>1, AbsentType, Zenon DEF WatcherRow, JobRow

LEMMA CancelPendingType ==
  ASSUME TypeOK, PendingCanRun, NEW p, NEW types
  PROVE  /\ CancelPending(p, types) \in [JobId -> JobRow]
         /\ \A j \in JobId : /\ CancelPending(p, types)[j].state = "pending" => jobs[j].state = "pending"
                             /\ CancelPending(p, types)[j].attempt = jobs[j].attempt
  <1>1. ASSUME NEW j \in JobId
        PROVE  /\ [jobs[j] EXCEPT !.state = "cancelled"] \in JobRow
               /\ [jobs[j] EXCEPT !.state = "cancelled"].state = "cancelled"
               /\ [jobs[j] EXCEPT !.state = "cancelled"].attempt = jobs[j].attempt
    <2>1. jobs[j] \in JobRow BY DEF TypeOK
    <2>2. "cancelled" \in JobStates BY DEF JobStates
    <2>3. [jobs[j] EXCEPT !.state = "cancelled"] \in JobRow BY <2>1, <2>2, Zenon DEF JobRow
    <2> QED BY <2>1, <2>3 DEF JobRow
  <1> QED BY <1>1 DEF CancelPending, TypeOK

-----------------------------------------------------------------------------
(* Tokens of jobs revoked by failExpiredRunningJobs *)

LEMMA ExhaustedFinite ==
  ASSUME NEW k
  PROVE  IsFiniteSet(Exhausted(k)) /\ Cardinality(Exhausted(k)) \in Nat
  <1>1. IsFiniteSet(JobId)
    BY FS_Interval
  <1>2. Exhausted(k) \subseteq JobId
    BY DEF Exhausted
  <1> QED BY <1>1, <1>2, FS_Subset, FS_CardinalityType

LEMMA RevokedTokenBound ==
  ASSUME TypeOK, NEW j \in JobId, j \in Exhausted(jobs[j].prob)
  PROVE  /\ RevokedToken(j) \in Nat
         /\ RevokedToken(j) >= nextToken[jobs[j].prob]
         /\ RevokedToken(j) < nextToken[jobs[j].prob] + Cardinality(Exhausted(jobs[j].prob))
  <1> DEFINE E == Exhausted(jobs[j].prob)
             L == {i \in E : i < j}
  <1>1. IsFiniteSet(E) /\ Cardinality(E) \in Nat
    BY ExhaustedFinite
  <1>2. L \subseteq E \ {j}
    BY DEF Exhausted
  <1>3. IsFiniteSet(E \ {j}) /\ Cardinality(E \ {j}) = Cardinality(E) - 1
    BY <1>1, FS_RemoveElement
  <1>4. Cardinality(L) \in Nat /\ Cardinality(L) <= Cardinality(E) - 1
    BY <1>2, <1>3, FS_Subset, FS_CardinalityType
  <1>5. nextToken[jobs[j].prob] \in Nat
    BY DEF TypeOK, JobRow
  <1> QED BY <1>1, <1>4, <1>5 DEF RevokedToken

-----------------------------------------------------------------------------
(* Type correctness *)

RequestType == [stage : Stages, req : ReqRecord, seen : SUBSET JobId, keySeen : BOOLEAN]
ClaimType == [job : JobId, token : Token, phase : Phases]
JobsOK == jobs \in [JobId -> JobRow] /\ PendingCanRun

LEMMA InitType == Init => TypeOK /\ PendingCanRun
  <1> SUFFICES ASSUME Init
               PROVE  TypeOK /\ PendingCanRun
    OBVIOUS
  <1>1. NoRequest \in RequestType
    BY DEF NoRequest, Stages, ReqRecord, RequestType
  <1>2. jobs \in [JobId -> JobRow] /\ nextToken \in [Keys -> Token \ {0}]
    BY AbsentType DEF Init
  <1>3. request \in [Clients -> RequestType]
    BY <1>1 DEF Init
  <1>4. claim \in [Workers -> ClaimType \cup {NoClaim}]
    BY DEF Init
  <1>5. PendingCanRun
    BY DEF Init, PendingCanRun, Absent
  <1>6. paused \in BOOLEAN /\ ops = {} /\ effects = {}
    BY DEF Init
  <1> QED BY <1>2, <1>3, <1>4, <1>5, <1>6, Zenon DEF TypeOK, RequestType, ClaimType

\* Replacing one row keeps the table well formed.
LEMMA JobsUpdate ==
  ASSUME TypeOK, PendingCanRun, NEW j \in JobId, NEW row \in JobRow,
         row.state = "pending" => row.attempt < MaxAttempts,
         jobs' = [jobs EXCEPT ![j] = row]
  PROVE  JobsOK'
  BY DEF TypeOK, PendingCanRun, JobsOK

LEMMA AnswerType ==
  ASSUME TypeOK, NEW c \in Clients, NEW reply \in Replies, Answer(c, reply)
  PROVE  request' \in [Clients -> RequestType]
  <1>1. request[c] \in RequestType /\ reply \in Stages
    BY DEF TypeOK, RequestType, Stages
  <1>2. [request[c] EXCEPT !.stage = reply, !.seen = {}, !.keySeen = FALSE] \in RequestType
    BY <1>1, Zenon DEF RequestType
  <1> QED BY <1>2, Zenon DEF TypeOK, Answer, RequestType

LEMMA GotoType ==
  ASSUME TypeOK, NEW w \in Workers, Claimed(w), NEW phase \in Phases, Goto(w, phase)
  PROVE  claim' \in [Workers -> ClaimType \cup {NoClaim}]
  <1>1. claim[w] \in ClaimType
    BY DEF TypeOK, Claimed, ClaimType, NoClaim
  <1>2. [claim[w] EXCEPT !.phase = phase] \in ClaimType
    BY <1>1, Zenon DEF ClaimType
  <1> QED BY <1>2, Zenon DEF TypeOK, Goto, ClaimType

LEMMA ReleasedType ==
  ASSUME TypeOK, NEW o, NEW phase \in Phases
  PROVE  Released(o, phase) \in [Workers -> ClaimType \cup {NoClaim}]
  BY DEF TypeOK, Released, ClaimType, NoClaim

TypeInv == TypeOK /\ PendingCanRun

LEMMA JobsSame ==
  ASSUME TypeInv, UNCHANGED jobs
  PROVE  JobsOK'
  BY DEF TypeInv, TypeOK, PendingCanRun, JobsOK

\* The parts of the type invariant, gathered after a step.
LEMMA TypeParts ==
  ASSUME JobsOK', nextToken' \in [Keys -> Token \ {0}], paused' \in BOOLEAN,
         request' \in [Clients -> RequestType],
         claim' \in [Workers -> ClaimType \cup {NoClaim}],
         ops' \subseteq Operation, effects' \subseteq [job : JobId, token : Token]
  PROVE  TypeInv'
  BY Zenon DEF TypeInv, TypeOK, JobsOK, RequestType, ClaimType

LEMMA TypeUnfold ==
  ASSUME TypeInv
  PROVE  /\ JobsOK /\ nextToken \in [Keys -> Token \ {0}] /\ paused \in BOOLEAN
         /\ request \in [Clients -> RequestType]
         /\ claim \in [Workers -> ClaimType \cup {NoClaim}]
         /\ ops \subseteq Operation /\ effects \subseteq [job : JobId, token : Token]
         /\ TypeOK /\ PendingCanRun
  BY Zenon DEF TypeInv, TypeOK, JobsOK, RequestType, ClaimType

LEMMA CancelPendingOK ==
  ASSUME TypeInv, NEW p, NEW types, jobs' = CancelPending(p, types)
  PROVE  JobsOK'
  BY CancelPendingType DEF TypeInv, JobsOK, PendingCanRun

LEMMA SubmitType ==
  ASSUME TypeInv, NEW c \in Clients, NEW r \in Requests, Submit(c, r) \/ SubmitEnsure(c, r)
  PROVE  TypeInv'
  <1>1. JobsOK'
    BY CancelPendingOK, JobsSame DEF Submit, SubmitEnsure
  <1>2. NoRequest \in RequestType /\ r \in ReqRecord
    BY DEF NoRequest, Stages, ReqRecord, RequestType
  <1>3. /\ [NoRequest EXCEPT !.stage = "read", !.req = r] \in RequestType
        /\ [NoRequest EXCEPT !.stage = "ensure", !.req = r] \in RequestType
    <2>1. "read" \in Stages /\ "ensure" \in Stages BY DEF Stages
    <2> QED BY <1>2, <2>1, Zenon DEF RequestType
  <1>4. request' \in [Clients -> RequestType]
    <2>1. request \in [Clients -> RequestType] BY TypeUnfold
    <2> QED BY <1>3, <2>1, Zenon DEF Submit, SubmitEnsure
  <1>5. UNCHANGED <<nextToken, paused, claim, ops, effects>>
    BY DEF Submit, SubmitEnsure
  <1> QED BY <1>1, <1>4, <1>5, TypeUnfold, TypeParts

LEMMA ReadTableType ==
  ASSUME TypeInv, NEW c \in Clients, ReadTable(c)
  PROVE  TypeInv'
  <1> DEFINE r == request[c].req
             new == [request[c] EXCEPT !.stage = "decide", !.seen = ActiveOn(r.prob),
                                       !.keySeen = (KeyRows(r) # {})]
  <1>1. JobsOK'
    BY JobsSame DEF ReadTable
  <1>2. request[c] \in RequestType
    BY TypeUnfold
  <1>3. "decide" \in Stages /\ ActiveOn(r.prob) \in SUBSET JobId /\ (KeyRows(r) # {}) \in BOOLEAN
    BY DEF Stages, ActiveOn
  <1>4. new \in RequestType
    BY <1>2, <1>3, Zenon DEF RequestType
  <1>5. request' \in [Clients -> RequestType]
    <2>1. request \in [Clients -> RequestType] BY TypeUnfold
    <2> QED BY <1>4, <2>1, Zenon DEF ReadTable
  <1>6. UNCHANGED <<nextToken, paused, claim, ops, effects>>
    BY DEF ReadTable
  <1> QED BY <1>1, <1>5, <1>6, TypeUnfold, TypeParts

\* Inserting the job of a request.
LEMMA InsertType ==
  ASSUME TypeInv, NEW r \in ReqRecord, NEW j \in JobId,
         NEW table \in [JobId -> JobRow],
         \A i \in JobId : table[i].state = "pending" => table[i].attempt < MaxAttempts,
         jobs' = [table EXCEPT ![j] = PendingRow(r)]
  PROVE  JobsOK'
  <1>1. PendingRow(r) \in JobRow
    BY PendingRowType
  <1>2. PendingRow(r).attempt = 1
    BY DEF PendingRow, Absent
  <1> QED BY <1>1, <1>2 DEF JobsOK, PendingCanRun

LEMMA CreateJobType ==
  ASSUME TypeInv, NEW c \in Clients, CreateJob(c)
  PROVE  TypeInv'
  <1> DEFINE r == request[c].req
  <1>1. r \in ReqRecord
    BY TypeUnfold DEF RequestType
  <1>2. \E reply \in Replies : Answer(c, reply)
    BY DEF CreateJob, Insert, ReplayReply, Replies
  <1>3. request' \in [Clients -> RequestType]
    BY <1>2, TypeUnfold, AnswerType
  <1>4. UNCHANGED jobs \/ \E j \in JobId : jobs' = [jobs EXCEPT ![j] = PendingRow(r)]
    BY DEF CreateJob, Insert
  <1>5. JobsOK'
    BY <1>1, <1>4, JobsSame, InsertType, TypeUnfold DEF JobsOK, PendingCanRun
  <1>6. UNCHANGED <<nextToken, paused, claim, ops, effects>>
    BY DEF CreateJob
  <1> QED BY <1>3, <1>5, <1>6, TypeUnfold, TypeParts

LEMMA EnsureRestoreType ==
  ASSUME TypeInv, NEW c \in Clients, EnsureRestore(c)
  PROVE  TypeInv'
  <1> DEFINE r == request[c].req
             cancelled == CancelPending(r.prob, {"scan", "snapshot"})
  <1>1. r \in ReqRecord
    BY TypeUnfold DEF RequestType
  <1>2. \E reply \in Replies : Answer(c, reply)
    BY DEF EnsureRestore, ReplayReply, Replies
  <1>3. request' \in [Clients -> RequestType]
    BY <1>2, TypeUnfold, AnswerType
  <1>4. \/ UNCHANGED jobs \/ jobs' = cancelled
        \/ \E j \in JobId : jobs' = [cancelled EXCEPT ![j] = PendingRow(r)]
    BY DEF EnsureRestore
  <1>5. /\ cancelled \in [JobId -> JobRow]
        /\ \A i \in JobId : cancelled[i].state = "pending" => cancelled[i].attempt < MaxAttempts
    BY CancelPendingType, TypeUnfold DEF PendingCanRun
  <1>6. JobsOK'
    BY <1>1, <1>4, <1>5, JobsSame, CancelPendingOK, InsertType
  <1>7. UNCHANGED <<nextToken, paused, claim, ops, effects>>
    BY DEF EnsureRestore
  <1> QED BY <1>3, <1>6, <1>7, TypeUnfold, TypeParts

LEMMA RowOK ==
  ASSUME TypeInv, NEW j \in JobId
  PROVE  /\ jobs[j] \in JobRow /\ jobs[j].attempt \in 0..MaxAttempts
         /\ jobs[j].prob \in Keys /\ jobs[j].token \in Token
         /\ nextToken[jobs[j].prob] \in Token \ {0}
  <1>1. jobs[j] \in JobRow /\ nextToken \in [Keys -> Token \ {0}]
    BY TypeUnfold DEF JobsOK
  <1> QED BY <1>1 DEF JobRow

LEMMA AcquireJobType ==
  ASSUME TypeInv, NEW w \in Loops, NEW locked, AcquireJob(w, locked)
  PROVE  TypeInv'
  <1>1. PICK j \in Eligible(w) \ locked :
          /\ Room(jobs[j].prob)
          /\ nextToken' = [nextToken EXCEPT ![jobs[j].prob] = @ + 1]
          /\ jobs' = [jobs EXCEPT ![j] = LeasedRow(j, OwnerOf(w), AcquiredToken(j))]
          /\ claim' = [claim EXCEPT ![w] = [job |-> j, token |-> AcquiredToken(j),
                                            phase |-> "claimed"]]
          /\ UNCHANGED <<paused, request, ops, effects>>
    BY DEF AcquireJob
  <1> DEFINE a == IF jobs[j].state = "pending" THEN jobs[j].attempt ELSE jobs[j].attempt + 1
             t == AcquiredToken(j)
             row == [jobs[j] EXCEPT !.state = "running", !.owner = OwnerOf(w), !.live = TRUE,
                                    !.token = t, !.attempt = a]
  <1>2. j \in JobId /\ jobs[j].attempt < MaxAttempts
    BY DEF Eligible
  <1>3. a \in 0..MaxAttempts /\ t \in Token /\ t + 1 \in Token \ {0}
    BY <1>1, <1>2, RowOK DEF AcquiredToken, Room
  <1>4. OwnerOf(w) \in Owners /\ "running" \in JobStates
    BY DEF OwnerOf, Owners, JobStates
  <1>5. row \in JobRow
    <2>1. jobs[j] \in JobRow
      BY <1>2, RowOK
    <2> HIDE DEF a, t
    <2> QED BY <1>3, <1>4, <2>1, Zenon DEF JobRow, Owners
  <1>6. row.state = "running"
    BY <1>2, RowOK DEF JobRow
  <1>7. jobs' = [jobs EXCEPT ![j] = row]
    BY <1>1, Zenon DEF LeasedRow
  <1>8. JobsOK'
    BY <1>2, <1>5, <1>6, <1>7, JobsUpdate, TypeUnfold
  <1>9. nextToken' \in [Keys -> Token \ {0}]
    BY <1>1, <1>3, TypeUnfold DEF AcquiredToken
  <1>10. claim' \in [Workers -> ClaimType \cup {NoClaim}]
    <2>1. [job |-> j, token |-> t, phase |-> "claimed"] \in ClaimType
      BY <1>2, <1>3 DEF ClaimType, Phases
    <2> QED BY <1>1, <2>1, TypeUnfold
  <1> QED BY <1>1, <1>8, <1>9, <1>10, TypeUnfold, TypeParts

LEMMA LeaseExpiresType ==
  ASSUME TypeInv, NEW j \in JobId, LeaseExpires(j)
  PROVE  TypeInv'
  <1> DEFINE row == [jobs[j] EXCEPT !.live = FALSE]
  <1>1. jobs' = [jobs EXCEPT ![j] = row] /\ jobs[j].state = "running"
    BY DEF LeaseExpires
  <1>2. row \in JobRow
    BY RowOK, Zenon DEF JobRow
  <1>3. row.state = "running"
    BY <1>1, RowOK DEF JobRow
  <1>4. JobsOK'
    BY <1>1, <1>2, <1>3, JobsUpdate, TypeUnfold
  <1>5. UNCHANGED <<nextToken, paused, request, claim, ops, effects>>
    BY DEF LeaseExpires
  <1> QED BY <1>4, <1>5, TypeUnfold, TypeParts

LEMMA FailExpiredType ==
  ASSUME TypeInv, FailExpiredRunningJobs
  PROVE  TypeInv'
  <1> DEFINE row(j) == [jobs[j] EXCEPT !.state = "failed", !.token = RevokedToken(j)]
  <1>1. ASSUME NEW j \in JobId, j \in Exhausted(jobs[j].prob)
        PROVE  row(j) \in JobRow /\ row(j).state = "failed"
    <2> DEFINE k == jobs[j].prob
    <2>1. RevokedToken(j) \in Token
      <3>1. /\ RevokedToken(j) \in Nat
            /\ RevokedToken(j) < nextToken[k] + Cardinality(Exhausted(k))
        BY <1>1, RevokedTokenBound, TypeUnfold
      <3>2. k \in Keys /\ nextToken[k] \in Nat /\ Cardinality(Exhausted(k)) \in Nat
        BY RowOK, ExhaustedFinite
      <3>3. nextToken[k] + Cardinality(Exhausted(k)) <= MaxToken
        BY <3>2 DEF FailExpiredRunningJobs
      <3> QED BY <3>1, <3>2, <3>3
    <2>2. jobs[j] \in JobRow /\ "failed" \in JobStates
      BY RowOK DEF JobStates
    <2>3. row(j) \in JobRow
      BY <2>1, <2>2, Zenon DEF JobRow
    <2> QED BY <2>2, <2>3 DEF JobRow
  <1>2. jobs' = [j \in JobId |-> IF j \in Exhausted(jobs[j].prob) THEN row(j) ELSE jobs[j]]
    BY DEF FailExpiredRunningJobs
  <1>3. JobsOK'
    <2> HIDE DEF row
    <2> QED BY <1>1, <1>2, RowOK, TypeUnfold DEF JobsOK, PendingCanRun
  <1>4. nextToken' \in [Keys -> Token \ {0}]
    <2>1. ASSUME NEW k \in Keys
          PROVE  nextToken[k] + Cardinality(Exhausted(k)) \in Token \ {0}
      <3>1. nextToken[k] \in Token \ {0}
        BY TypeUnfold
      <3>2. Cardinality(Exhausted(k)) \in Nat
        BY ExhaustedFinite
      <3>3. nextToken[k] + Cardinality(Exhausted(k)) <= MaxToken
        BY DEF FailExpiredRunningJobs
      <3> QED BY <3>1, <3>2, <3>3
    <2> QED BY <2>1 DEF FailExpiredRunningJobs
  <1>5. UNCHANGED <<paused, request, claim, ops, effects>>
    BY DEF FailExpiredRunningJobs
  <1> QED BY <1>3, <1>4, <1>5, TypeUnfold, TypeParts

LEMMA CancelJobType ==
  ASSUME TypeInv, NEW j \in JobId, CancelJob(j)
  PROVE  TypeInv'
  <1> DEFINE k == jobs[j].prob
             row == [jobs[j] EXCEPT !.state = "cancelled", !.cancelReq = TRUE,
                                    !.token = nextToken[k]]
  <1>1. jobs' = [jobs EXCEPT ![j] = row] /\ nextToken' = [nextToken EXCEPT ![k] = @ + 1]
    BY DEF CancelJob
  <1>2. jobs[j] \in JobRow /\ nextToken[k] \in Token /\ nextToken[k] + 1 \in Token \ {0}
    BY RowOK DEF CancelJob, Room
  <1>3. row \in JobRow
    <2>1. "cancelled" \in JobStates BY DEF JobStates
    <2> QED BY <1>2, <2>1, Zenon DEF JobRow
  <1>4. row.state = "cancelled"
    BY <1>2 DEF JobRow
  <1>5. JobsOK'
    BY <1>1, <1>3, <1>4, JobsUpdate, TypeUnfold
  <1>6. nextToken' \in [Keys -> Token \ {0}]
    BY <1>1, <1>2, TypeUnfold
  <1>7. UNCHANGED <<paused, request, claim, ops, effects>>
    BY DEF CancelJob
  <1> QED BY <1>5, <1>6, <1>7, TypeUnfold, TypeParts

LEMMA RetryJobType ==
  ASSUME TypeInv, NEW j \in JobId, RetryJob(j)
  PROVE  TypeInv'
  <1> DEFINE row == [jobs[j] EXCEPT !.state = "pending", !.owner = "none", !.live = FALSE,
                                    !.cancelReq = FALSE]
  <1>1. jobs' = [jobs EXCEPT ![j] = row] /\ jobs[j].attempt < MaxAttempts
    BY DEF RetryJob
  <1>2. jobs[j] \in JobRow
    BY RowOK
  <1>3. row \in JobRow
    <2>1. "pending" \in JobStates BY DEF JobStates
    <2> QED BY <1>2, <2>1, Zenon DEF JobRow
  <1>4. row.attempt = jobs[j].attempt
    BY <1>2 DEF JobRow
  <1>5. JobsOK'
    BY <1>1, <1>3, <1>4, JobsUpdate, TypeUnfold
  <1>6. UNCHANGED <<nextToken, paused, request, claim, ops, effects>>
    BY DEF RetryJob
  <1> QED BY <1>5, <1>6, TypeUnfold, TypeParts

LEMMA SetPausedType ==
  ASSUME TypeInv, NEW on \in BOOLEAN, SetPaused(on)
  PROVE  TypeInv'
  <1>1. JobsOK'
    BY JobsSame DEF SetPaused
  <1>2. paused' \in BOOLEAN /\ UNCHANGED <<nextToken, request, claim, ops, effects>>
    BY DEF SetPaused
  <1> QED BY <1>1, <1>2, TypeUnfold, TypeParts

\* Steps of the workers' memory and of the data plane's operations.
LEMMA MemoryType ==
  ASSUME TypeInv, claim' \in [Workers -> ClaimType \cup {NoClaim}], ops' \subseteq Operation,
         effects' \subseteq [job : JobId, token : Token],
         UNCHANGED <<jobs, nextToken, paused, request>>
  PROVE  TypeInv'
  BY JobsSame, TypeUnfold, TypeParts

LEMMA ClaimOK ==
  ASSUME TypeInv, NEW w \in Workers, Claimed(w)
  PROVE  claim[w] \in ClaimType /\ claim[w].job \in JobId /\ claim[w].token \in Token
  BY TypeUnfold DEF Claimed, ClaimType, NoClaim

LEMMA StartOpType ==
  ASSUME TypeInv, NEW w \in Workers, StartOp(w)
  PROVE  TypeInv'
  <1> DEFINE new == [job |-> claim[w].job, token |-> claim[w].token, stage |-> "called"]
  <1>1. Claimed(w)
    BY DEF StartOp, Claimed
  <1>2. \E phase \in Phases : Goto(w, phase)
    BY DEF StartOp, Phases, JoinedPhase
  <1>3. claim' \in [Workers -> ClaimType \cup {NoClaim}]
    BY <1>1, <1>2, TypeUnfold, GotoType
  <1>4. new \in Operation
    BY <1>1, ClaimOK DEF Operation
  <1>5. ops' \subseteq ops \cup {new}
    BY DEF StartOp
  <1>6. UNCHANGED <<jobs, nextToken, paused, request, effects>>
    BY DEF StartOp
  <1> QED BY <1>3, <1>4, <1>5, <1>6, TypeUnfold, MemoryType

LEMMA DataPlaneType ==
  ASSUME TypeInv, NEW o \in ops, OpEnter(o) \/ OpLand(o) \/ OpFails(o)
  PROVE  TypeInv'
  <1>1. o \in Operation
    BY TypeUnfold
  <1>2. [o EXCEPT !.stage = "locked"] \in Operation
    <2>1. "locked" \in {"called", "locked", "orphan"} OBVIOUS
    <2> QED BY <1>1, <2>1, Zenon DEF Operation
  <1>3. [job |-> o.job, token |-> o.token] \in [job : JobId, token : Token]
    BY <1>1 DEF Operation
  <1>4. ops' \subseteq Operation
    BY <1>2, TypeUnfold DEF OpEnter, OpLand, OpFails
  <1>5. effects' \subseteq [job : JobId, token : Token]
    BY <1>3, TypeUnfold DEF OpEnter, OpLand, OpFails
  <1>6. UNCHANGED claim \/ \E phase \in Phases : claim' = Released(o, phase)
    BY DEF OpEnter, OpLand, OpFails, Phases
  <1>7. claim' \in [Workers -> ClaimType \cup {NoClaim}]
    BY <1>6, TypeUnfold, ReleasedType
  <1>8. UNCHANGED <<jobs, nextToken, paused, request>>
    BY DEF OpEnter, OpLand, OpFails
  <1> QED BY <1>4, <1>5, <1>7, <1>8, MemoryType

LEMMA TimeoutType ==
  ASSUME TypeInv, NEW w \in Workers, Timeout(w)
  PROVE  TypeInv'
  <1>1. Claimed(w) /\ Goto(w, "failed") /\ "failed" \in Phases
    BY DEF Timeout, Claimed, Phases
  <1>2. claim' \in [Workers -> ClaimType \cup {NoClaim}]
    BY <1>1, TypeUnfold, GotoType
  <1>3. UNCHANGED <<jobs, nextToken, paused, request, ops, effects>>
    BY DEF Timeout
  <1> QED BY <1>2, <1>3, TypeUnfold, MemoryType

LEMMA DropType ==
  ASSUME TypeInv, NEW w \in Workers, Drop(w)
  PROVE  claim' \in [Workers -> ClaimType \cup {NoClaim}]
  BY TypeUnfold DEF Drop

\* A job reaches a final state.
LEMMA FinalState ==
  ASSUME TypeInv, NEW j \in JobId, NEW s \in {"completed", "failed"},
         jobs' = [jobs EXCEPT ![j].state = s]
  PROVE  JobsOK'
  <1> DEFINE row == [jobs[j] EXCEPT !.state = s]
  <1>1. jobs[j] \in JobRow /\ s \in JobStates
    BY RowOK DEF JobStates
  <1>2. row \in JobRow
    BY <1>1, Zenon DEF JobRow
  <1>3. row.state = s
    BY <1>1 DEF JobRow
  <1> QED BY <1>2, <1>3, JobsUpdate, TypeUnfold

LEMMA FinishType ==
  ASSUME TypeInv, NEW w \in Workers, Finish(w)
  PROVE  TypeInv'
  <1>1. claim[w].job \in JobId
    BY ClaimOK DEF Finish, HoldsLease, Claimed
  <1>2. JobsOK'
    BY <1>1, FinalState DEF Finish
  <1>3. claim' \in [Workers -> ClaimType \cup {NoClaim}]
    BY DropType DEF Finish
  <1>4. UNCHANGED <<nextToken, paused, request, ops, effects>>
    BY DEF Finish
  <1> QED BY <1>2, <1>3, <1>4, TypeUnfold, TypeParts

LEMMA AbandonType ==
  ASSUME TypeInv, NEW w \in Workers, Abandon(w)
  PROVE  TypeInv'
  BY DropType, MemoryType, TypeUnfold DEF Abandon

LEMMA WatcherLeasesType ==
  ASSUME TypeInv, NEW j \in JobId, NEW row \in JobRow, NEW t \in Token,
         WatcherLeases(j, row, t)
  PROVE  JobsOK' /\ claim' \in [Workers -> ClaimType \cup {NoClaim}]
  <1> DEFINE leased == [row EXCEPT !.state = "running", !.owner = OwnerOf(Watcher),
                                   !.live = TRUE, !.token = t]
  <1>1. OwnerOf(Watcher) \in Owners /\ "running" \in JobStates
    BY DEF OwnerOf, Owners, JobStates
  <1>2. leased \in JobRow
    BY <1>1, Zenon DEF JobRow, Owners
  <1>3. leased.state = "running"
    BY DEF JobRow
  <1>4. jobs' = [jobs EXCEPT ![j] = leased]
    BY Zenon DEF WatcherLeases
  <1>5. JobsOK'
    BY <1>2, <1>3, <1>4, JobsUpdate, TypeUnfold
  <1>6. [job |-> j, token |-> t, phase |-> "claimed"] \in ClaimType
    BY DEF ClaimType, Phases
  <1>7. claim' \in [Workers -> ClaimType \cup {NoClaim}]
    BY <1>6, TypeUnfold DEF WatcherLeases
  <1> QED BY <1>5, <1>7

LEMMA WatcherClaimType ==
  ASSUME TypeInv, NEW p \in Problems, WatcherClaim(p)
  PROVE  TypeInv'
  <1>1. PICK base \in 1..MaxToken :
          /\ base + 2 <= MaxEditToken
          /\ nextToken' = [nextToken EXCEPT ![p] = base + 2]
          /\ \/ \E j \in JobId : /\ jobs[j].state = "pending"
                               /\ WatcherLeases(j, [jobs[j] EXCEPT !.attempt = @ + 1], base + 1)
             \/ UNCHANGED <<jobs, claim>>
             \/ \E j \in JobId : WatcherLeases(j, WatcherRow(p, j), base)
          /\ UNCHANGED <<paused, request, ops, effects>>
    BY DEF WatcherClaim, ActiveOn
  <1>2. base \in Token /\ base + 1 \in Token /\ base + 2 \in Token \ {0}
    BY <1>1
  <1>3. nextToken' \in [Keys -> Token \ {0}]
    BY <1>1, <1>2, TypeUnfold DEF Keys
  <1>4. ASSUME NEW j \in JobId, jobs[j].state = "pending"
        PROVE  [jobs[j] EXCEPT !.attempt = @ + 1] \in JobRow
    <2>1. jobs[j] \in JobRow
      BY RowOK
    <2>2. jobs[j].attempt + 1 \in 0..MaxAttempts
      BY <1>4, RowOK, TypeUnfold DEF PendingCanRun
    <2> QED BY <2>1, <2>2, Zenon DEF JobRow
  <1>5. JobsOK' /\ claim' \in [Workers -> ClaimType \cup {NoClaim}]
    <2>1. CASE \E j \in JobId : /\ jobs[j].state = "pending"
                               /\ WatcherLeases(j, [jobs[j] EXCEPT !.attempt = @ + 1], base + 1)
      BY <1>2, <1>4, <2>1, WatcherLeasesType
    <2>2. CASE UNCHANGED <<jobs, claim>>
      BY <2>2, JobsSame, TypeUnfold
    <2>3. CASE \E j \in JobId : WatcherLeases(j, WatcherRow(p, j), base)
      BY <1>2, <2>3, WatcherLeasesType, WatcherRowType
    <2> QED BY <1>1, <2>1, <2>2, <2>3
  <1> QED BY <1>1, <1>3, <1>5, TypeUnfold, TypeParts

LEMMA WatcherCompleteType ==
  ASSUME TypeInv, WatcherComplete
  PROVE  TypeInv'
  <1>1. Watcher \in Workers
    BY DEF Workers
  <1>2. claim[Watcher].job \in JobId
    BY <1>1, ClaimOK DEF WatcherComplete, Claimed
  <1>3. JobsOK'
    BY <1>2, FinalState DEF WatcherComplete
  <1>4. claim' \in [Workers -> ClaimType \cup {NoClaim}]
    BY <1>1, DropType DEF WatcherComplete
  <1>5. UNCHANGED <<nextToken, paused, request, ops, effects>>
    BY DEF WatcherComplete
  <1> QED BY <1>3, <1>4, <1>5, TypeUnfold, TypeParts

LEMMA OrphanedType ==
  ASSUME TypeInv, NEW o \in ops
  PROVE  Orphaned(o) \in Operation
  <1>1. o \in Operation /\ "orphan" \in {"called", "locked", "orphan"}
    BY TypeUnfold
  <1> QED BY <1>1, Zenon DEF Orphaned, Operation

LEMMA WatcherFailType ==
  ASSUME TypeInv, WatcherFail
  PROVE  TypeInv'
  <1> DEFINE j == claim[Watcher].job
             s == FailedState(j)
             row == [jobs[j] EXCEPT !.state = s, !.owner = "none", !.live = FALSE]
  <1>1. Watcher \in Workers
    BY DEF Workers
  <1>2. j \in JobId
    BY <1>1, ClaimOK DEF WatcherFail, Claimed
  <1>3. UNCHANGED jobs \/ jobs' = [jobs EXCEPT ![j] = row]
    BY DEF WatcherFail
  <1>4. row \in JobRow
    <2>1. jobs[j] \in JobRow
      BY <1>2, RowOK
    <2>2. s \in JobStates
      BY DEF FailedState, JobStates
    <2> HIDE DEF s
    <2> QED BY <2>1, <2>2, Zenon DEF JobRow
  <1>5. row.state = "pending" => row.attempt < MaxAttempts
    <2>1. jobs[j] \in JobRow
      BY <1>2, RowOK
    <2>2. row.state = s /\ row.attempt = jobs[j].attempt
      BY <2>1 DEF JobRow
    <2> QED BY <2>2 DEF FailedState
  <1>6. JobsOK'
    BY <1>2, <1>3, <1>4, <1>5, JobsUpdate, JobsSame, TypeUnfold
  <1>7. claim' \in [Workers -> ClaimType \cup {NoClaim}]
    BY <1>1, DropType DEF WatcherFail
  <1>8. ops' \subseteq Operation
    BY OrphanedType, TypeUnfold DEF WatcherFail, WithoutWatcherUpload
  <1>9. UNCHANGED <<nextToken, paused, request, effects>>
    BY DEF WatcherFail
  <1> QED BY <1>6, <1>7, <1>8, <1>9, TypeUnfold, TypeParts

LEMMA DataPlaneRestartType ==
  ASSUME TypeInv, DataPlaneRestart
  PROVE  TypeInv'
  <1>1. ops' \subseteq Operation
    BY OrphanedType DEF DataPlaneRestart
  <1>2. ASSUME NEW w \in Workers, Claimed(w)
        PROVE  [claim[w] EXCEPT !.phase = "failed"] \in ClaimType
    <2>1. claim[w] \in ClaimType /\ "failed" \in Phases
      BY <1>2, ClaimOK DEF Phases
    <2> QED BY <2>1, Zenon DEF ClaimType
  <1>3. claim' \in [Workers -> ClaimType \cup {NoClaim}]
    <2>1. \A w \in Workers : claim[w].phase = "called" => Claimed(w)
      BY DEF Claimed
    <2>2. claim' = [w \in Workers |->
             IF w = Watcher THEN NoClaim
             ELSE IF claim[w].phase = "called" /\ jobs[claim[w].job].type # "snapshot"
                  THEN [claim[w] EXCEPT !.phase = "failed"] ELSE claim[w]]
      BY DEF DataPlaneRestart
    <2>3. \A w \in Workers : claim[w] \in ClaimType \cup {NoClaim}
      BY TypeUnfold
    <2> QED BY <1>2, <2>1, <2>2, <2>3
  <1>4. UNCHANGED <<jobs, nextToken, paused, request, effects>>
    BY DEF DataPlaneRestart
  <1> QED BY <1>1, <1>3, <1>4, TypeUnfold, MemoryType

-----------------------------------------------------------------------------

LEMMA TypeStep == TypeInv /\ [Next]_vars => TypeInv'
  <1> SUFFICES ASSUME TypeInv, [Next]_vars
               PROVE  TypeInv'
    OBVIOUS
  <1>1. CASE ClientStep
    BY <1>1, SubmitType, ReadTableType, CreateJobType, EnsureRestoreType DEF ClientStep
  <1>2. CASE WorkerStep
    BY <1>2, AcquireJobType, StartOpType, TimeoutType, FinishType, AbandonType DEF WorkerStep
  <1>3. CASE WatcherStep
    <2>1. WatchedProblems \subseteq Problems
      OBVIOUS
    <2> QED BY <1>3, <2>1, WatcherClaimType, WatcherCompleteType, WatcherFailType DEF WatcherStep
  <1>4. CASE DataPlaneStep
    BY <1>4, DataPlaneType DEF DataPlaneStep
  <1>5. CASE QueueStep
    BY <1>5, FailExpiredType, DataPlaneRestartType, LeaseExpiresType, CancelJobType,
       RetryJobType, SetPausedType DEF QueueStep
  <1>6. CASE UNCHANGED vars
    BY <1>6, JobsSame, TypeUnfold, TypeParts DEF vars
  <1> QED BY <1>1, <1>2, <1>3, <1>4, <1>5, <1>6 DEF Next

\* Every table and every process's memory keeps its type; the attempts of a
\* job stay within max_attempts, whichever of acquireJob, the watcher's claim
\* and fail_job counts them.
THEOREM TypeCorrect == Spec => []TypeOK
  <1>1. Init => TypeInv
    BY InitType DEF TypeInv
  <1>2. TypeInv => TypeOK
    BY DEF TypeInv
  <1> QED BY <1>1, <1>2, TypeStep, PTL DEF Spec

\* A queued job always has attempts left: neither fail_job nor retryJob can
\* leave a pending job that acquireJob would never take.
THEOREM PendingJobsCanRun == Spec => []PendingCanRun
  <1>1. Init => TypeInv
    BY InitType DEF TypeInv
  <1>2. TypeInv => PendingCanRun
    BY DEF TypeInv
  <1> QED BY <1>1, <1>2, TypeStep, PTL DEF Spec

-----------------------------------------------------------------------------
(* What no step does to a job: its row stays, on its problem and of its type, *)
(* its token never decreases, and a cancellation moves the token.             *)

Advances(old, row) ==
  /\ row.state # "absent" /\ row.prob = old.prob /\ row.type = old.type
  /\ old.token <= row.token
  /\ row.cancelReq => old.cancelReq \/ old.token < row.token

RowsAdvance == \A j \in JobId : Exists(j) => Advances(jobs[j], jobs'[j])
RunningKept == \A j \in JobId : jobs'[j].state = "running" => jobs[j].state = "running"
CountersAdvance == \A k \in Keys : nextToken'[k] \in Nat /\ nextToken[k] <= nextToken'[k]

LEMMA AdvancesSelf ==
  ASSUME TypeInv, NEW j \in JobId, Exists(j)
  PROVE  Advances(jobs[j], jobs[j])
  <1>1. jobs[j].token \in Nat
    BY RowOK
  <1> QED BY <1>1 DEF Advances, Exists

LEMMA CountersSame ==
  ASSUME TypeInv, UNCHANGED nextToken
  PROVE  CountersAdvance
  BY TypeUnfold DEF CountersAdvance

LEMMA TableSame ==
  ASSUME TypeInv, CounterAhead, CountersAdvance, UNCHANGED jobs
  PROVE  RowsAdvance /\ CounterAhead' /\ RunningKept
  <1>1. RowsAdvance
    BY AdvancesSelf DEF RowsAdvance
  <1>2. CounterAhead'
    BY RowOK DEF CounterAhead, CountersAdvance
  <1>3. RunningKept
    BY DEF RunningKept
  <1> QED BY <1>1, <1>2, <1>3

LEMMA RowStep ==
  ASSUME TypeInv, CounterAhead, CountersAdvance, NEW j \in JobId, NEW row \in JobRow,
         jobs' = [jobs EXCEPT ![j] = row],
         Exists(j) => Advances(jobs[j], row),
         row.token < nextToken'[row.prob]
  PROVE  /\ RowsAdvance /\ CounterAhead'
         /\ (row.state = "running" => jobs[j].state = "running") => RunningKept
  <1>1. jobs \in [JobId -> JobRow]
    BY TypeUnfold DEF JobsOK
  <1>2. jobs'[j] = row /\ \A i \in JobId \ {j} : jobs'[i] = jobs[i]
    BY <1>1
  <1>3. RowsAdvance
    BY <1>2, AdvancesSelf DEF RowsAdvance
  <1>4. CounterAhead'
    <2> SUFFICES ASSUME NEW i \in JobId
                 PROVE  jobs'[i].token < nextToken'[jobs'[i].prob]
      BY DEF CounterAhead
    <2>1. CASE i = j
      BY <1>2, <2>1
    <2>2. CASE i # j
      BY <1>2, <2>2, RowOK DEF CounterAhead, CountersAdvance
    <2> QED BY <2>1, <2>2
  <1>5. (row.state = "running" => jobs[j].state = "running") => RunningKept
    BY <1>2 DEF RunningKept
  <1> QED BY <1>3, <1>4, <1>5

\* Every row is kept or advances with its token.
LEMMA TableStep ==
  ASSUME TypeInv, CounterAhead, CountersAdvance,
         \A j \in JobId : \/ jobs'[j] = jobs[j]
                          \/ /\ Advances(jobs[j], jobs'[j])
                             /\ jobs'[j].token < nextToken'[jobs'[j].prob]
                             /\ jobs'[j].state # "running"
  PROVE  RowsAdvance /\ CounterAhead' /\ RunningKept
  <1>1. RowsAdvance
    BY AdvancesSelf DEF RowsAdvance
  <1>2. CounterAhead'
    BY RowOK DEF CounterAhead, CountersAdvance
  <1>3. RunningKept
    BY DEF RunningKept
  <1> QED BY <1>1, <1>2, <1>3

TableOK == RowsAdvance /\ CounterAhead' /\ RunningKept

LEMMA CancelledRow ==
  ASSUME TypeInv, NEW j \in JobId, jobs[j].state = "pending"
  PROVE  LET row == [jobs[j] EXCEPT !.state = "cancelled"]
         IN  Advances(jobs[j], row) /\ row.state = "cancelled"
                /\ row.token = jobs[j].token /\ row.prob = jobs[j].prob
  <1>1. jobs[j] \in JobRow /\ jobs[j].token \in Nat
    BY RowOK
  <1> QED BY <1>1 DEF Advances, JobRow

LEMMA CancelPendingRows ==
  ASSUME TypeInv, CounterAhead, NEW p, NEW types, NEW j \in JobId
  PROVE  LET row == CancelPending(p, types)[j]
         IN  \/ row = jobs[j]
             \/ /\ Advances(jobs[j], row) /\ row.state = "cancelled"
                /\ row.token < nextToken[row.prob]
  BY CancelledRow DEF CancelPending, CounterAhead

LEMMA SubmitTable ==
  ASSUME TypeInv, CounterAhead, NEW c \in Clients, NEW r \in Requests,
         Submit(c, r) \/ SubmitEnsure(c, r)
  PROVE  TableOK
  <1>1. CountersAdvance /\ UNCHANGED nextToken
    BY CountersSame DEF Submit, SubmitEnsure
  <1>2. UNCHANGED jobs \/ \E types : jobs' = CancelPending(r.prob, types)
    BY DEF Submit, SubmitEnsure
  <1>3. CASE UNCHANGED jobs
    BY <1>1, <1>3, TableSame DEF TableOK
  <1>4. ASSUME NEW types, jobs' = CancelPending(r.prob, types)
        PROVE  TableOK
    BY <1>1, <1>4, CancelPendingRows, TableStep DEF TableOK
  <1> QED BY <1>2, <1>3, <1>4

\* A new row takes the place of an absent one.
LEMMA InsertTable ==
  ASSUME TypeInv, CounterAhead, CountersAdvance, NEW r \in ReqRecord, NEW j \in JobId,
         ~Exists(j), jobs'[j] = PendingRow(r),
         \A i \in JobId \ {j} : \/ jobs'[i] = jobs[i]
                               \/ /\ Advances(jobs[i], jobs'[i]) /\ jobs'[i].state = "cancelled"
                                  /\ jobs'[i].token < nextToken'[jobs'[i].prob]
  PROVE  TableOK
  <1>1. PendingRow(r) \in JobRow
    BY PendingRowType
  <1>2. PendingRow(r).token = 0 /\ PendingRow(r).state = "pending"
    BY DEF PendingRow, Absent
  <1>3. PendingRow(r).prob \in Keys
    BY <1>1 DEF JobRow
  <1>4. RowsAdvance
    BY AdvancesSelf DEF RowsAdvance
  <1>5. nextToken'[PendingRow(r).prob] > 0
    BY <1>3, TypeUnfold DEF CountersAdvance
  <1>6. CounterAhead'
    BY <1>2, <1>5, RowOK DEF CounterAhead, CountersAdvance
  <1>7. RunningKept
    BY <1>2 DEF RunningKept
  <1> QED BY <1>4, <1>6, <1>7 DEF TableOK

LEMMA CreateJobTable ==
  ASSUME TypeInv, CounterAhead, NEW c \in Clients, CreateJob(c)
  PROVE  TableOK
  <1> DEFINE r == request[c].req
  <1>1. r \in ReqRecord
    BY TypeUnfold DEF RequestType
  <1>2. CountersAdvance
    BY CountersSame DEF CreateJob
  <1>3. UNCHANGED jobs \/ \E j \in JobId : ~Exists(j) /\ jobs' = [jobs EXCEPT ![j] = PendingRow(r)]
    BY DEF CreateJob, Insert, NextRow
  <1>4. CASE UNCHANGED jobs
    BY <1>2, <1>4, TableSame DEF TableOK
  <1>5. ASSUME NEW j \in JobId, ~Exists(j), jobs' = [jobs EXCEPT ![j] = PendingRow(r)]
        PROVE  TableOK
    <2>1. jobs'[j] = PendingRow(r) /\ \A i \in JobId \ {j} : jobs'[i] = jobs[i]
      BY <1>5, TypeUnfold DEF JobsOK
    <2> QED BY <1>1, <1>2, <1>5, <2>1, InsertTable
  <1> QED BY <1>3, <1>4, <1>5

LEMMA EnsureRestoreTable ==
  ASSUME TypeInv, CounterAhead, NEW c \in Clients, EnsureRestore(c)
  PROVE  TableOK
  <1> DEFINE r == request[c].req
             cancelled == CancelPending(r.prob, {"scan", "snapshot"})
  <1>1. r \in ReqRecord
    BY TypeUnfold DEF RequestType
  <1>2. CountersAdvance /\ UNCHANGED nextToken
    BY CountersSame DEF EnsureRestore
  <1>3. \/ UNCHANGED jobs \/ jobs' = cancelled
        \/ \E j \in JobId : ~Exists(j) /\ jobs' = [cancelled EXCEPT ![j] = PendingRow(r)]
    BY DEF EnsureRestore, NextRow
  <1>4. CASE UNCHANGED jobs
    BY <1>2, <1>4, TableSame DEF TableOK
  <1>5. CASE jobs' = cancelled
    BY <1>2, <1>5, CancelPendingRows, TableStep DEF TableOK
  <1>6. ASSUME NEW j \in JobId, ~Exists(j), jobs' = [cancelled EXCEPT ![j] = PendingRow(r)]
        PROVE  TableOK
    <2>1. cancelled \in [JobId -> JobRow]
      BY CancelPendingType, TypeUnfold
    <2>2. jobs'[j] = PendingRow(r) /\ \A i \in JobId \ {j} : jobs'[i] = cancelled[i]
      BY <1>6, <2>1
    <2>3. \A i \in JobId \ {j} : \/ jobs'[i] = jobs[i]
                               \/ /\ Advances(jobs[i], jobs'[i]) /\ jobs'[i].state = "cancelled"
                                  /\ jobs'[i].token < nextToken'[jobs'[i].prob]
      BY <1>2, <2>2, CancelPendingRows
    <2> QED BY <1>1, <1>2, <1>6, <2>2, <2>3, InsertTable
  <1> QED BY <1>3, <1>4, <1>5, <1>6

-----------------------------------------------------------------------------
(* Steps that acquire a job *)

\* Worker w acquires j with a token above all others of the problem, and no
\* other local operation of the problem is running.
Acquires(w, j, t) ==
  /\ claim' = [claim EXCEPT ![w] = [job |-> j, token |-> t, phase |-> "claimed"]]
  /\ jobs'[j].state # "absent" /\ jobs'[j].token = t
  /\ \A i \in JobId : Exists(i) /\ jobs[i].prob = jobs'[j].prob => jobs[i].token < t
  /\ \A i \in JobId \ {j} :
       /\ jobs'[i] = jobs[i]
       /\ jobs[i].prob = jobs'[j].prob /\ jobs[i].state = "running"
            => jobs[i].type \notin LocalTypes \/ jobs'[j].type \notin LocalTypes
  /\ UNCHANGED <<ops, effects>>

\* Row j becomes running, owned and alive, with token t.
LEMMA LeaseRow ==
  ASSUME TypeInv, CounterAhead, CountersAdvance, NEW j \in JobId, NEW row \in JobRow,
         jobs' = [jobs EXCEPT ![j] = row],
         row.state = "running", row.token \in Nat,
         Exists(j) => row.prob = jobs[j].prob /\ row.type = jobs[j].type,
         \A i \in JobId : jobs[i].prob = row.prob /\ Exists(i) => jobs[i].token < row.token,
         row.token < nextToken'[row.prob]
  PROVE  RowsAdvance /\ CounterAhead'
  <1>1. Exists(j) => Advances(jobs[j], row)
    BY RowOK DEF Advances
  <1> QED BY <1>1, RowStep

LEMMA AcquireJobTable ==
  ASSUME TypeInv, CounterAhead, NEW w \in Loops, NEW locked, AcquireJob(w, locked)
  PROVE  RowsAdvance /\ CounterAhead' /\ \E j \in JobId, t \in Token : Acquires(w, j, t)
  <1>1. PICK j \in Eligible(w) \ locked :
          /\ ~RunningElsewhere(j) /\ Room(jobs[j].prob)
          /\ nextToken' = [nextToken EXCEPT ![jobs[j].prob] = @ + 1]
          /\ jobs' = [jobs EXCEPT ![j] = LeasedRow(j, OwnerOf(w), AcquiredToken(j))]
          /\ claim' = [claim EXCEPT ![w] = [job |-> j, token |-> AcquiredToken(j),
                                            phase |-> "claimed"]]
          /\ UNCHANGED <<paused, request, ops, effects>>
    BY DEF AcquireJob
  <1> DEFINE k == jobs[j].prob
             t == AcquiredToken(j)
             row == LeasedRow(j, OwnerOf(w), t)
  <1>2. j \in JobId /\ Exists(j) /\ jobs[j] \in JobRow /\ k \in Keys
    BY RowOK DEF Eligible, Exists
  <1>3. t = nextToken[k] /\ t \in Token /\ t \in Nat
    BY <1>2, RowOK DEF AcquiredToken
  <1>4. row \in JobRow
    <2>1. JobsOK'
      BY <1>1, AcquireJobType, TypeUnfold DEF TypeInv, TypeOK, JobsOK
    <2>2. jobs'[j] = row
      BY <1>1, <1>2, TypeUnfold DEF JobsOK
    <2>3. jobs'[j] \in JobRow
      BY <1>2, <2>1 DEF JobsOK
    <2> QED BY <2>2, <2>3
  <1>5. row.state = "running" /\ row.token = t /\ row.prob = k /\ row.type = jobs[j].type
    BY <1>2 DEF LeasedRow, JobRow
  <1>6. CountersAdvance /\ t < nextToken'[k]
    BY <1>1, <1>2, <1>3, TypeUnfold DEF CountersAdvance
  <1>7. \A i \in JobId : jobs[i].prob = k => jobs[i].token < t
    BY <1>3 DEF CounterAhead
  <1>8. jobs' = [jobs EXCEPT ![j] = row]
    BY <1>1
  <1>9. RowsAdvance /\ CounterAhead'
    <2>1. row.token \in Nat /\ row.token < nextToken'[row.prob]
      BY <1>3, <1>5, <1>6
    <2>2. \A i \in JobId : jobs[i].prob = row.prob /\ Exists(i) => jobs[i].token < row.token
      BY <1>5, <1>7
    <2>3. row.prob = jobs[j].prob /\ row.type = jobs[j].type /\ row.state = "running"
      BY <1>5
    <2> HIDE DEF row, k, t
    <2> QED BY <1>2, <1>4, <1>6, <1>8, <2>1, <2>2, <2>3, LeaseRow
  <1>10. jobs'[j] = row /\ \A i \in JobId \ {j} : jobs'[i] = jobs[i]
    BY <1>2, <1>8, TypeUnfold DEF JobsOK
  <1>11. Acquires(w, j, t)
    <2>1. \A i \in JobId \ {j} : jobs[i].prob = k /\ jobs[i].state = "running"
            => jobs[i].type \notin LocalTypes \/ jobs[j].type \notin LocalTypes
      BY <1>1 DEF RunningElsewhere
    <2> HIDE DEF row
    <2> QED BY <1>1, <1>5, <1>7, <1>10, <2>1 DEF Acquires
  <1> QED BY <1>2, <1>3, <1>9, <1>11

LEMMA WatcherLeasesTable ==
  ASSUME TypeInv, CounterAhead, CountersAdvance, NEW j \in JobId, NEW row \in JobRow,
         NEW t \in Token, WatcherLeases(j, row, t), UNCHANGED <<ops, effects>>,
         Exists(j) => row.prob = jobs[j].prob /\ row.type = jobs[j].type,
         \A i \in JobId : jobs[i].prob = row.prob /\ Exists(i) => jobs[i].token < t,
         \A i \in JobId \ {j} : jobs[i].prob = row.prob /\ jobs[i].state = "running"
            => jobs[i].type \notin LocalTypes \/ row.type \notin LocalTypes,
         t < nextToken'[row.prob]
  PROVE  RowsAdvance /\ CounterAhead' /\ Acquires(Watcher, j, t)
  <1> DEFINE leased == [row EXCEPT !.state = "running", !.owner = OwnerOf(Watcher),
                                   !.live = TRUE, !.token = t]
  <1>1. jobs' = [jobs EXCEPT ![j] = leased]
    BY Zenon DEF WatcherLeases
  <1>2. OwnerOf(Watcher) \in Owners /\ "running" \in JobStates
    BY DEF OwnerOf, Owners, JobStates
  <1>3. leased \in JobRow
    BY <1>2, Zenon DEF JobRow, Owners
  <1>4. leased.state = "running" /\ leased.token = t /\ leased.prob = row.prob
        /\ leased.type = row.type
    BY DEF JobRow
  <1> HIDE DEF leased
  <1>5. RowsAdvance /\ CounterAhead'
    <2>1. leased.token \in Nat BY <1>4
    <2> QED BY <1>1, <1>3, <1>4, <2>1, LeaseRow
  <1>6. jobs'[j] = leased /\ \A i \in JobId \ {j} : jobs'[i] = jobs[i]
    BY <1>1, TypeUnfold DEF JobsOK
  <1>7. claim' = [claim EXCEPT ![Watcher] = [job |-> j, token |-> t, phase |-> "claimed"]]
    BY DEF WatcherLeases
  <1>8. Acquires(Watcher, j, t)
    BY <1>4, <1>6, <1>7 DEF Acquires
  <1> QED BY <1>5, <1>8

LEMMA WatcherClaimTable ==
  ASSUME TypeInv, CounterAhead, NEW p \in Problems, WatcherClaim(p)
  PROVE  /\ RowsAdvance /\ CounterAhead'
         /\ \/ RunningKept /\ UNCHANGED <<claim, ops, effects>>
            \/ \E j \in JobId, t \in Token : Acquires(Watcher, j, t)
  <1>1. PICK base \in 1..MaxToken :
          /\ IsBaseToken(p, base) /\ base + 2 <= MaxEditToken
          /\ nextToken' = [nextToken EXCEPT ![p] = base + 2]
          /\ UNCHANGED <<paused, request, ops, effects>>
          /\ \/ \E j \in JobId :
                  /\ jobs[j].prob = p /\ jobs[j].type = "snapshot" /\ jobs[j].state = "pending"
                  /\ ~RunningElsewhere(j)
                  /\ WatcherLeases(j, [jobs[j] EXCEPT !.attempt = @ + 1], base + 1)
             \/ UNCHANGED <<jobs, claim>>
             \/ /\ \A j \in ActiveOn(p) : ~(jobs[j].state = "running" /\ jobs[j].type \in LocalTypes)
                /\ \E j \in JobId : ~Exists(j) /\ WatcherLeases(j, WatcherRow(p, j), base)
    BY DEF WatcherClaim, ActiveOn, NextRow
  <1>2. p \in Keys /\ nextToken[p] \in Nat /\ nextToken[p] <= base
    BY <1>1, TypeUnfold DEF Keys, IsBaseToken
  <1>3. base \in Token /\ base + 1 \in Token
    BY <1>1
  <1>4. CountersAdvance /\ nextToken'[p] = base + 2
    BY <1>1, <1>2, TypeUnfold DEF CountersAdvance
  <1>5. \A i \in JobId : jobs[i].prob = p => jobs[i].token < base /\ jobs[i].token < base + 1
    BY <1>1, <1>3, RowOK DEF IsBaseToken
  <1>6. ASSUME NEW j \in JobId,
               jobs[j].prob = p, jobs[j].type = "snapshot", jobs[j].state = "pending",
               ~RunningElsewhere(j),
               WatcherLeases(j, [jobs[j] EXCEPT !.attempt = @ + 1], base + 1)
        PROVE  RowsAdvance /\ CounterAhead' /\ Acquires(Watcher, j, base + 1)
    <2> DEFINE row == [jobs[j] EXCEPT !.attempt = @ + 1]
    <2>1. row \in JobRow
      <3>1. jobs[j].attempt + 1 \in 0..MaxAttempts /\ jobs[j] \in JobRow
        BY <1>6, RowOK, TypeUnfold DEF PendingCanRun
      <3> QED BY <3>1, Zenon DEF JobRow
    <2>2. row.prob = p /\ row.type = "snapshot"
      BY <1>6, RowOK DEF JobRow
    <2>3. \A i \in JobId \ {j} : jobs[i].prob = p /\ jobs[i].state = "running"
            => jobs[i].type \notin LocalTypes
      BY <1>6 DEF RunningElsewhere, LocalTypes
    <2>4. WatcherLeases(j, row, base + 1)
      BY <1>6
    <2> HIDE DEF row
    <2> QED BY <1>1, <1>3, <1>4, <1>5, <1>6, <2>1, <2>2, <2>3, <2>4, WatcherLeasesTable
  <1>7. ASSUME NEW j \in JobId, ~Exists(j), WatcherLeases(j, WatcherRow(p, j), base),
               \A i \in ActiveOn(p) : ~(jobs[i].state = "running" /\ jobs[i].type \in LocalTypes)
        PROVE  RowsAdvance /\ CounterAhead' /\ Acquires(Watcher, j, base)
    <2>1. WatcherRow(p, j) \in JobRow
      BY WatcherRowType
    <2>2. WatcherRow(p, j).prob = p
      BY DEF WatcherRow, Absent
    <2>3. \A i \in JobId \ {j} : jobs[i].prob = p /\ jobs[i].state = "running"
            => jobs[i].type \notin LocalTypes
      BY <1>7 DEF ActiveOn, Active
    <2> QED BY <1>1, <1>3, <1>4, <1>5, <1>7, <2>1, <2>2, <2>3, WatcherLeasesTable
  <1>8. CASE UNCHANGED <<jobs, claim>>
    BY <1>1, <1>4, <1>8, TableSame
  <1> QED BY <1>1, <1>3, <1>6, <1>7, <1>8

-----------------------------------------------------------------------------
(* Other steps of the table *)

LEMMA LeaseExpiresTable ==
  ASSUME TypeInv, CounterAhead, NEW j \in JobId, LeaseExpires(j)
  PROVE  TableOK
  <1> DEFINE row == [jobs[j] EXCEPT !.live = FALSE]
  <1>1. jobs[j] \in JobRow /\ jobs[j].token \in Nat /\ jobs[j].state = "running"
    BY RowOK DEF LeaseExpires
  <1>2. row \in JobRow
    BY <1>1, Zenon DEF JobRow
  <1>3. /\ row.state = "running" /\ row.token = jobs[j].token /\ row.prob = jobs[j].prob
        /\ row.type = jobs[j].type /\ row.cancelReq = jobs[j].cancelReq
    BY <1>1 DEF JobRow
  <1>4. jobs' = [jobs EXCEPT ![j] = row] /\ UNCHANGED nextToken
    BY DEF LeaseExpires
  <1> HIDE DEF row
  <1>5. Advances(jobs[j], row) /\ row.token < nextToken'[row.prob]
    BY <1>1, <1>3, <1>4 DEF Advances, CounterAhead
  <1> QED BY <1>1, <1>2, <1>4, <1>5, CountersSame, RowStep DEF TableOK

\* A row leaves the running state, its token unchanged or raised.
LEMMA RowLeaves ==
  ASSUME TypeInv, CounterAhead, CountersAdvance, NEW j \in JobId, NEW row \in JobRow,
         jobs' = [jobs EXCEPT ![j] = row],
         row.state \notin {"absent", "running"},
         row.prob = jobs[j].prob, row.type = jobs[j].type,
         \/ /\ row.token = jobs[j].token
            /\ row.cancelReq => jobs[j].cancelReq
         \/ /\ row.token \in Nat /\ nextToken[row.prob] <= row.token
            /\ row.token < nextToken'[row.prob]
  PROVE  TableOK
  <1>1. jobs[j].token \in Nat /\ row.prob \in Keys /\ nextToken[row.prob] \in Nat
    BY RowOK
  <1>2. jobs[j].token < nextToken[row.prob]
    BY DEF CounterAhead
  <1>3. Advances(jobs[j], row)
    BY <1>1, <1>2 DEF Advances
  <1>4. row.token < nextToken'[row.prob]
    BY <1>1, <1>2 DEF CountersAdvance
  <1> QED BY <1>3, <1>4, RowStep DEF TableOK

LEMMA CancelJobTable ==
  ASSUME TypeInv, CounterAhead, NEW j \in JobId, CancelJob(j)
  PROVE  TableOK
  <1> DEFINE k == jobs[j].prob
             row == [jobs[j] EXCEPT !.state = "cancelled", !.cancelReq = TRUE,
                                    !.token = nextToken[k]]
  <1>1. jobs' = [jobs EXCEPT ![j] = row] /\ nextToken' = [nextToken EXCEPT ![k] = @ + 1]
    BY DEF CancelJob
  <1>2. jobs[j] \in JobRow /\ nextToken[k] \in Token /\ nextToken[k] \in Nat /\ k \in Keys
    BY RowOK
  <1>3. row \in JobRow
    <2>1. "cancelled" \in JobStates BY DEF JobStates
    <2> QED BY <1>2, <2>1, Zenon DEF JobRow
  <1>4. /\ row.state = "cancelled" /\ row.prob = k /\ row.type = jobs[j].type
        /\ row.token = nextToken[k]
    BY <1>2 DEF JobRow
  <1>5. CountersAdvance /\ nextToken'[k] = nextToken[k] + 1
    BY <1>1, <1>2, TypeUnfold DEF CountersAdvance
  <1>6. /\ row.token \in Nat /\ nextToken[row.prob] <= row.token
        /\ row.token < nextToken'[row.prob] /\ row.state \notin {"absent", "running"}
    BY <1>2, <1>4, <1>5
  <1> HIDE DEF row
  <1> QED BY <1>1, <1>3, <1>4, <1>5, <1>6, RowLeaves

LEMMA RetryJobTable ==
  ASSUME TypeInv, CounterAhead, NEW j \in JobId, RetryJob(j)
  PROVE  TableOK
  <1> DEFINE row == [jobs[j] EXCEPT !.state = "pending", !.owner = "none", !.live = FALSE,
                                    !.cancelReq = FALSE]
  <1>1. jobs' = [jobs EXCEPT ![j] = row] /\ UNCHANGED nextToken
    BY DEF RetryJob
  <1>2. jobs[j] \in JobRow
    BY RowOK
  <1>3. row \in JobRow
    <2>1. "pending" \in JobStates BY DEF JobStates
    <2> QED BY <1>2, <2>1, Zenon DEF JobRow
  <1>4. /\ row.state = "pending" /\ row.prob = jobs[j].prob /\ row.type = jobs[j].type
        /\ row.token = jobs[j].token /\ row.cancelReq = FALSE
    BY <1>2 DEF JobRow
  <1> HIDE DEF row
  <1> QED BY <1>1, <1>3, <1>4, CountersSame, RowLeaves

LEMMA FinalStateTable ==
  ASSUME TypeInv, CounterAhead, NEW j \in JobId, NEW s \in {"completed", "failed"},
         jobs' = [jobs EXCEPT ![j].state = s], UNCHANGED nextToken
  PROVE  TableOK
  <1> DEFINE row == [jobs[j] EXCEPT !.state = s]
  <1>1. jobs[j] \in JobRow /\ s \in JobStates
    BY RowOK DEF JobStates
  <1>2. row \in JobRow
    BY <1>1, Zenon DEF JobRow
  <1>3. /\ row.state = s /\ row.prob = jobs[j].prob /\ row.type = jobs[j].type
        /\ row.token = jobs[j].token /\ row.cancelReq = jobs[j].cancelReq
    BY <1>1 DEF JobRow
  <1>4. jobs' = [jobs EXCEPT ![j] = row] /\ row.state \notin {"absent", "running"}
    BY <1>3, Zenon
  <1>5. CountersAdvance
    BY CountersSame
  <1>6. row.cancelReq => jobs[j].cancelReq
    BY <1>3
  <1>7. row.prob = jobs[j].prob /\ row.type = jobs[j].type /\ row.token = jobs[j].token
    BY <1>3
  <1> HIDE DEF row
  <1> QED BY <1>2, <1>4, <1>5, <1>6, <1>7, RowLeaves

LEMMA FinishTable ==
  ASSUME TypeInv, CounterAhead, NEW w \in Workers, Finish(w)
  PROVE  TableOK
  <1>1. claim[w].job \in JobId
    BY ClaimOK DEF Finish, HoldsLease, Claimed
  <1> QED BY <1>1, FinalStateTable DEF Finish

LEMMA WatcherCompleteTable ==
  ASSUME TypeInv, CounterAhead, WatcherComplete
  PROVE  TableOK
  <1>1. Watcher \in Workers
    BY DEF Workers
  <1>2. claim[Watcher].job \in JobId
    BY <1>1, ClaimOK DEF WatcherComplete, Claimed
  <1> QED BY <1>2, FinalStateTable DEF WatcherComplete

LEMMA WatcherFailTable ==
  ASSUME TypeInv, CounterAhead, WatcherFail
  PROVE  TableOK
  <1> DEFINE j == claim[Watcher].job
             row == [jobs[j] EXCEPT !.state = FailedState(j), !.owner = "none", !.live = FALSE]
  <1>1. Watcher \in Workers
    BY DEF Workers
  <1>2. j \in JobId
    BY <1>1, ClaimOK DEF WatcherFail, Claimed
  <1>3. CountersAdvance
    BY CountersSame DEF WatcherFail
  <1>4. jobs[j] \in JobRow /\ FailedState(j) \in JobStates
    BY <1>2, RowOK DEF FailedState, JobStates
  <1>5. row \in JobRow
    BY <1>4, Zenon DEF JobRow
  <1>6. /\ row.state = FailedState(j) /\ row.prob = jobs[j].prob /\ row.type = jobs[j].type
        /\ row.token = jobs[j].token /\ row.cancelReq = jobs[j].cancelReq
    BY <1>4 DEF JobRow
  <1>7. UNCHANGED jobs \/ jobs' = [jobs EXCEPT ![j] = row]
    BY DEF WatcherFail
  <1>8. FailedState(j) \notin {"absent", "running"}
    BY DEF FailedState
  <1> HIDE DEF row, j
  <1> QED BY <1>2, <1>3, <1>5, <1>6, <1>7, <1>8, RowLeaves, TableSame DEF TableOK

LEMMA FailExpiredTable ==
  ASSUME TypeInv, CounterAhead, FailExpiredRunningJobs
  PROVE  TableOK
  <1> DEFINE row(j) == [jobs[j] EXCEPT !.state = "failed", !.token = RevokedToken(j)]
  <1>1. /\ jobs' = [j \in JobId |-> IF j \in Exhausted(jobs[j].prob) THEN row(j) ELSE jobs[j]]
        /\ nextToken' = [k \in Keys |-> nextToken[k] + Cardinality(Exhausted(k))]
    BY DEF FailExpiredRunningJobs
  <1>2. CountersAdvance
    <2>1. \A k \in Keys : nextToken[k] \in Nat /\ Cardinality(Exhausted(k)) \in Nat
      BY TypeUnfold, ExhaustedFinite
    <2>2. nextToken' = [k \in Keys |-> nextToken[k] + Cardinality(Exhausted(k))]
      BY <1>1
    <2> HIDE DEF row
    <2> QED BY <2>1, <2>2 DEF CountersAdvance
  <1>3. ASSUME NEW j \in JobId, j \in Exhausted(jobs[j].prob)
        PROVE  /\ Advances(jobs[j], row(j)) /\ row(j).state # "running"
               /\ row(j).token < nextToken'[row(j).prob]
    <2> DEFINE k == jobs[j].prob
    <2>1. jobs[j] \in JobRow /\ k \in Keys /\ jobs[j].token \in Nat /\ nextToken[k] \in Nat
      BY RowOK
    <2>2. /\ RevokedToken(j) \in Nat /\ nextToken[k] <= RevokedToken(j)
          /\ RevokedToken(j) < nextToken[k] + Cardinality(Exhausted(k))
      BY <1>3, RevokedTokenBound, TypeUnfold
    <2>3. nextToken'[k] = nextToken[k] + Cardinality(Exhausted(k))
      BY <1>1, <2>1
    <2>4. /\ row(j).state = "failed" /\ row(j).token = RevokedToken(j) /\ row(j).prob = k
          /\ row(j).type = jobs[j].type
      BY <2>1 DEF JobRow
    <2>5. jobs[j].token < nextToken[k]
      BY DEF CounterAhead
    <2> HIDE DEF row, k
    <2>6. jobs[j].token < row(j).token /\ row(j).token < nextToken'[row(j).prob]
      BY <2>1, <2>2, <2>3, <2>4, <2>5
    <2>7. row(j).prob = jobs[j].prob
      BY <2>4 DEF k
    <2> QED BY <2>1, <2>2, <2>4, <2>6, <2>7 DEF Advances
  <1> HIDE DEF row
  <1> QED BY <1>1, <1>2, <1>3, TableStep DEF TableOK

-----------------------------------------------------------------------------
(* Steps that start, admit or publish nothing                               *)

SameWork(x, o) == /\ x.job = o.job /\ x.token = o.token
                  /\ x.stage = "locked" => o.stage = "locked"

\* Workers keep or forget what they remember.
ClaimsKept ==
  \A w \in Workers :
    claim'[w].phase # "idle" =>
      /\ claim[w].phase # "idle" /\ claim'[w].job = claim[w].job
      /\ claim'[w].token = claim[w].token
      /\ claim'[w].phase = "claimed" => claim[w].phase = "claimed"

\* The operations in flight are some of those that were.
OpsKept ==
  /\ \A x \in ops' : \E o \in ops : SameWork(x, o)
  /\ \A x, y \in ops' : x # y => \E o, q \in ops : o # q /\ SameWork(x, o) /\ SameWork(y, q)

\* For rows that exist, to be of one problem is for ever.
LEMMA SameProblemKept ==
  ASSUME RowsAdvance, NEW i \in JobId, NEW j \in JobId, Exists(i), Exists(j)
  PROVE  SameProblem(i, j)' <=> SameProblem(i, j)
  BY DEF RowsAdvance, Advances, SameProblem

LEMMA RemembersKept ==
  ASSUME TypeInv, TypeInv', RowsAdvance, NEW x, NEW y, x.job \in JobId, x.token \in Nat,
         y.job = x.job, y.token = x.token, Remembers(x)
  PROVE  Exists(y.job)' /\ y.token <= jobs'[y.job].token
  <1>1. jobs[x.job].token \in Nat
    BY RowOK
  <1>2. jobs'[x.job] \in JobRow
    BY DEF TypeInv, TypeOK
  <1>3. jobs'[x.job].token \in Nat
    BY <1>2 DEF JobRow
  <1> QED BY <1>1, <1>3 DEF Remembers, RowsAdvance, Advances, Exists

LEMMA Unfold ==
  ASSUME IInv
  PROVE  /\ TypeInv /\ CounterAhead /\ MemoryBehind /\ ClaimsDistinct /\ OpsDistinct
         /\ LockSound /\ OneRunning /\ CancelRevokes
         /\ \A w \in Workers : Claimed(w) => claim[w].job \in JobId /\ claim[w].token \in Nat
                                            /\ Remembers(claim[w])
         /\ \A o \in ops : o.job \in JobId /\ o.token \in Nat /\ Remembers(o)
         /\ \A e \in effects : e.job \in JobId /\ e.token \in Nat /\ Remembers(e)
  <1>1. TypeInv
    BY DEF IInv, TypeInv
  <1>2. ops \subseteq Operation /\ effects \subseteq [job : JobId, token : Token]
    BY <1>1, TypeUnfold
  <1>3. \A w \in Workers : Claimed(w) => claim[w].job \in JobId /\ claim[w].token \in Nat
    BY <1>1, ClaimOK
  <1> QED BY <1>1, <1>2, <1>3 DEF IInv, MemoryBehind, Operation

LEMMA OneRunningKept ==
  ASSUME IInv, RowsAdvance, RunningKept
  PROVE  OneRunning'
  BY DEF IInv, OneRunning, RowsAdvance, RunningKept, Advances, Exists, SameProblem

LEMMA MemoryKept ==
  ASSUME IInv, TypeInv', RowsAdvance, ClaimsKept, OpsKept, UNCHANGED effects
  PROVE  MemoryBehind'
  <1>1. ASSUME NEW w \in Workers, Claimed(w)'
        PROVE  Remembers(claim[w])'
    BY <1>1, Unfold, RemembersKept DEF ClaimsKept, Claimed, Remembers
  <1>2. ASSUME NEW x \in ops'
        PROVE  Exists(x.job)' /\ x.token <= jobs'[x.job].token
    BY <1>2, Unfold, RemembersKept DEF OpsKept, SameWork
  <1>3. ASSUME NEW e \in effects
        PROVE  Exists(e.job)' /\ e.token <= jobs'[e.job].token
    BY <1>3, Unfold, RemembersKept
  <1> QED BY <1>1, <1>2, <1>3 DEF MemoryBehind, Remembers

\* Two things remembered are of one problem after the step as before it.
LEMMA PairKept ==
  ASSUME TypeInv, RowsAdvance, NEW x, NEW y,
         x.job \in JobId, y.job \in JobId, Remembers(x), Remembers(y)
  PROVE  jobs'[x.job].prob = jobs'[y.job].prob <=> jobs[x.job].prob = jobs[y.job].prob
  BY DEF RowsAdvance, Advances, Remembers

LEMMA ClaimsDistinctKept ==
  ASSUME IInv, RowsAdvance, ClaimsKept
  PROVE  ClaimsDistinct'
  <1> SUFFICES ASSUME NEW v \in Workers, NEW w \in Workers, v # w,
                      Claimed(v)', Claimed(w)', SameProblem(claim[v].job, claim[w].job)'
               PROVE  claim'[v].token # claim'[w].token
    BY DEF ClaimsDistinct
  <1>1. /\ Claimed(v) /\ claim'[v].job = claim[v].job /\ claim'[v].token = claim[v].token
        /\ Claimed(w) /\ claim'[w].job = claim[w].job /\ claim'[w].token = claim[w].token
    BY DEF ClaimsKept, Claimed
  <1>2. SameProblem(claim[v].job, claim[w].job)
    BY <1>1, Unfold, PairKept DEF SameProblem
  <1> QED BY <1>1, <1>2, Unfold DEF ClaimsDistinct

LEMMA OpsDistinctKept ==
  ASSUME IInv, RowsAdvance, ClaimsKept, OpsKept, UNCHANGED effects
  PROVE  OpsDistinct'
  <1>1. ASSUME NEW w \in Workers, claim'[w].phase = "claimed"
        PROVE  UnusedToken(claim[w])'
    <2>1. /\ claim[w].phase = "claimed" /\ Claimed(w)
          /\ claim'[w].job = claim[w].job /\ claim'[w].token = claim[w].token
      BY <1>1 DEF ClaimsKept, Claimed
    <2>2. UnusedToken(claim[w])
      BY <2>1, Unfold DEF OpsDistinct
    <2>3. ASSUME NEW x \in ops', jobs'[x.job].prob = jobs'[claim[w].job].prob
          PROVE  x.token # claim[w].token
      <3>1. PICK o \in ops : SameWork(x, o)
        BY <2>3 DEF OpsKept
      <3>2. jobs[o.job].prob = jobs[claim[w].job].prob
        BY <2>1, <2>3, <3>1, Unfold, PairKept DEF SameWork
      <3> QED BY <2>2, <3>1, <3>2 DEF UnusedToken, SameProblem, SameWork
    <2>4. ASSUME NEW e \in effects, jobs'[e.job].prob = jobs'[claim[w].job].prob
          PROVE  e.token # claim[w].token
      <3>1. jobs[e.job].prob = jobs[claim[w].job].prob
        BY <2>1, <2>4, Unfold, PairKept
      <3> QED BY <2>2, <3>1 DEF UnusedToken, SameProblem
    <2> QED BY <2>1, <2>3, <2>4 DEF UnusedToken, SameProblem
  <1>2. ASSUME NEW x \in ops', NEW y \in ops', x # y, jobs'[x.job].prob = jobs'[y.job].prob
        PROVE  x.token # y.token
    <2>1. PICK o \in ops, q \in ops : o # q /\ SameWork(x, o) /\ SameWork(y, q)
      BY <1>2 DEF OpsKept
    <2>2. jobs[o.job].prob = jobs[q.job].prob
      BY <1>2, <2>1, Unfold, PairKept DEF SameWork
    <2> QED BY <2>1, <2>2, Unfold DEF OpsDistinct, SameProblem, SameWork
  <1>3. ASSUME NEW x \in ops', NEW e \in effects, jobs'[e.job].prob = jobs'[x.job].prob
        PROVE  e.token # x.token
    <2>1. PICK o \in ops : SameWork(x, o)
      BY <1>3 DEF OpsKept
    <2>2. jobs[e.job].prob = jobs[o.job].prob
      BY <1>3, <2>1, Unfold, PairKept DEF SameWork
    <2> QED BY <2>1, <2>2, Unfold DEF OpsDistinct, SameProblem, SameWork
  <1> QED BY <1>1, <1>2, <1>3 DEF OpsDistinct, SameProblem

LEMMA LockSoundKept ==
  ASSUME IInv, RowsAdvance, OpsKept, UNCHANGED effects
  PROVE  LockSound'
  <1>1. ASSUME NEW x \in ops', NEW y \in ops', x.stage = "locked", y.stage = "locked",
               jobs'[x.job].prob = jobs'[y.job].prob, x # y
        PROVE  FALSE
    <2>1. PICK o \in ops, q \in ops : o # q /\ SameWork(x, o) /\ SameWork(y, q)
      BY <1>1 DEF OpsKept
    <2>2. jobs[o.job].prob = jobs[q.job].prob
      BY <1>1, <2>1, Unfold, PairKept DEF SameWork
    <2> QED BY <1>1, <2>1, <2>2, Unfold DEF LockSound, SameProblem, SameWork
  <1>2. ASSUME NEW x \in ops', NEW e \in effects, x.stage = "locked",
               jobs'[e.job].prob = jobs'[x.job].prob
        PROVE  e.token < x.token
    <2>1. PICK o \in ops : SameWork(x, o)
      BY <1>2 DEF OpsKept
    <2>2. jobs[e.job].prob = jobs[o.job].prob
      BY <1>2, <2>1, Unfold, PairKept DEF SameWork
    <2> QED BY <1>2, <2>1, <2>2, Unfold DEF LockSound, SameProblem, SameWork
  <1> QED BY <1>1, <1>2 DEF LockSound, SameProblem

\* A row an operation belongs to is cancelled only with a newer token.
LEMMA NotCancelled ==
  ASSUME IInv, TypeInv', RowsAdvance, NEW o \in ops, jobs'[o.job].token = o.token
  PROVE  ~jobs'[o.job].cancelReq
  <1>1. o.job \in JobId /\ o.token \in Nat /\ Remembers(o) /\ TypeInv
    BY Unfold
  <1>2. Advances(jobs[o.job], jobs'[o.job]) /\ jobs[o.job].token \in Nat
    BY <1>1, RowOK DEF RowsAdvance, Remembers
  <1>3. jobs[o.job].token = o.token
    BY <1>1, <1>2 DEF Advances, Remembers
  <1>4. ~jobs[o.job].cancelReq
    BY <1>3, Unfold DEF CancelRevokes
  <1> QED BY <1>1, <1>2, <1>3, <1>4 DEF Advances

LEMMA CancelRevokesKept ==
  ASSUME IInv, TypeInv', RowsAdvance, OpsKept
  PROVE  CancelRevokes'
  <1> SUFFICES ASSUME NEW x \in ops', jobs'[x.job].token = x.token
               PROVE  ~jobs'[x.job].cancelReq
    BY DEF CancelRevokes
  <1>1. PICK o \in ops : SameWork(x, o)
    BY DEF OpsKept
  <1> QED BY <1>1, NotCancelled DEF SameWork

\* A step that starts, admits or publishes nothing preserves the invariant.
LEMMA QuietStep ==
  ASSUME IInv, TypeInv', RowsAdvance, CounterAhead', RunningKept, ClaimsKept, OpsKept,
         UNCHANGED effects
  PROVE  IInv'
  <1>1. MemoryBehind' BY MemoryKept
  <1>2. ClaimsDistinct' BY ClaimsDistinctKept
  <1>3. OpsDistinct' BY OpsDistinctKept
  <1>4. LockSound' BY LockSoundKept
  <1>5. OneRunning' BY OneRunningKept
  <1>6. CancelRevokes' BY CancelRevokesKept
  <1>7. TypeOK' /\ PendingCanRun' BY DEF TypeInv
  <1> QED BY <1>1, <1>2, <1>3, <1>4, <1>5, <1>6, <1>7 DEF IInv

-----------------------------------------------------------------------------
(* Steps that acquire, start, admit or publish *)

LEMMA OpsSame ==
  ASSUME UNCHANGED ops
  PROVE  OpsKept
  BY DEF OpsKept, SameWork

LEMMA ClaimsSame ==
  ASSUME UNCHANGED claim
  PROVE  ClaimsKept
  BY DEF ClaimsKept

LEMMA AcquireStep ==
  ASSUME IInv, TypeInv', RowsAdvance, CounterAhead',
         NEW w \in Workers, NEW j \in JobId, NEW t \in Token, Acquires(w, j, t)
  PROVE  IInv'
  <1>1. /\ claim'[w].job = j /\ claim'[w].token = t /\ claim'[w].phase = "claimed"
        /\ \A v \in Workers \ {w} : claim'[v] = claim[v]
    BY Unfold, TypeUnfold DEF Acquires
  <1>2. UNCHANGED <<ops, effects>> /\ jobs'[j].token = t /\ jobs'[j].state # "absent"
    BY DEF Acquires
  <1>3. t \in Nat
    OBVIOUS
  \* What was remembered of the problem has an older token.
  <1>4. ASSUME NEW x, x.job \in JobId, x.token \in Nat, Remembers(x),
               jobs'[x.job].prob = jobs'[j].prob
        PROVE  x.token < t
    <2>1. Exists(x.job) /\ jobs[x.job].prob = jobs'[j].prob /\ x.token <= jobs[x.job].token
      BY <1>4 DEF RowsAdvance, Advances, Remembers
    <2>2. jobs[x.job].token < t /\ jobs[x.job].token \in Nat
      BY <1>4, <2>1, Unfold, RowOK DEF Acquires
    <2> QED BY <1>3, <1>4, <2>1, <2>2
  <1>5. MemoryBehind'
    <2>1. ASSUME NEW v \in Workers, Claimed(v)'
          PROVE  Remembers(claim[v])'
      <3>1. CASE v = w
        BY <1>1, <1>2, <1>3, <3>1 DEF Remembers, Exists
      <3>2. CASE v # w
        <4>1. claim'[v] = claim[v] /\ Claimed(v)
          BY <1>1, <2>1, <3>2 DEF Claimed
        <4> QED BY <4>1, Unfold, RemembersKept DEF Remembers
      <3> QED BY <3>1, <3>2
    <2>2. ASSUME NEW o \in ops
          PROVE  Exists(o.job)' /\ o.token <= jobs'[o.job].token
      BY <2>2, Unfold, RemembersKept
    <2>3. ASSUME NEW e \in effects
          PROVE  Exists(e.job)' /\ e.token <= jobs'[e.job].token
      BY <2>3, Unfold, RemembersKept
    <2> QED BY <1>2, <2>1, <2>2, <2>3 DEF MemoryBehind, Remembers
  <1>6. ClaimsDistinct'
    <2>1. ASSUME NEW v \in Workers \ {w}, Claimed(v),
                 jobs'[claim[v].job].prob = jobs'[j].prob
          PROVE  claim[v].token < t
      BY <1>4, <2>1, Unfold
    <2>2. ASSUME NEW u \in Workers \ {w}, NEW v \in Workers \ {w}, u # v, Claimed(u), Claimed(v),
                 jobs'[claim[u].job].prob = jobs'[claim[v].job].prob
          PROVE  claim[u].token # claim[v].token
      <3>1. jobs[claim[u].job].prob = jobs[claim[v].job].prob
        BY <2>2, Unfold, PairKept
      <3> QED BY <2>2, <3>1, Unfold DEF ClaimsDistinct, SameProblem
    <2>3. \A v \in Workers \ {w} : Claimed(v) => claim[v].token \in Nat
      BY Unfold
    <2> QED BY <1>1, <1>3, <2>1, <2>2, <2>3 DEF ClaimsDistinct, SameProblem, Claimed
  <1>7. OpsDistinct'
    <2>1. ASSUME NEW v \in Workers, claim'[v].phase = "claimed"
          PROVE  UnusedToken(claim[v])'
      <3>1. CASE v = w
        <4>1. \A o \in ops : jobs'[o.job].prob = jobs'[j].prob => o.token < t /\ o.token \in Nat
          BY <1>4, Unfold
        <4>2. \A e \in effects : jobs'[e.job].prob = jobs'[j].prob => e.token < t /\ e.token \in Nat
          BY <1>4, Unfold
        <4> QED BY <1>1, <1>2, <1>3, <3>1, <4>1, <4>2 DEF UnusedToken, SameProblem
      <3>2. CASE v # w
        <4>1. claim'[v] = claim[v] /\ Claimed(v) /\ UnusedToken(claim[v])
          BY <1>1, <2>1, <3>2, Unfold DEF OpsDistinct, Claimed
        <4>2. \A o \in ops : jobs'[o.job].prob = jobs'[claim[v].job].prob => o.token # claim[v].token
          BY <4>1, Unfold, PairKept DEF UnusedToken, SameProblem
        <4>3. \A e \in effects : jobs'[e.job].prob = jobs'[claim[v].job].prob => e.token # claim[v].token
          BY <4>1, Unfold, PairKept DEF UnusedToken, SameProblem
        <4> QED BY <1>2, <4>1, <4>2, <4>3 DEF UnusedToken, SameProblem
      <3> QED BY <3>1, <3>2
    <2>2. \A o, q \in ops : o # q /\ jobs'[o.job].prob = jobs'[q.job].prob => o.token # q.token
      BY Unfold, PairKept DEF OpsDistinct, SameProblem
    <2>3. \A o \in ops : \A e \in effects : jobs'[e.job].prob = jobs'[o.job].prob => e.token # o.token
      BY Unfold, PairKept DEF OpsDistinct, SameProblem
    <2> QED BY <1>2, <2>1, <2>2, <2>3 DEF OpsDistinct, SameProblem
  <1>8. OneRunning'
    BY Unfold DEF OneRunning, Acquires, SameProblem
  <1>9. LockSound' /\ CancelRevokes'
    BY <1>2, OpsSame, LockSoundKept, CancelRevokesKept
  <1>10. TypeOK' /\ PendingCanRun' BY DEF TypeInv
  <1> QED BY <1>5, <1>6, <1>7, <1>8, <1>9, <1>10 DEF IInv

\* Moving a worker to another phase keeps what it remembers.
LEMMA GotoKeeps ==
  ASSUME TypeInv, NEW w \in Workers, Claimed(w), NEW phase, phase # "claimed", Goto(w, phase)
  PROVE  /\ ClaimsKept
         /\ claim'[w].phase = phase /\ claim'[w].job = claim[w].job /\ claim'[w].token = claim[w].token
         /\ \A v \in Workers \ {w} : claim'[v] = claim[v]
  <1>1. claim[w] \in ClaimType /\ claim' = [claim EXCEPT ![w].phase = phase]
    BY ClaimOK DEF Goto
  <1>2. /\ claim'[w].phase = phase /\ claim'[w].job = claim[w].job
        /\ claim'[w].token = claim[w].token
        /\ \A v \in Workers \ {w} : claim'[v] = claim[v]
    BY <1>1, TypeUnfold DEF ClaimType
  <1> QED BY <1>2 DEF ClaimsKept, Claimed

LEMMA StartOpStep ==
  ASSUME IInv, NEW w \in Workers, StartOp(w)
  PROVE  IInv'
  <1> DEFINE c == claim[w]
             new == [job |-> c.job, token |-> c.token, stage |-> "called"]
  <1>1. TypeInv' /\ TypeInv
    BY Unfold, StartOpType
  <1>2. /\ Claimed(w) /\ c.phase = "claimed" /\ HoldsLease(w)
        /\ UNCHANGED <<jobs, nextToken, paused, request, effects>>
    BY DEF StartOp, Claimed
  <1>3. PICK phase \in Phases : phase # "claimed" /\ Goto(w, phase)
    BY DEF StartOp, Phases, JoinedPhase
  <1>4. /\ ClaimsKept /\ claim'[w].phase # "claimed"
        /\ claim'[w].job = c.job /\ claim'[w].token = c.token
        /\ \A v \in Workers \ {w} : claim'[v] = claim[v]
    BY <1>1, <1>2, <1>3, GotoKeeps
  <1>5. RowsAdvance /\ CounterAhead' /\ RunningKept
    BY <1>1, <1>2, Unfold, CountersSame, TableSame
  <1>6. CASE UNCHANGED ops
    BY <1>1, <1>2, <1>4, <1>5, <1>6, OpsSame, QuietStep
  <1>7. CASE ops' = ops \cup {new}
    <2>1. c.job \in JobId /\ c.token \in Nat /\ Remembers(c) /\ UnusedToken(c)
      BY <1>2, Unfold DEF OpsDistinct
    <2>2. new.job = c.job /\ new.token = c.token /\ new.stage = "called"
      OBVIOUS
    <2> HIDE DEF new
    <2>3. MemoryBehind'
      <3>1. \A v \in Workers : Claimed(v)' => Remembers(claim[v])'
        BY <1>2, <1>4, Unfold DEF ClaimsKept, Claimed, Remembers, Exists
      <3> QED BY <1>2, <1>7, <2>1, <2>2, <3>1, Unfold DEF MemoryBehind, Remembers, Exists
    <2>4. ClaimsDistinct'
      BY <1>4, <1>5, ClaimsDistinctKept
    <2>5. OpsDistinct'
      <3>1. ASSUME NEW v \in Workers, claim'[v].phase = "claimed"
            PROVE  UnusedToken(claim[v])'
        <4>1. v # w /\ claim'[v] = claim[v] /\ Claimed(v) /\ UnusedToken(claim[v])
          BY <1>4, <3>1, Unfold DEF OpsDistinct, Claimed
        <4>2. jobs[c.job].prob = jobs[claim[v].job].prob => c.token # claim[v].token
          BY <1>2, <4>1, Unfold DEF ClaimsDistinct, SameProblem
        <4> QED BY <1>2, <1>7, <2>2, <4>1, <4>2 DEF UnusedToken, SameProblem
      <3> QED BY <1>2, <1>7, <2>1, <2>2, <3>1, Unfold DEF OpsDistinct, UnusedToken, SameProblem
    <2>6. LockSound'
      BY <1>2, <1>7, <2>2, Unfold DEF LockSound, SameProblem
    <2>7. OneRunning'
      BY <1>5, OneRunningKept
    <2>8. CancelRevokes'
      BY <1>2, <1>7, <2>2, Unfold DEF CancelRevokes, HoldsLease
    <2>9. TypeOK' /\ PendingCanRun' BY <1>1 DEF TypeInv
    <2> QED BY <1>5, <2>3, <2>4, <2>5, <2>6, <2>7, <2>8, <2>9 DEF IInv
  <1> QED BY <1>6, <1>7 DEF StartOp

\* The problem's advisory lock admits one operation, and the fence only the
\* newest token of the problem.
LEMMA OpEnterStep ==
  ASSUME IInv, NEW o \in ops, OpEnter(o)
  PROVE  IInv'
  <1> DEFINE in == [o EXCEPT !.stage = "locked"]
  <1>1. TypeInv' /\ TypeInv
    BY Unfold, DataPlaneType
  <1>2. /\ ~LockHeld(jobs[o.job].prob) /\ NotFenced(o) /\ ops' = (ops \ {o}) \cup {in}
        /\ UNCHANGED <<jobs, nextToken, paused, request, claim, effects>>
    BY DEF OpEnter
  <1>3. o \in Operation /\ o.job \in JobId /\ o.token \in Nat /\ Remembers(o)
    BY <1>1, Unfold, TypeUnfold
  <1>4. in.job = o.job /\ in.token = o.token /\ in.stage = "locked"
    BY <1>3 DEF Operation
  <1> HIDE DEF in
  <1>5. RowsAdvance /\ CounterAhead' /\ RunningKept /\ ClaimsKept
    BY <1>1, <1>2, Unfold, CountersSame, TableSame, ClaimsSame
  <1>6. MemoryBehind'
    BY <1>2, <1>3, <1>4, Unfold DEF MemoryBehind, Remembers, Exists, Claimed
  <1>7. OpsDistinct'
    BY <1>2, <1>4, Unfold DEF OpsDistinct, UnusedToken, SameProblem
  <1>8. LockSound'
    <2>1. ASSUME NEW e \in effects, jobs[e.job].prob = jobs[o.job].prob
          PROVE  e.token < o.token
      <3>1. e.job \in JobId /\ e.token \in Nat /\ e.token <= jobs[e.job].token
        BY Unfold DEF Remembers
      <3>2. jobs[e.job].token <= o.token /\ jobs[e.job].token \in Nat
        BY <1>1, <1>2, <2>1, <3>1, RowOK DEF NotFenced
      <3>3. e.token # o.token
        BY <2>1, Unfold DEF OpsDistinct, SameProblem
      <3> QED BY <1>3, <3>1, <3>2, <3>3
    <2>2. \A q \in ops : q.stage = "locked" => jobs[q.job].prob # jobs[o.job].prob
      BY <1>2 DEF LockHeld
    <2> QED BY <1>2, <1>4, <2>1, <2>2, Unfold DEF LockSound, SameProblem
  <1>9. ClaimsDistinct' /\ OneRunning'
    BY <1>5, ClaimsDistinctKept, OneRunningKept
  <1>10. CancelRevokes'
    BY <1>2, <1>4, Unfold DEF CancelRevokes
  <1>11. TypeOK' /\ PendingCanRun' BY <1>1 DEF TypeInv
  <1> QED BY <1>5, <1>6, <1>7, <1>8, <1>9, <1>10, <1>11 DEF IInv

LEMMA ReleasedKeeps ==
  ASSUME TypeInv, NEW o, NEW phase, phase \notin {"claimed", "idle"}, claim' = Released(o, phase)
  PROVE  ClaimsKept
  <1> SUFFICES ASSUME NEW w \in Workers
               PROVE  claim'[w].phase # "idle" =>
                        /\ claim[w].phase # "idle" /\ claim'[w].job = claim[w].job
                        /\ claim'[w].token = claim[w].token
                        /\ claim'[w].phase = "claimed" => claim[w].phase = "claimed"
    BY DEF ClaimsKept
  <1>1. \/ claim'[w] = claim[w]
        \/ claim[w].phase = "called" /\ claim'[w] = [claim[w] EXCEPT !.phase = phase]
    BY DEF Released
  <1>2. CASE claim'[w] = claim[w]
    BY <1>2
  <1>3. CASE claim[w].phase = "called" /\ claim'[w] = [claim[w] EXCEPT !.phase = phase]
    <2>1. claim[w] \in ClaimType
      BY <1>3, ClaimOK DEF Claimed
    <2> QED BY <1>3, <2>1 DEF ClaimType
  <1> QED BY <1>1, <1>2, <1>3

LEMMA OpLandStep ==
  ASSUME IInv, NEW o \in ops, OpLand(o)
  PROVE  IInv'
  <1> DEFINE new == [job |-> o.job, token |-> o.token]
  <1>1. TypeInv' /\ TypeInv
    BY Unfold, DataPlaneType
  <1>2. /\ o.stage = "locked" /\ ops' = ops \ {o} /\ effects' = effects \cup {new}
        /\ claim' = Released(o, "done") /\ UNCHANGED <<jobs, nextToken, paused, request>>
    BY DEF OpLand
  <1>3. new.job = o.job /\ new.token = o.token
    OBVIOUS
  <1> HIDE DEF new
  <1>4. o.job \in JobId /\ o.token \in Nat /\ Remembers(o)
    BY Unfold
  <1>5. RowsAdvance /\ CounterAhead' /\ RunningKept /\ ClaimsKept
    BY <1>1, <1>2, Unfold, CountersSame, TableSame, ReleasedKeeps
  <1>6. MemoryBehind'
    <2>1. \A v \in Workers : Claimed(v)' => Remembers(claim[v])'
      BY <1>2, <1>5, Unfold DEF ClaimsKept, Claimed, Remembers, Exists
    <2> QED BY <1>2, <1>3, <1>4, <2>1, Unfold DEF MemoryBehind, Remembers, Exists
  <1>7. OpsDistinct'
    <2>1. ASSUME NEW v \in Workers, claim'[v].phase = "claimed"
          PROVE  UnusedToken(claim[v])'
      <3>1. /\ claim[v].phase = "claimed" /\ claim'[v].job = claim[v].job
            /\ claim'[v].token = claim[v].token /\ UnusedToken(claim[v])
        BY <1>5, <2>1, Unfold DEF ClaimsKept, OpsDistinct
      <3> QED BY <1>2, <1>3, <3>1 DEF UnusedToken, SameProblem
    <2> QED BY <1>2, <1>3, <2>1, Unfold DEF OpsDistinct, SameProblem
  <1>8. LockSound'
    BY <1>2, <1>3, Unfold DEF LockSound, SameProblem
  <1>9. ClaimsDistinct' /\ OneRunning'
    BY <1>5, ClaimsDistinctKept, OneRunningKept
  <1>10. CancelRevokes'
    BY <1>2, Unfold DEF CancelRevokes
  <1>11. TypeOK' /\ PendingCanRun' BY <1>1 DEF TypeInv
  <1> QED BY <1>5, <1>6, <1>7, <1>8, <1>9, <1>10, <1>11 DEF IInv

-----------------------------------------------------------------------------
(* The invariant is inductive *)

\* A step of the table alone.
LEMMA TableOnly ==
  ASSUME IInv, TypeInv', TableOK, UNCHANGED <<claim, ops, effects>>
  PROVE  IInv'
  BY ClaimsSame, OpsSame, QuietStep DEF TableOK

LEMMA ClientInv ==
  ASSUME IInv, ClientStep
  PROVE  IInv'
  <1>1. PICK c \in Clients :
          \/ \E r \in Requests : Submit(c, r) \/ SubmitEnsure(c, r)
          \/ ReadTable(c) \/ CreateJob(c) \/ EnsureRestore(c)
    BY DEF ClientStep
  <1>2. TypeInv /\ CounterAhead
    BY Unfold
  <1>3. ASSUME NEW r \in Requests, Submit(c, r) \/ SubmitEnsure(c, r)
        PROVE  IInv'
    <2>1. UNCHANGED <<claim, ops, effects>> BY <1>3 DEF Submit, SubmitEnsure
    <2> QED BY <1>2, <1>3, <2>1, SubmitType, SubmitTable, TableOnly
  <1>4. CASE ReadTable(c)
    <2>1. UNCHANGED <<jobs, nextToken, claim, ops, effects>> BY <1>4 DEF ReadTable
    <2> QED BY <1>2, <1>4, <2>1, ReadTableType, CountersSame, TableSame, TableOnly DEF TableOK
  <1>5. CASE CreateJob(c)
    <2>1. UNCHANGED <<claim, ops, effects>> BY <1>5 DEF CreateJob
    <2> QED BY <1>2, <1>5, <2>1, CreateJobType, CreateJobTable, TableOnly
  <1>6. CASE EnsureRestore(c)
    <2>1. UNCHANGED <<claim, ops, effects>> BY <1>6 DEF EnsureRestore
    <2> QED BY <1>2, <1>6, <2>1, EnsureRestoreType, EnsureRestoreTable, TableOnly
  <1> QED BY <1>1, <1>3, <1>4, <1>5, <1>6

\* A worker forgets what it remembers.
LEMMA DropKeeps ==
  ASSUME TypeInv, NEW w \in Workers, Drop(w)
  PROVE  ClaimsKept
  BY TypeUnfold DEF Drop, ClaimsKept, NoClaim

LEMMA WorkerInv ==
  ASSUME IInv, WorkerStep
  PROVE  IInv'
  <1>1. PICK w \in Workers :
          \/ w \in Loops /\ \E locked \in {{}} \cup {{j} : j \in JobId} : AcquireJob(w, locked)
          \/ StartOp(w) \/ Timeout(w) \/ Finish(w) \/ Abandon(w)
    BY DEF WorkerStep
  <1>2. TypeInv /\ CounterAhead
    BY Unfold
  <1>3. ASSUME NEW locked, w \in Loops, AcquireJob(w, locked)
        PROVE  IInv'
    BY <1>2, <1>3, AcquireJobType, AcquireJobTable, AcquireStep
  <1>4. CASE StartOp(w)
    BY <1>4, StartOpStep
  <1>5. CASE Timeout(w)
    <2>1. UNCHANGED <<jobs, nextToken, ops, effects>> /\ Goto(w, "failed") /\ Claimed(w)
      BY <1>5 DEF Timeout, Claimed
    <2> QED BY <1>2, <1>5, <2>1, TimeoutType, CountersSame, TableSame, GotoKeeps, OpsSame, QuietStep
  <1>6. CASE Finish(w)
    <2>1. UNCHANGED <<ops, effects>> /\ Drop(w)
      BY <1>6 DEF Finish
    <2> QED BY <1>2, <1>6, <2>1, FinishType, FinishTable, DropKeeps, OpsSame, QuietStep DEF TableOK
  <1>7. CASE Abandon(w)
    <2>1. UNCHANGED <<jobs, nextToken, ops, effects>> /\ Drop(w)
      BY <1>7 DEF Abandon
    <2> QED BY <1>2, <1>7, <2>1, AbandonType, CountersSame, TableSame, DropKeeps, OpsSame, QuietStep
  <1> QED BY <1>1, <1>3, <1>4, <1>5, <1>6, <1>7

LEMMA OrphanedSame ==
  ASSUME TypeInv, NEW o \in ops
  PROVE  SameWork(Orphaned(o), o) /\ SameWork(o, o)
  <1>1. o \in Operation
    BY TypeUnfold
  <1> QED BY <1>1 DEF Orphaned, SameWork, Operation

LEMMA WatcherInv ==
  ASSUME IInv, WatcherStep
  PROVE  IInv'
  <1>1. TypeInv /\ CounterAhead /\ Watcher \in Workers /\ WatchedProblems \subseteq Problems
    BY Unfold DEF Workers
  <1>2. ASSUME NEW p \in WatchedProblems, WatcherClaim(p)
        PROVE  IInv'
    <2>1. TypeInv'
      BY <1>1, <1>2, WatcherClaimType
    <2>2. /\ RowsAdvance /\ CounterAhead'
          /\ \/ RunningKept /\ UNCHANGED <<claim, ops, effects>>
             \/ \E j \in JobId, t \in Token : Acquires(Watcher, j, t)
      BY <1>1, <1>2, WatcherClaimTable
    <2> QED BY <1>1, <2>1, <2>2, AcquireStep, TableOnly DEF TableOK
  <1>3. CASE WatcherComplete
    <2>1. UNCHANGED <<ops, effects>> /\ Drop(Watcher)
      BY <1>3 DEF WatcherComplete
    <2> QED BY <1>1, <1>3, <2>1, WatcherCompleteType, WatcherCompleteTable, DropKeeps, OpsSame,
            QuietStep DEF TableOK
  <1>4. CASE WatcherFail
    <2>1. ops' = WithoutWatcherUpload /\ UNCHANGED effects /\ Drop(Watcher)
      BY <1>4 DEF WatcherFail
    <2>2. OpsKept
      BY <1>1, <2>1, OrphanedSame DEF OpsKept, WithoutWatcherUpload
    <2> QED BY <1>1, <1>4, <2>1, <2>2, WatcherFailType, WatcherFailTable, DropKeeps, QuietStep
            DEF TableOK
  <1> QED BY <1>2, <1>3, <1>4 DEF WatcherStep

LEMMA DataPlaneInv ==
  ASSUME IInv, DataPlaneStep
  PROVE  IInv'
  <1>1. PICK o \in ops : OpEnter(o) \/ OpLand(o) \/ OpFails(o)
    BY DEF DataPlaneStep
  <1>2. TypeInv /\ CounterAhead
    BY Unfold
  <1>3. CASE OpFails(o)
    <2>1. UNCHANGED <<jobs, nextToken, effects>> /\ ops' = ops \ {o} /\ claim' = Released(o, "failed")
      BY <1>3 DEF OpFails
    <2>2. OpsKept
      BY <2>1 DEF OpsKept, SameWork
    <2> QED BY <1>2, <1>3, <2>1, <2>2, DataPlaneType, CountersSame, TableSame, ReleasedKeeps, QuietStep
  <1> QED BY <1>1, <1>3, OpEnterStep, OpLandStep

LEMMA RestartInv ==
  ASSUME IInv, DataPlaneRestart
  PROVE  IInv'
  <1>1. TypeInv /\ CounterAhead
    BY Unfold
  <1>2. /\ ops' = {Orphaned(o) : o \in {p \in ops : jobs[p.job].type = "snapshot"}}
        /\ claim' = [w \in Workers |->
             IF w = Watcher THEN NoClaim
             ELSE IF claim[w].phase = "called" /\ jobs[claim[w].job].type # "snapshot"
                  THEN [claim[w] EXCEPT !.phase = "failed"] ELSE claim[w]]
        /\ UNCHANGED <<jobs, nextToken, effects>>
    BY DEF DataPlaneRestart
  <1>3. OpsKept
    BY <1>1, <1>2, OrphanedSame DEF OpsKept
  <1>4. ClaimsKept
    <2> SUFFICES ASSUME NEW w \in Workers, claim'[w].phase # "idle"
                 PROVE  /\ claim[w].phase # "idle" /\ claim'[w].job = claim[w].job
                        /\ claim'[w].token = claim[w].token
                        /\ claim'[w].phase = "claimed" => claim[w].phase = "claimed"
      BY DEF ClaimsKept
    <2>1. \/ claim'[w] = NoClaim \/ claim'[w] = claim[w]
          \/ claim[w].phase = "called" /\ claim'[w] = [claim[w] EXCEPT !.phase = "failed"]
      BY <1>2, Zenon
    <2>2. claim'[w] # NoClaim
      BY DEF NoClaim
    <2>3. CASE claim[w].phase = "called" /\ claim'[w] = [claim[w] EXCEPT !.phase = "failed"]
      <3>1. claim[w] \in ClaimType
        BY <1>1, <2>3, ClaimOK DEF Claimed
      <3> QED BY <2>3, <3>1 DEF ClaimType
    <2> QED BY <2>1, <2>2, <2>3
  <1>5. RowsAdvance /\ CounterAhead' /\ RunningKept
    BY <1>1, <1>2, CountersSame, TableSame
  <1> QED BY <1>1, <1>2, <1>3, <1>4, <1>5, DataPlaneRestartType, QuietStep

LEMMA QueueInv ==
  ASSUME IInv, QueueStep
  PROVE  IInv'
  <1>1. TypeInv /\ CounterAhead
    BY Unfold
  <1>2. CASE FailExpiredRunningJobs
    <2>1. UNCHANGED <<claim, ops, effects>> BY <1>2 DEF FailExpiredRunningJobs
    <2> QED BY <1>1, <1>2, <2>1, FailExpiredType, FailExpiredTable, TableOnly
  <1>3. CASE DataPlaneRestart
    BY <1>3, RestartInv
  <1>4. ASSUME NEW j \in JobId, LeaseExpires(j) \/ CancelJob(j) \/ RetryJob(j)
        PROVE  IInv'
    <2>1. UNCHANGED <<claim, ops, effects>> BY <1>4 DEF LeaseExpires, CancelJob, RetryJob
    <2>2. TypeInv' BY <1>1, <1>4, LeaseExpiresType, CancelJobType, RetryJobType
    <2>3. TableOK BY <1>1, <1>4, LeaseExpiresTable, CancelJobTable, RetryJobTable
    <2> QED BY <2>1, <2>2, <2>3, TableOnly
  <1>5. ASSUME NEW on \in BOOLEAN, SetPaused(on)
        PROVE  IInv'
    <2>1. UNCHANGED <<jobs, nextToken, claim, ops, effects>> BY <1>5 DEF SetPaused
    <2> QED BY <1>1, <1>5, <2>1, SetPausedType, CountersSame, TableSame, TableOnly DEF TableOK
  <1> QED BY <1>2, <1>3, <1>4, <1>5 DEF QueueStep

LEMMA InitInv == Init => IInv
  <1> SUFFICES ASSUME Init
               PROVE  IInv
    OBVIOUS
  <1>1. TypeOK /\ PendingCanRun
    BY InitType
  <1>2. \A j \in JobId : jobs[j].state = "absent" /\ jobs[j].token = 0 /\ jobs[j].prob = Global
    BY DEF Init, Absent
  <1>3. ops = {} /\ effects = {} /\ \A w \in Workers : claim[w].phase = "idle"
    BY DEF Init, NoClaim
  <1>4. CounterAhead
    BY <1>2 DEF CounterAhead, Init, Keys
  <1>5. MemoryBehind /\ ClaimsDistinct /\ OpsDistinct /\ LockSound /\ CancelRevokes
    BY <1>3 DEF MemoryBehind, ClaimsDistinct, OpsDistinct, LockSound, CancelRevokes, Claimed
  <1>6. OneRunning
    BY <1>2 DEF OneRunning
  <1> QED BY <1>1, <1>4, <1>5, <1>6 DEF IInv

LEMMA StepInv == IInv /\ [Next]_vars => IInv'
  <1> SUFFICES ASSUME IInv, [Next]_vars
               PROVE  IInv'
    OBVIOUS
  <1>1. CASE UNCHANGED vars
    <2>1. UNCHANGED <<jobs, nextToken, claim, ops, effects>> BY <1>1 DEF vars
    <2>2. TypeInv' /\ TypeInv /\ CounterAhead BY Unfold, TypeStep
    <2> QED BY <2>1, <2>2, CountersSame, TableSame, TableOnly DEF TableOK
  <1> QED BY <1>1, ClientInv, WorkerInv, WatcherInv, DataPlaneInv, QueueInv DEF Next

\* The invariant behind leases and fencing: tokens given out are distinct and
\* below the counter, the advisory lock admits one operation of a problem, and
\* what was published of a problem is older than what is being published.
THEOREM InductiveInvariant == Spec => []IInv
  BY InitInv, StepInv, PTL DEF Spec

-----------------------------------------------------------------------------
(* What it implies *)

\* Two workers never both pass the lease check for one job, nor for two local
\* operations of a problem (assertJobLease, assert_job_lease).
THEOREM LeasesExclude == Spec => []LeaseExclusive
  <1>1. IInv => LeaseExclusive
    <2> SUFFICES ASSUME IInv, NEW v \in Workers, NEW w \in Workers,
                        v # w, HoldsLease(v), HoldsLease(w)
                 PROVE  /\ claim[v].job # claim[w].job
                        /\ \/ jobs[claim[v].job].prob # jobs[claim[w].job].prob
                           \/ jobs[claim[v].job].type \notin LocalTypes
                           \/ jobs[claim[w].job].type \notin LocalTypes
      BY DEF LeaseExclusive
    <2>1. Claimed(v) /\ Claimed(w)
      BY DEF HoldsLease, Claimed
    <2>2. claim[v].job # claim[w].job
      BY <2>1, Unfold DEF ClaimsDistinct, HoldsLease, SameProblem
    <2>3. claim[v].job \in JobId /\ claim[w].job \in JobId
      BY <2>1, Unfold
    <2> QED BY <2>2, <2>3, Unfold DEF OneRunning, HoldsLease, SameProblem
  <1> QED BY <1>1, InductiveInvariant, PTL

\* Fencing: what is published of a problem carries a newer token than all that
\* was published before (ensure_latest_fencing_tx under the advisory lock).
THEOREM EffectsOrdered == Spec => EffectsInTokenOrder
  <1> DEFINE Ordered == \A e \in effects' \ effects : \A d \in effects :
                          jobs[d.job].prob = jobs[e.job].prob => d.token < e.token
  <1>1. IInv /\ [Next]_vars => [Ordered]_vars
    <2> SUFFICES ASSUME IInv, Next
                 PROVE  Ordered
      BY DEF vars
    <2>1. CASE UNCHANGED effects
      BY <2>1
    <2>2. CASE DataPlaneStep
      <3>1. PICK o \in ops : OpEnter(o) \/ OpLand(o) \/ OpFails(o)
        BY <2>2 DEF DataPlaneStep
      <3>2. CASE OpLand(o)
        BY <3>2, Unfold DEF OpLand, LockSound, SameProblem
      <3>3. CASE OpEnter(o) \/ OpFails(o)
        BY <3>3 DEF OpEnter, OpFails
      <3> QED BY <3>1, <3>2, <3>3
    <2>3. ClientStep => UNCHANGED effects
      BY DEF ClientStep, Submit, SubmitEnsure, ReadTable, CreateJob, EnsureRestore
    <2>4. WorkerStep => UNCHANGED effects
      BY DEF WorkerStep, AcquireJob, StartOp, Timeout, Finish, Abandon
    <2>5. WatcherStep => UNCHANGED effects
      BY DEF WatcherStep, WatcherClaim, WatcherComplete, WatcherFail
    <2>6. QueueStep => UNCHANGED effects
      BY DEF QueueStep, FailExpiredRunningJobs, DataPlaneRestart, LeaseExpires, CancelJob,
             RetryJob, SetPaused
    <2> QED BY <2>1, <2>2, <2>3, <2>4, <2>5, <2>6 DEF Next
  <1> QED BY <1>1, InductiveInvariant, PTL DEF Spec, EffectsInTokenOrder

\* An operation whose acquisition was revoked (reclaimed, expired for good or
\* cancelled) never passes the fence.
THEOREM RevokedStaysOut == Spec => RevokedNeverEnters
  <1> DEFINE Current == \A o \in ops' \ ops :
                          o.stage = "locked" => jobs[o.job].token = o.token /\ ~jobs[o.job].cancelReq
  <1>1. IInv /\ [Next]_vars => [Current]_vars
    <2> SUFFICES ASSUME IInv, Next
                 PROVE  Current
      BY DEF vars
    <2>1. CASE \A o \in ops' \ ops : o.stage # "locked"
      BY <2>1
    <2>2. CASE DataPlaneStep
      <3>1. PICK o \in ops : OpEnter(o) \/ OpLand(o) \/ OpFails(o)
        BY <2>2 DEF DataPlaneStep
      <3>2. CASE OpEnter(o)
        <4>1. o \in Operation /\ o.job \in JobId /\ o.token \in Nat /\ o.token <= jobs[o.job].token
          BY Unfold, TypeUnfold DEF Remembers
        <4>2. jobs[o.job].token <= o.token /\ jobs[o.job].token \in Nat
          BY <3>2, <4>1, Unfold, RowOK DEF OpEnter, NotFenced
        <4>3. jobs[o.job].token = o.token /\ ~jobs[o.job].cancelReq
          BY <4>1, <4>2, Unfold DEF CancelRevokes
        <4>4. \A x \in ops' \ ops : x.job = o.job /\ x.token = o.token
          BY <3>2, <4>1 DEF OpEnter, Operation
        <4> QED BY <4>3, <4>4
      <3>3. CASE OpLand(o) \/ OpFails(o)
        BY <3>3 DEF OpLand, OpFails
      <3> QED BY <3>1, <3>2, <3>3
    <2>3. ClientStep => UNCHANGED ops
      BY DEF ClientStep, Submit, SubmitEnsure, ReadTable, CreateJob, EnsureRestore
    <2>4. WorkerStep => \A o \in ops' \ ops : o.stage # "locked"
      BY DEF WorkerStep, AcquireJob, StartOp, Timeout, Finish, Abandon
    <2>5. \A o \in ops : Orphaned(o).stage # "locked"
      BY Unfold, TypeUnfold DEF Orphaned, Operation
    <2>6. WatcherStep => \A o \in ops' \ ops : o.stage # "locked"
      BY <2>5 DEF WatcherStep, WatcherClaim, WatcherComplete, WatcherFail, WithoutWatcherUpload
    <2>7. QueueStep => \A o \in ops' \ ops : o.stage # "locked"
      <3>1. DataPlaneRestart => ops' = {Orphaned(o) : o \in {q \in ops : jobs[q.job].type = "snapshot"}}
        BY DEF DataPlaneRestart
      <3>2. QueueStep /\ ~DataPlaneRestart => UNCHANGED ops
        BY DEF QueueStep, FailExpiredRunningJobs, LeaseExpires, CancelJob, RetryJob, SetPaused
      <3> QED BY <2>5, <3>1, <3>2
    <2> QED BY <2>1, <2>2, <2>3, <2>4, <2>6, <2>7 DEF Next
  <1> QED BY <1>1, InductiveInvariant, PTL DEF Spec, RevokedNeverEnters
=============================================================================
