----------------------- MODULE JobQueueServiceProofs -----------------------
(* What the queue promises to those that submit jobs, for every value of the *)
(* constants: tokens of a problem are never shared, a key names one job, an  *)
(* accepted request has a job that does it, and a snapshot or restore that   *)
(* is reported completed was published.                                      *)
EXTENDS JobQueueProofs

USE QueueAssumption DEF JobId, Token

-----------------------------------------------------------------------------
(* What a step does to a row of the jobs table *)

\* A row becomes completed when the data plane says so or when a loop whose
\* work is done does.
Reported(j, row) == row.owner = "rust" \/ \E w \in Loops : claim[w].phase = "done" /\ claim[w].job = j

SameJob(j, row) ==
  /\ Exists(j) /\ row.state # "absent"
  /\ row.type = jobs[j].type /\ row.prob = jobs[j].prob
  /\ row.target = jobs[j].target /\ row.key = jobs[j].key
  /\ row.state = "completed" => Reported(j, row)

Keeps(j) == jobs'[j] = jobs[j] \/ (SameJob(j, jobs'[j]) /\ jobs'[j].token = jobs[j].token)
Renews(j) == SameJob(j, jobs'[j]) /\ jobs'[j].token >= nextToken[jobs[j].prob]
Inserts(j) ==
  /\ ~Exists(j) /\ jobs'[j].state \in {"pending", "running"}
  /\ \/ /\ jobs'[j].token = 0
        /\ \E r \in ReqRecord : KeyRows(r) = {} /\ jobs'[j].key = r.key /\ jobs'[j].type = r.type
     \/ jobs'[j].key = NoKey /\ jobs'[j].token >= nextToken[jobs'[j].prob]
Revoked(j) ==
  /\ j \in Exhausted(jobs[j].prob) /\ SameJob(j, jobs'[j])
  /\ jobs'[j].token = RevokedToken(j)

\* A step gives at most one row a new token or a new job, except for
\* failExpiredRunningJobs, which revokes all exhausted leases at once.
AllKept == \A j \in JobId : Keeps(j)
OneMoves == \E i \in JobId : (Renews(i) \/ Inserts(i)) /\ \A j \in JobId \ {i} : Keeps(j)
AllRevoked == \A j \in JobId : Keeps(j) \/ Revoked(j)
RowMoves == AllKept \/ OneMoves \/ AllRevoked

LEMMA Unchanged ==
  ASSUME UNCHANGED jobs
  PROVE  AllKept
  BY DEF AllKept, Keeps

\* One row is replaced by one of the same job.
LEMMA RowReplaced ==
  ASSUME TypeInv, NEW j \in JobId, NEW row, jobs' = [jobs EXCEPT ![j] = row],
         SameJob(j, row),
         row.token = jobs[j].token \/ row.token >= nextToken[jobs[j].prob]
  PROVE  RowMoves
  <1>1. jobs'[j] = row /\ \A i \in JobId \ {j} : jobs'[i] = jobs[i]
    BY TypeUnfold DEF JobsOK
  <1>2. \A i \in JobId \ {j} : Keeps(i)
    BY <1>1 DEF Keeps
  <1>3. Keeps(j) \/ Renews(j)
    BY <1>1 DEF Keeps, Renews
  <1> QED BY <1>2, <1>3 DEF RowMoves, AllKept, OneMoves

LEMMA CancelPendingKeeps ==
  ASSUME TypeInv, NEW p, NEW types, NEW j \in JobId
  PROVE  LET row == CancelPending(p, types)[j]
         IN  row = jobs[j] \/ (SameJob(j, row) /\ row.token = jobs[j].token)
  <1>1. jobs[j] \in JobRow
    BY RowOK
  <1>2. CancelPending(p, types)[j] =
          IF jobs[j].state = "pending" /\ jobs[j].prob = p /\ jobs[j].type \in types
          THEN [jobs[j] EXCEPT !.state = "cancelled"] ELSE jobs[j]
    BY DEF CancelPending
  <1>3. jobs[j].state = "pending" =>
          SameJob(j, [jobs[j] EXCEPT !.state = "cancelled"])
          /\ [jobs[j] EXCEPT !.state = "cancelled"].token = jobs[j].token
    BY <1>1 DEF SameJob, Exists, JobRow
  <1> QED BY <1>2, <1>3

LEMMA SubmitRows ==
  ASSUME TypeInv, NEW c \in Clients, NEW r \in Requests, Submit(c, r) \/ SubmitEnsure(c, r)
  PROVE  AllKept
  <1>1. UNCHANGED jobs \/ \E types : jobs' = CancelPending(r.prob, types)
    BY DEF Submit, SubmitEnsure
  <1> QED BY <1>1, CancelPendingKeeps, Unchanged DEF AllKept, Keeps

\* A request's job is inserted in a table of which the others are kept.
LEMMA InsertRows ==
  ASSUME TypeInv, NEW r \in ReqRecord, NEW j \in JobId, ~Exists(j), KeyRows(r) = {},
         jobs'[j] = PendingRow(r), \A i \in JobId \ {j} : Keeps(i)
  PROVE  RowMoves
  <1>1. /\ PendingRow(r).state = "pending" /\ PendingRow(r).token = 0
        /\ PendingRow(r).key = r.key /\ PendingRow(r).type = r.type
    BY DEF PendingRow, Absent
  <1>2. Inserts(j)
    BY <1>1 DEF Inserts
  <1> QED BY <1>2 DEF RowMoves, OneMoves

LEMMA CreateJobRows ==
  ASSUME TypeInv, NEW c \in Clients, CreateJob(c)
  PROVE  RowMoves
  <1> DEFINE r == request[c].req
  <1>1. r \in ReqRecord
    BY TypeUnfold DEF RequestType
  <1>2. \/ UNCHANGED jobs
        \/ KeyRows(r) = {} /\ \E j \in JobId : ~Exists(j) /\ jobs' = [jobs EXCEPT ![j] = PendingRow(r)]
    BY DEF CreateJob, Insert, NextRow
  <1>3. ASSUME KeyRows(r) = {}, NEW j \in JobId, ~Exists(j), jobs' = [jobs EXCEPT ![j] = PendingRow(r)]
        PROVE  RowMoves
    <2>1. jobs'[j] = PendingRow(r) /\ \A i \in JobId \ {j} : Keeps(i)
      BY <1>3, TypeUnfold DEF JobsOK, Keeps
    <2> QED BY <1>1, <1>3, <2>1, InsertRows
  <1> QED BY <1>2, <1>3, Unchanged DEF RowMoves

LEMMA EnsureRestoreRows ==
  ASSUME TypeInv, NEW c \in Clients, EnsureRestore(c)
  PROVE  RowMoves
  <1> DEFINE r == request[c].req
             cancelled == CancelPending(r.prob, {"scan", "snapshot"})
  <1>1. r \in ReqRecord
    BY TypeUnfold DEF RequestType
  <1>2. \/ UNCHANGED jobs \/ jobs' = cancelled
        \/ KeyRows(r) = {} /\ \E j \in JobId : ~Exists(j) /\ jobs' = [cancelled EXCEPT ![j] = PendingRow(r)]
    BY DEF EnsureRestore, NextRow
  <1>3. CASE jobs' = cancelled
    BY <1>3, CancelPendingKeeps DEF AllKept, Keeps, RowMoves
  <1>4. ASSUME KeyRows(r) = {}, NEW j \in JobId, ~Exists(j), jobs' = [cancelled EXCEPT ![j] = PendingRow(r)]
        PROVE  RowMoves
    <2>1. cancelled \in [JobId -> JobRow]
      BY CancelPendingType, TypeUnfold
    <2>2. jobs'[j] = PendingRow(r) /\ \A i \in JobId \ {j} : jobs'[i] = cancelled[i]
      BY <1>4, <2>1
    <2>3. \A i \in JobId \ {j} : Keeps(i)
      BY <2>2, CancelPendingKeeps DEF Keeps
    <2> QED BY <1>1, <1>4, <2>2, <2>3, InsertRows
  <1> QED BY <1>2, <1>3, <1>4, Unchanged DEF RowMoves

LEMMA AcquireRows ==
  ASSUME TypeInv, NEW w \in Loops, NEW locked, AcquireJob(w, locked)
  PROVE  RowMoves
  <1>1. PICK j \in Eligible(w) \ locked :
          jobs' = [jobs EXCEPT ![j] = LeasedRow(j, OwnerOf(w), AcquiredToken(j))]
    BY DEF AcquireJob
  <1> DEFINE row == LeasedRow(j, OwnerOf(w), AcquiredToken(j))
  <1>2. j \in JobId /\ Exists(j) /\ jobs[j] \in JobRow
    BY RowOK DEF Eligible, Exists
  <1>3. /\ row.state = "running" /\ row.token = AcquiredToken(j)
        /\ row.type = jobs[j].type /\ row.prob = jobs[j].prob
        /\ row.target = jobs[j].target /\ row.key = jobs[j].key
    BY <1>2 DEF LeasedRow, JobRow
  <1>4. row.token >= nextToken[jobs[j].prob]
    BY <1>2, <1>3, RowOK DEF AcquiredToken
  <1>5. SameJob(j, row)
    BY <1>2, <1>3 DEF SameJob
  <1> HIDE DEF row
  <1>6. jobs' = [jobs EXCEPT ![j] = row]
    BY <1>1 DEF row
  <1> QED BY <1>2, <1>4, <1>5, <1>6, RowReplaced

\* What the watcher leases: a row of the same job, or one without a key.
LEMMA WatcherLeasesRows ==
  ASSUME TypeInv, NEW j \in JobId, NEW row \in JobRow, NEW t \in Token, WatcherLeases(j, row, t),
         t >= nextToken[row.prob],
         \/ Exists(j) /\ row.type = jobs[j].type /\ row.prob = jobs[j].prob
            /\ row.target = jobs[j].target /\ row.key = jobs[j].key
         \/ ~Exists(j) /\ row.key = NoKey
  PROVE  RowMoves
  <1> DEFINE leased == [row EXCEPT !.state = "running", !.owner = OwnerOf(Watcher),
                                   !.live = TRUE, !.token = t]
  <1>1. jobs' = [jobs EXCEPT ![j] = leased]
    BY Zenon DEF WatcherLeases
  <1>2. /\ leased.state = "running" /\ leased.token = t /\ leased.key = row.key
        /\ leased.type = row.type /\ leased.prob = row.prob /\ leased.target = row.target
    BY DEF JobRow
  <1> HIDE DEF leased
  <1>3. CASE Exists(j)
    <2>1. SameJob(j, leased) /\ leased.token >= nextToken[jobs[j].prob]
      BY <1>2, <1>3 DEF SameJob
    <2> QED BY <1>1, <2>1, RowReplaced
  <1>4. CASE ~Exists(j)
    <2>1. jobs'[j] = leased /\ \A i \in JobId \ {j} : jobs'[i] = jobs[i]
      BY <1>1, TypeUnfold DEF JobsOK
    <2>2. Inserts(j) /\ \A i \in JobId \ {j} : Keeps(i)
      BY <1>2, <1>4, <2>1 DEF Inserts, Keeps
    <2> QED BY <2>2 DEF RowMoves, OneMoves
  <1> QED BY <1>3, <1>4

LEMMA WatcherClaimRows ==
  ASSUME TypeInv, NEW p \in Problems, WatcherClaim(p)
  PROVE  RowMoves
  <1>1. PICK base \in 1..MaxToken :
          /\ IsBaseToken(p, base) /\ base + 2 <= MaxEditToken
          /\ \/ \E j \in JobId :
                  /\ jobs[j].prob = p /\ jobs[j].state = "pending"
                  /\ WatcherLeases(j, [jobs[j] EXCEPT !.attempt = @ + 1], base + 1)
             \/ UNCHANGED jobs
             \/ \E j \in JobId : ~Exists(j) /\ WatcherLeases(j, WatcherRow(p, j), base)
    BY DEF WatcherClaim, ActiveOn, NextRow
  <1>2. p \in Keys /\ nextToken[p] \in Nat /\ nextToken[p] <= base
    BY <1>1, TypeUnfold DEF Keys, IsBaseToken
  <1>3. base \in Token /\ base + 1 \in Token
    BY <1>1
  <1>4. base >= nextToken[p] /\ base + 1 >= nextToken[p]
    BY <1>2
  <1>5. ASSUME NEW j \in JobId, jobs[j].prob = p, jobs[j].state = "pending",
               WatcherLeases(j, [jobs[j] EXCEPT !.attempt = @ + 1], base + 1)
        PROVE  RowMoves
    <2> DEFINE row == [jobs[j] EXCEPT !.attempt = @ + 1]
    <2>1. jobs[j] \in JobRow /\ jobs[j].attempt + 1 \in 0..MaxAttempts
      BY <1>5, RowOK, TypeUnfold DEF PendingCanRun
    <2>2. row \in JobRow
      BY <2>1, Zenon DEF JobRow
    <2>3. /\ row.prob = p /\ row.type = jobs[j].type
          /\ row.target = jobs[j].target /\ row.key = jobs[j].key
      BY <1>5, <2>1 DEF JobRow
    <2>4. Exists(j)
      BY <1>5 DEF Exists
    <2>5. WatcherLeases(j, row, base + 1)
      BY <1>5
    <2> HIDE DEF row
    <2> QED BY <1>3, <1>4, <1>5, <2>2, <2>3, <2>4, <2>5, WatcherLeasesRows
  <1>6. ASSUME NEW j \in JobId, ~Exists(j), WatcherLeases(j, WatcherRow(p, j), base)
        PROVE  RowMoves
    <2>1. WatcherRow(p, j) \in JobRow
      BY WatcherRowType
    <2>2. WatcherRow(p, j).prob = p /\ WatcherRow(p, j).key = NoKey
      BY DEF WatcherRow, Absent
    <2> QED BY <1>3, <1>4, <1>6, <2>1, <2>2, WatcherLeasesRows
  <1> QED BY <1>1, <1>5, <1>6, Unchanged DEF RowMoves

LEMMA JobStepRows ==
  ASSUME TypeInv, NEW j \in JobId, LeaseExpires(j) \/ CancelJob(j) \/ RetryJob(j)
  PROVE  RowMoves
  <1>1. jobs[j] \in JobRow
    BY RowOK
  <1>2. CASE LeaseExpires(j)
    <2> DEFINE row == [jobs[j] EXCEPT !.live = FALSE]
    <2>1. SameJob(j, row) /\ row.token = jobs[j].token
      BY <1>1, <1>2 DEF SameJob, Exists, JobRow, LeaseExpires
    <2>2. jobs' = [jobs EXCEPT ![j] = row]
      BY <1>2 DEF LeaseExpires
    <2> HIDE DEF row
    <2> QED BY <2>1, <2>2, RowReplaced
  <1>3. CASE CancelJob(j)
    <2> DEFINE row == [jobs[j] EXCEPT !.state = "cancelled", !.cancelReq = TRUE,
                                      !.token = nextToken[jobs[j].prob]]
    <2>1. Active(j)
      BY <1>3 DEF CancelJob
    <2>2. SameJob(j, row) /\ row.token = nextToken[jobs[j].prob]
      BY <1>1, <2>1 DEF SameJob, Exists, Active, JobRow
    <2>3. row.token >= nextToken[jobs[j].prob]
      BY <2>2, RowOK
    <2>4. jobs' = [jobs EXCEPT ![j] = row]
      BY <1>3 DEF CancelJob
    <2> HIDE DEF row
    <2> QED BY <2>2, <2>3, <2>4, RowReplaced
  <1>4. CASE RetryJob(j)
    <2> DEFINE row == [jobs[j] EXCEPT !.state = "pending", !.owner = "none", !.live = FALSE,
                                      !.cancelReq = FALSE]
    <2>1. SameJob(j, row) /\ row.token = jobs[j].token
      BY <1>1, <1>4 DEF SameJob, Exists, JobRow, RetryJob
    <2>2. jobs' = [jobs EXCEPT ![j] = row]
      BY <1>4 DEF RetryJob
    <2> HIDE DEF row
    <2> QED BY <2>1, <2>2, RowReplaced
  <1> QED BY <1>2, <1>3, <1>4

\* A job ends: reported completed, or failed.
LEMMA FinalRows ==
  ASSUME TypeInv, NEW j \in JobId, NEW s \in {"completed", "failed"}, jobs[j].state = "running",
         jobs' = [jobs EXCEPT ![j].state = s],
         s = "completed" => Reported(j, jobs[j])
  PROVE  RowMoves
  <1> DEFINE row == [jobs[j] EXCEPT !.state = s]
  <1>1. jobs[j] \in JobRow
    BY RowOK
  <1>2. /\ row.state = s /\ row.type = jobs[j].type /\ row.prob = jobs[j].prob
        /\ row.target = jobs[j].target /\ row.key = jobs[j].key
        /\ row.owner = jobs[j].owner /\ row.token = jobs[j].token
    BY <1>1 DEF JobRow
  <1>3. jobs' = [jobs EXCEPT ![j] = row]
    BY Zenon
  <1> HIDE DEF row
  <1>4. SameJob(j, row)
    BY <1>2 DEF SameJob, Exists, Reported
  <1> QED BY <1>2, <1>3, <1>4, RowReplaced

LEMMA FinishRows ==
  ASSUME TypeInv, NEW w \in Workers, Finish(w)
  PROVE  RowMoves
  <1> DEFINE s == IF claim[w].phase = "done" THEN "completed" ELSE "failed"
  <1>1. claim[w].job \in JobId /\ jobs[claim[w].job].state = "running" /\ w \in Loops
    BY ClaimOK DEF Finish, HoldsLease, Claimed
  <1>2. jobs' = [jobs EXCEPT ![claim[w].job].state = s] /\ s \in {"completed", "failed"}
    BY DEF Finish
  <1>3. s = "completed" => Reported(claim[w].job, jobs[claim[w].job])
    BY <1>1 DEF Reported
  <1> HIDE DEF s
  <1> QED BY <1>1, <1>2, <1>3, FinalRows

LEMMA WatcherCompleteRows ==
  ASSUME TypeInv, WatcherComplete
  PROVE  RowMoves
  <1>1. Watcher \in Workers
    BY DEF Workers
  <1>2. claim[Watcher].job \in JobId
    BY <1>1, ClaimOK DEF WatcherComplete, Claimed
  <1>3. jobs[claim[Watcher].job].owner = "rust" /\ jobs[claim[Watcher].job].state = "running"
    BY DEF WatcherComplete, WatcherRowMatches, OwnerOf
  <1> QED BY <1>2, <1>3, FinalRows DEF WatcherComplete, Reported

LEMMA WatcherFailRows ==
  ASSUME TypeInv, WatcherFail
  PROVE  RowMoves
  <1> DEFINE j == claim[Watcher].job
             row == [jobs[j] EXCEPT !.state = FailedState(j), !.owner = "none", !.live = FALSE]
  <1>1. Watcher \in Workers
    BY DEF Workers
  <1>2. j \in JobId
    BY <1>1, ClaimOK DEF WatcherFail, Claimed
  <1>3. UNCHANGED jobs \/ (jobs[j].state = "running" /\ jobs' = [jobs EXCEPT ![j] = row])
    BY DEF WatcherFail, WatcherRowMatches
  <1>4. jobs[j] \in JobRow /\ FailedState(j) \in {"pending", "failed"}
    BY <1>2, RowOK DEF FailedState
  <1>5. /\ row.state = FailedState(j) /\ row.type = jobs[j].type /\ row.prob = jobs[j].prob
        /\ row.target = jobs[j].target /\ row.key = jobs[j].key /\ row.token = jobs[j].token
    BY <1>4 DEF JobRow
  <1> HIDE DEF row, j
  <1>6. CASE jobs[j].state = "running" /\ jobs' = [jobs EXCEPT ![j] = row]
    <2>1. SameJob(j, row)
      BY <1>4, <1>5, <1>6 DEF SameJob, Exists
    <2> QED BY <1>2, <1>5, <1>6, <2>1, RowReplaced
  <1> QED BY <1>3, <1>6, Unchanged DEF RowMoves

LEMMA FailExpiredRows ==
  ASSUME TypeInv, FailExpiredRunningJobs
  PROVE  RowMoves
  <1> DEFINE row(j) == [jobs[j] EXCEPT !.state = "failed", !.token = RevokedToken(j)]
  <1>1. jobs' = [j \in JobId |-> IF j \in Exhausted(jobs[j].prob) THEN row(j) ELSE jobs[j]]
    BY DEF FailExpiredRunningJobs
  <1>2. ASSUME NEW j \in JobId, j \in Exhausted(jobs[j].prob)
        PROVE  SameJob(j, row(j)) /\ row(j).token = RevokedToken(j)
    <2>1. jobs[j] \in JobRow /\ Exists(j)
      BY <1>2, RowOK DEF Exhausted, Exists
    <2> QED BY <2>1 DEF SameJob, JobRow
  <1> HIDE DEF row
  <1>3. AllRevoked
    BY <1>1, <1>2 DEF AllRevoked, Keeps, Revoked
  <1> QED BY <1>3 DEF RowMoves

LEMMA TableMoves == TypeInv /\ [Next]_vars => RowMoves
  <1> SUFFICES ASSUME TypeInv, [Next]_vars
               PROVE  RowMoves
    OBVIOUS
  <1>1. UNCHANGED jobs => RowMoves
    BY Unchanged DEF RowMoves
  <1>2. UNCHANGED vars => UNCHANGED jobs
    BY DEF vars
  <1>3. ClientStep => RowMoves
    <2>1. \A c \in Clients : ReadTable(c) => UNCHANGED jobs
      BY DEF ReadTable
    <2> QED BY <1>1, <2>1, SubmitRows, CreateJobRows, EnsureRestoreRows DEF ClientStep, RowMoves
  <1>4. WorkerStep => RowMoves
    <2>1. \A w \in Workers : StartOp(w) \/ Timeout(w) \/ Abandon(w) => UNCHANGED jobs
      BY DEF StartOp, Timeout, Abandon
    <2> QED BY <1>1, <2>1, AcquireRows, FinishRows DEF WorkerStep
  <1>5. WatcherStep => RowMoves
    BY WatcherClaimRows, WatcherCompleteRows, WatcherFailRows DEF WatcherStep
  <1>6. DataPlaneStep => UNCHANGED jobs
    BY DEF DataPlaneStep, OpEnter, OpLand, OpFails
  <1>7. QueueStep => RowMoves
    <2>1. DataPlaneRestart \/ (\E on \in BOOLEAN : SetPaused(on)) => UNCHANGED jobs
      BY DEF DataPlaneRestart, SetPaused
    <2> QED BY <1>1, <2>1, JobStepRows, FailExpiredRows DEF QueueStep
  <1> QED BY <1>1, <1>2, <1>3, <1>4, <1>5, <1>6, <1>7 DEF Next

-----------------------------------------------------------------------------
(* Tokens *)

\* ROW_NUMBER gives the revoked jobs of a problem distinct tokens.
LEMMA RevokedTokensDistinct ==
  ASSUME TypeInv, NEW i \in JobId, NEW j \in JobId, i < j, jobs[i].prob = jobs[j].prob,
         i \in Exhausted(jobs[i].prob)
  PROVE  RevokedToken(i) < RevokedToken(j)
  <1> DEFINE E == Exhausted(jobs[j].prob)
             A == {x \in E : x < i}
             B == {x \in E : x < j}
  <1>1. IsFiniteSet(E)
    BY ExhaustedFinite
  <1>2. E \subseteq Nat /\ i \in Nat /\ j \in Nat
    BY DEF Exhausted
  <1>3. A \subseteq B \ {i} /\ i \in B
    BY <1>2
  <1>4. IsFiniteSet(B)
    BY <1>1, FS_Subset
  <1>5. IsFiniteSet(B \ {i}) /\ Cardinality(B \ {i}) = Cardinality(B) - 1
    BY <1>3, <1>4, FS_RemoveElement
  <1>6. Cardinality(A) <= Cardinality(B \ {i}) /\ IsFiniteSet(A)
    BY <1>3, <1>5, FS_Subset
  <1>7. Cardinality(A) \in Nat /\ Cardinality(B) \in Nat
    BY <1>4, <1>6, FS_CardinalityType
  <1>8. RevokedToken(i) = nextToken[jobs[j].prob] + Cardinality(A)
    BY DEF RevokedToken
  <1>9. RevokedToken(j) = nextToken[jobs[j].prob] + Cardinality(B)
    BY DEF RevokedToken
  <1>10. nextToken[jobs[j].prob] \in Nat
    BY RowOK
  <1> HIDE DEF A, B
  <1> QED BY <1>5, <1>6, <1>7, <1>8, <1>9, <1>10

LEMMA TokensStep ==
  ASSUME TypeInv, TypeInv', CounterAhead, TokensUnique, RowMoves
  PROVE  TokensUnique'
  <1> DEFINE Apart(i, j) == /\ jobs'[i].prob = jobs'[j].prob /\ jobs'[i].token # 0
                            => jobs'[i].token # jobs'[j].token
  <1>1. \A j \in JobId : /\ jobs[j].token \in Nat /\ nextToken[jobs[j].prob] \in Nat
                         /\ jobs[j].token < nextToken[jobs[j].prob]
                         /\ jobs'[j].token \in Nat
    <2>1. \A j \in JobId : jobs'[j] \in JobRow
      BY DEF TypeInv, TypeOK
    <2> QED BY <2>1, RowOK DEF CounterAhead, JobRow
  <1>2. ASSUME NEW i \in JobId, NEW j \in JobId, i # j, Keeps(i), Keeps(j)
        PROVE  Apart(i, j)
    BY <1>2 DEF Keeps, SameJob, TokensUnique
  <1>3. ASSUME NEW i \in JobId, NEW j \in JobId, i # j, Renews(i) \/ Inserts(i), Keeps(j)
        PROVE  Apart(i, j) /\ Apart(j, i)
    <2>1. jobs'[j].prob = jobs[j].prob /\ jobs'[j].token = jobs[j].token
      BY <1>3 DEF Keeps, SameJob
    <2>2. jobs'[i].token = 0 \/ jobs'[i].token >= nextToken[jobs'[i].prob]
      BY <1>3 DEF Renews, Inserts, SameJob
    <2> QED BY <1>1, <2>1, <2>2
  <1>4. ASSUME NEW i \in JobId, NEW j \in JobId, i # j, Revoked(i), Keeps(j)
        PROVE  Apart(i, j) /\ Apart(j, i)
    <2>1. jobs'[j].prob = jobs[j].prob /\ jobs'[j].token = jobs[j].token
      BY <1>4 DEF Keeps, SameJob
    <2>2. jobs'[i].prob = jobs[i].prob /\ jobs'[i].token = RevokedToken(i)
      BY <1>4 DEF Revoked, SameJob
    <2>3. RevokedToken(i) >= nextToken[jobs[i].prob]
      BY <1>4, RevokedTokenBound, TypeUnfold DEF Revoked
    <2> QED BY <1>1, <2>1, <2>2, <2>3
  <1>5. ASSUME NEW i \in JobId, NEW j \in JobId, i # j, Revoked(i), Revoked(j)
        PROVE  Apart(i, j)
    <2>1. /\ jobs'[i].prob = jobs[i].prob /\ jobs'[i].token = RevokedToken(i)
          /\ jobs'[j].prob = jobs[j].prob /\ jobs'[j].token = RevokedToken(j)
          /\ i \in Exhausted(jobs[i].prob) /\ j \in Exhausted(jobs[j].prob)
      BY <1>5 DEF Revoked, SameJob
    <2>2. SUFFICES ASSUME jobs[i].prob = jobs[j].prob
                   PROVE  RevokedToken(i) # RevokedToken(j)
      BY <2>1
    <2>3. i < j \/ j < i
      BY <1>5
    <2>4. RevokedToken(i) \in Nat /\ RevokedToken(j) \in Nat
      BY <1>1, <2>1
    <2> QED BY <2>1, <2>2, <2>3, <2>4, RevokedTokensDistinct
  <1>6. CASE AllKept
    BY <1>2, <1>6 DEF AllKept, TokensUnique
  <1>7. CASE OneMoves
    BY <1>2, <1>3, <1>7 DEF OneMoves, TokensUnique
  <1>8. CASE AllRevoked
    BY <1>2, <1>4, <1>5, <1>8 DEF AllRevoked, TokensUnique
  <1> QED BY <1>6, <1>7, <1>8 DEF RowMoves

-----------------------------------------------------------------------------
(* Idempotency keys *)

LEMMA KeysStep ==
  ASSUME AbsentBlank, KeyNamesOneJob, RowMoves
  PROVE  AbsentBlank' /\ KeyNamesOneJob'
  <1> DEFINE Same(j) == jobs'[j] = jobs[j] \/
                        /\ Exists(j) /\ jobs'[j].state # "absent"
                        /\ jobs'[j].key = jobs[j].key /\ jobs'[j].type = jobs[j].type
  <1>1. \A j \in JobId : Keeps(j) \/ Renews(j) \/ Revoked(j) => Same(j)
    BY DEF Keeps, Renews, Revoked, SameJob
  <1>2. CASE \A j \in JobId : Same(j)
    BY <1>2 DEF AbsentBlank, KeyNamesOneJob, Exists
  <1>3. ASSUME NEW i \in JobId, Inserts(i), \A j \in JobId \ {i} : Same(j)
        PROVE  AbsentBlank' /\ KeyNamesOneJob'
    <2>1. AbsentBlank'
      BY <1>3 DEF AbsentBlank, Exists, Inserts
    <2>2. ASSUME NEW j \in JobId \ {i}, jobs'[i].key # NoKey, jobs'[i].key = jobs'[j].key
          PROVE  jobs'[i].type # jobs'[j].type
      <3>1. PICK r \in ReqRecord : KeyRows(r) = {} /\ jobs'[i].key = r.key /\ jobs'[i].type = r.type
        BY <1>3, <2>2 DEF Inserts
      <3>2. jobs[j].key = jobs'[i].key /\ jobs'[j].type = jobs[j].type /\ Exists(j)
        BY <1>3, <2>2 DEF AbsentBlank
      <3> QED BY <3>1, <3>2 DEF KeyRows
    <2>3. \A j, k \in JobId \ {i} :
            j # k /\ jobs'[j].key # NoKey /\ jobs'[j].key = jobs'[k].key => jobs'[j].type # jobs'[k].type
      BY <1>3 DEF KeyNamesOneJob
    <2>4. KeyNamesOneJob'
      BY <2>2, <2>3 DEF KeyNamesOneJob
    <2> QED BY <2>1, <2>4
  <1> QED BY <1>1, <1>2, <1>3 DEF RowMoves, AllKept, OneMoves, AllRevoked

-----------------------------------------------------------------------------
(* Answers *)

\* A job that exists stays, and stays the same job.
JobsStay ==
  \A j \in JobId : Exists(j) =>
    /\ jobs'[j].state # "absent" /\ jobs'[j].type = jobs[j].type
    /\ jobs'[j].prob = jobs[j].prob /\ jobs'[j].target = jobs[j].target

LEMMA MovesStay ==
  ASSUME RowMoves
  PROVE  JobsStay
  BY DEF RowMoves, AllKept, OneMoves, AllRevoked, Keeps, Renews, Inserts, Revoked, SameJob,
         JobsStay, Exists

\* What a step does to a client's request.
RequestMoves(c) ==
  \/ request'[c] = request[c]
  \/ request'[c].seen = {} /\ request'[c].stage # "accepted"
  \/ request'[c].stage = "decide" /\ \A j \in request'[c].seen : Exists(j)
  \/ request'[c].seen = {} /\ \E j \in JobId : Exists(j)' /\ Serves(j, request[c].req)'

LEMMA AnswerMoves ==
  ASSUME TypeInv, NEW c \in Clients, NEW reply, Answer(c, reply)
  PROVE  /\ request'[c].stage = reply /\ request'[c].seen = {} /\ request'[c].req = request[c].req
         /\ \A d \in Clients \ {c} : request'[d] = request[d]
  <1>1. request \in [Clients -> RequestType] /\ request[c] \in RequestType
    BY TypeUnfold
  <1>2. request'[c] = [request[c] EXCEPT !.stage = reply, !.seen = {}, !.keySeen = FALSE]
    BY <1>1, Zenon DEF Answer
  <1>3. \A d \in Clients \ {c} : request'[d] = request[d]
    BY <1>1 DEF Answer
  <1> QED BY <1>1, <1>2, <1>3 DEF RequestType

\* Replaying a key, coalescing, and inserting all answer with a job that serves.
LEMMA ReplayServes ==
  ASSUME NEW r, ReplayReply(r) = "accepted"
  PROVE  \E j \in JobId : Exists(j) /\ Identical(j, r)
  BY DEF ReplayReply, KeyRows

LEMMA InsertedServes ==
  ASSUME NEW r, NEW j \in JobId, jobs'[j] = PendingRow(r)
  PROVE  Exists(j)' /\ jobs'[j].type = r.type /\ jobs'[j].prob = r.prob /\ jobs'[j].target = r.target
  BY DEF PendingRow, Absent, Exists

LEMMA CreateJobServes ==
  ASSUME TypeInv, SeenExist, NEW c \in Clients, CreateJob(c)
  PROVE  \A d \in Clients : RequestMoves(d)
  <1> DEFINE r == request[c].req
             same == {j \in request[c].seen : Identical(j, r)}
  <1>1. PICK reply : Answer(c, reply)
    BY DEF CreateJob, Insert
  <1>2. /\ request'[c].stage = reply /\ request'[c].seen = {} /\ request'[c].req = r
        /\ \A d \in Clients \ {c} : request'[d] = request[d]
    BY <1>1, AnswerMoves
  <1>3. \/ UNCHANGED jobs /\ request'[c].stage = ReplayReply(r)
        \/ UNCHANGED jobs /\ same # {}
        \/ request'[c].stage # "accepted"
        \/ UNCHANGED jobs /\ TypeTaken(r.prob, r.type) /\ r.type = "gc_collect"
        \/ \E j \in JobId : jobs' = [jobs EXCEPT ![j] = PendingRow(r)]
    <2>1. \A s : Answer(c, s) => request'[c].stage = s
      BY AnswerMoves
    <2> QED BY <2>1, Zenon DEF CreateJob, Insert
  <1>4. request'[c].stage = "accepted" => \E j \in JobId : Exists(j)' /\ Serves(j, r)'
    <2> SUFFICES ASSUME request'[c].stage = "accepted"
                 PROVE  \E j \in JobId : Exists(j)' /\ Serves(j, r)'
      OBVIOUS
    <2>1. CASE UNCHANGED jobs /\ request'[c].stage = ReplayReply(r)
      <3>1. PICK j \in JobId : Exists(j) /\ Identical(j, r)
        BY <2>1, ReplayServes
      <3>2. jobs'[j] = jobs[j] /\ request'[c].req = r
        BY <1>2, <2>1
      <3> QED BY <3>1, <3>2 DEF Exists, Serves, Identical
    <2>2. CASE UNCHANGED jobs /\ same # {}
      <3>1. PICK j \in same : TRUE
        BY <2>2
      <3>2. j \in JobId /\ Exists(j) /\ Identical(j, r)
        BY <3>1, TypeUnfold DEF SeenExist, RequestType
      <3>3. jobs'[j] = jobs[j] /\ request'[c].req = r
        BY <1>2, <2>2
      <3> QED BY <3>2, <3>3 DEF Exists, Serves, Identical
    <2>3. CASE UNCHANGED jobs /\ TypeTaken(r.prob, r.type) /\ r.type = "gc_collect"
      <3>1. PICK j \in JobId : Active(j) /\ jobs[j].prob = r.prob /\ jobs[j].type = r.type
        BY <2>3 DEF TypeTaken, ActiveOn
      <3>2. jobs'[j] = jobs[j] /\ request'[c].req = r
        BY <1>2, <2>3
      <3> QED BY <2>3, <3>1, <3>2 DEF Exists, Active, Serves
    <2>4. ASSUME NEW j \in JobId, jobs' = [jobs EXCEPT ![j] = PendingRow(r)]
          PROVE  \E i \in JobId : Exists(i)' /\ Serves(i, r)'
      <3>1. jobs'[j] = PendingRow(r)
        BY <2>4, TypeUnfold DEF JobsOK
      <3> QED BY <1>2, <3>1, InsertedServes DEF Serves, Identical
    <2> QED BY <1>3, <2>1, <2>2, <2>3, <2>4
  <1>5. RequestMoves(c)
    BY <1>2, <1>4 DEF RequestMoves
  <1> QED BY <1>2, <1>5 DEF RequestMoves

LEMMA EnsureServes ==
  ASSUME TypeInv, NEW c \in Clients, EnsureRestore(c)
  PROVE  \A d \in Clients : RequestMoves(d)
  <1> DEFINE r == request[c].req
             cancelled == CancelPending(r.prob, {"scan", "snapshot"})
  <1>1. PICK reply : Answer(c, reply)
    BY DEF EnsureRestore
  <1>2. /\ request'[c].stage = reply /\ request'[c].seen = {} /\ request'[c].req = r
        /\ \A d \in Clients \ {c} : request'[d] = request[d]
    BY <1>1, AnswerMoves
  <1>3. \/ UNCHANGED jobs /\ request'[c].stage = ReplayReply(r)
        \/ UNCHANGED jobs /\ \E j \in ActiveOn(r.prob) : Identical(j, r)
        \/ request'[c].stage # "accepted"
        \/ \E j \in JobId : jobs' = [cancelled EXCEPT ![j] = PendingRow(r)]
    <2>1. \A s : Answer(c, s) => request'[c].stage = s
      BY AnswerMoves
    <2>2. {j \in ActiveOn(r.prob) : Identical(j, r)} # {} => \E j \in ActiveOn(r.prob) : Identical(j, r)
      OBVIOUS
    <2> QED BY <2>1, <2>2, Zenon DEF EnsureRestore
  <1>4. request'[c].stage = "accepted" => \E j \in JobId : Exists(j)' /\ Serves(j, r)'
    <2> SUFFICES ASSUME request'[c].stage = "accepted"
                 PROVE  \E j \in JobId : Exists(j)' /\ Serves(j, r)'
      OBVIOUS
    <2>1. CASE UNCHANGED jobs /\ request'[c].stage = ReplayReply(r)
      <3>1. PICK j \in JobId : Exists(j) /\ Identical(j, r)
        BY <2>1, ReplayServes
      <3>2. jobs'[j] = jobs[j] /\ request'[c].req = r
        BY <1>2, <2>1
      <3> QED BY <3>1, <3>2 DEF Exists, Serves, Identical
    <2>2. CASE UNCHANGED jobs /\ \E j \in ActiveOn(r.prob) : Identical(j, r)
      <3>1. PICK j \in JobId : Active(j) /\ Identical(j, r)
        BY <2>2 DEF ActiveOn
      <3>2. jobs'[j] = jobs[j] /\ request'[c].req = r
        BY <1>2, <2>2
      <3> QED BY <3>1, <3>2 DEF Exists, Active, Serves, Identical
    <2>3. ASSUME NEW j \in JobId, jobs' = [cancelled EXCEPT ![j] = PendingRow(r)]
          PROVE  \E i \in JobId : Exists(i)' /\ Serves(i, r)'
      <3>1. cancelled \in [JobId -> JobRow]
        BY CancelPendingType, TypeUnfold
      <3>2. jobs'[j] = PendingRow(r)
        BY <2>3, <3>1
      <3>3. Exists(j)' /\ jobs'[j].type = r.type /\ jobs'[j].prob = r.prob /\ jobs'[j].target = r.target
        BY <3>2, InsertedServes
      <3>4. Serves(j, r)'
        BY <1>2, <3>3 DEF Serves, Identical
      <3> QED BY <3>3, <3>4
    <2> QED BY <1>3, <2>1, <2>2, <2>3
  <1>5. RequestMoves(c)
    BY <1>2, <1>4 DEF RequestMoves
  <1> QED BY <1>2, <1>5 DEF RequestMoves

LEMMA RequestsMove ==
  ASSUME TypeInv, SeenExist, [Next]_vars
  PROVE  \A c \in Clients : RequestMoves(c)
  <1>1. CASE UNCHANGED request
    BY <1>1 DEF RequestMoves
  <1>2. CASE ClientStep
    <2>1. PICK c \in Clients :
            \/ \E r \in Requests : Submit(c, r) \/ SubmitEnsure(c, r)
            \/ ReadTable(c) \/ CreateJob(c) \/ EnsureRestore(c)
      BY <1>2 DEF ClientStep
    <2>2. request \in [Clients -> RequestType] /\ request[c] \in RequestType
      BY TypeUnfold
    <2>3. ASSUME NEW r \in Requests, Submit(c, r) \/ SubmitEnsure(c, r)
          PROVE  \A d \in Clients : RequestMoves(d)
      <3>1. /\ request'[c].stage # "accepted" /\ request'[c].seen = {}
            /\ \A d \in Clients \ {c} : request'[d] = request[d]
        BY <2>2, <2>3 DEF Submit, SubmitEnsure, NoRequest
      <3> QED BY <3>1 DEF RequestMoves
    <2>4. CASE ReadTable(c)
      <3> DEFINE new == [request[c] EXCEPT !.stage = "decide", !.seen = ActiveOn(request[c].req.prob),
                                           !.keySeen = (KeyRows(request[c].req) # {})]
      <3>1. request' = [request EXCEPT ![c] = new]
        BY <2>2, <2>4, Zenon DEF ReadTable
      <3>2. new.stage = "decide" /\ new.seen = ActiveOn(request[c].req.prob)
        BY <2>2 DEF RequestType
      <3> HIDE DEF new
      <3>3. request'[c] = new /\ \A d \in Clients \ {c} : request'[d] = request[d]
        BY <2>2, <3>1
      <3>4. RequestMoves(c)
        BY <3>2, <3>3 DEF RequestMoves, ActiveOn, Active, Exists
      <3> QED BY <3>3, <3>4 DEF RequestMoves
    <2> QED BY <2>1, <2>3, <2>4, CreateJobServes, EnsureServes
  <1>3. ~ClientStep => UNCHANGED request
    BY DEF Next, vars, WorkerStep, AcquireJob, StartOp, Timeout, Finish, Abandon, WatcherStep,
           WatcherClaim, WatcherComplete, WatcherFail, DataPlaneStep, OpEnter, OpLand, OpFails,
           QueueStep, FailExpiredRunningJobs, DataPlaneRestart, LeaseExpires, CancelJob, RetryJob,
           SetPaused
  <1> QED BY <1>1, <1>2, <1>3

LEMMA AnswersStep ==
  ASSUME TypeInv', SeenExist, AcceptedIsServed, JobsStay, \A c \in Clients : RequestMoves(c)
  PROVE  SeenExist' /\ AcceptedIsServed'
  <1>1. \A c \in Clients : \A j \in request'[c].seen : j \in JobId
    BY DEF TypeInv, TypeOK
  <1>2. SeenExist'
    <2> SUFFICES ASSUME NEW c \in Clients, NEW j \in request'[c].seen
                 PROVE  jobs'[j].state # "absent"
      BY DEF SeenExist, Exists
    <2>1. Exists(j)
      BY DEF RequestMoves, SeenExist
    <2>2. j \in JobId
      BY <1>1
    <2> QED BY <2>1, <2>2 DEF JobsStay
  <1>3. AcceptedIsServed'
    <2> SUFFICES ASSUME NEW c \in Clients, request'[c].stage = "accepted"
                 PROVE  \E j \in JobId : Exists(j)' /\ Serves(j, request[c].req)'
      BY DEF AcceptedIsServed
    <2>1. CASE request'[c] = request[c]
      <3>1. PICK j \in JobId : Exists(j) /\ Serves(j, request[c].req)
        BY <2>1 DEF AcceptedIsServed
      <3> QED BY <2>1, <3>1 DEF JobsStay, Exists, Serves, Identical
    <2>2. CASE \E j \in JobId : Exists(j)' /\ Serves(j, request[c].req)'
      BY <2>2
    <2> QED BY <2>1, <2>2 DEF RequestMoves
  <1> QED BY <1>2, <1>3

-----------------------------------------------------------------------------
(* Published work *)

\* What was published stays published.
LEMMA LandedKept ==
  ASSUME IInv, JobsStay, effects \subseteq effects', NEW j \in JobId, Exists(j), Landed(j)
  PROVE  Landed(j)'
  <1>1. PICK e \in effects : /\ jobs[e.job].type = jobs[j].type /\ jobs[e.job].prob = jobs[j].prob
                             /\ jobs[e.job].target = jobs[j].target
    BY DEF Landed
  <1>2. e.job \in JobId /\ Exists(e.job)
    BY Unfold DEF Remembers
  <1> QED BY <1>1, <1>2 DEF JobsStay, Landed

Publishes(j) == jobs[j].type \in {"snapshot", "restore"}

\* A loop that is done was done, or its work needs no effect, or has it now.
ClaimsMove ==
  \A w \in Loops : claim'[w].phase = "done" =>
    \/ claim'[w] = claim[w]
    \/ UNCHANGED jobs /\ (Publishes(claim'[w].job) => Landed(claim[w].job)')

LEMMA StartOpClaims ==
  ASSUME TypeInv, NEW w \in Workers, StartOp(w)
  PROVE  ClaimsMove
  <1>1. Claimed(w) /\ UNCHANGED <<jobs, effects>> /\ claim[w].phase = "claimed"
    BY DEF StartOp, Claimed
  <1>2. PICK phase \in Phases :
          /\ Goto(w, phase)
          /\ phase = "done" => \/ w = Watcher
                               \/ ~Publishes(claim[w].job)
                               \/ Landed(claim[w].job)
    BY DEF StartOp, Phases, JoinedPhase, Publishes
  <1>3. phase # "claimed" => /\ claim'[w].phase = phase /\ claim'[w].job = claim[w].job
                             /\ \A v \in Workers \ {w} : claim'[v] = claim[v]
    BY <1>1, <1>2, GotoKeeps
  <1>4. phase = "claimed" => claim' = claim
    <2>1. claim[w] \in ClaimType /\ claim \in [Workers -> ClaimType \cup {NoClaim}]
      BY <1>1, ClaimOK, TypeUnfold
    <2> QED BY <1>1, <1>2, <2>1 DEF Goto, ClaimType
  <1>5. Loops \subseteq Workers
    BY DEF Workers
  <1>6. Landed(claim[w].job) /\ claim'[w].job = claim[w].job => Landed(claim[w].job)'
    BY <1>1 DEF Landed
  <1> QED BY <1>1, <1>2, <1>3, <1>4, <1>5, <1>6 DEF ClaimsMove

\* The operation that lands publishes for all that waited for it.
LEMMA OpLandClaims ==
  ASSUME IInv, NEW o \in ops, OpLand(o)
  PROVE  ClaimsMove
  <1> DEFINE new == [job |-> o.job, token |-> o.token]
  <1>1. UNCHANGED jobs /\ new \in effects' /\ claim' = Released(o, "done")
    BY DEF OpLand
  <1>2. SUFFICES ASSUME NEW w \in Loops, claim'[w] # claim[w]
                 PROVE  Landed(claim[w].job)'
    BY <1>1 DEF ClaimsMove
  <1>3. /\ SameOperation(o, w) /\ claim[w].phase = "called"
        /\ claim'[w] = [claim[w] EXCEPT !.phase = "done"]
    BY <1>1, <1>2 DEF Released, Workers
  <1>4. claim[w] \in ClaimType
    BY <1>3, Unfold, ClaimOK DEF Claimed, Workers
  <1>5. claim'[w].job = claim[w].job
    BY <1>3, <1>4 DEF ClaimType
  <1>6. new.job = o.job
    OBVIOUS
  <1>7. /\ jobs[o.job].type = jobs[claim[w].job].type /\ jobs[o.job].prob = jobs[claim[w].job].prob
        /\ jobs[o.job].target = jobs[claim[w].job].target
    BY <1>3 DEF SameOperation
  <1> HIDE DEF new
  <1> QED BY <1>1, <1>5, <1>6, <1>7 DEF Landed

\* Every other step leaves a loop's claim alone or gives it another phase.
LEMMA OtherClaims ==
  ASSUME TypeInv,
         \A w \in Loops : claim'[w] = claim[w] \/ claim'[w].phase # "done"
  PROVE  ClaimsMove
  BY DEF ClaimsMove

LEMMA WorkerClaims ==
  ASSUME TypeInv, NEW w \in Workers,
         \/ \E locked : AcquireJob(w, locked)
         \/ Timeout(w) \/ Finish(w) \/ Abandon(w)
  PROVE  ClaimsMove
  <1>1. claim \in [Workers -> ClaimType \cup {NoClaim}] /\ Loops \subseteq Workers
    BY TypeUnfold DEF Workers
  <1>2. CASE Timeout(w)
    <2>1. Claimed(w) /\ Goto(w, "failed")
      BY <1>2 DEF Timeout, Claimed
    <2> QED BY <1>1, <2>1, GotoKeeps, OtherClaims
  <1>3. CASE \E locked : AcquireJob(w, locked)
    <2>1. PICK c : c.phase = "claimed" /\ claim' = [claim EXCEPT ![w] = c]
      <3>1. PICK j, t : claim' = [claim EXCEPT ![w] = [job |-> j, token |-> t, phase |-> "claimed"]]
        BY <1>3 DEF AcquireJob
      <3>2. [job |-> j, token |-> t, phase |-> "claimed"].phase = "claimed"
        OBVIOUS
      <3> QED BY <3>1, <3>2
    <2> QED BY <1>1, <2>1, OtherClaims
  <1>4. CASE Finish(w) \/ Abandon(w)
    <2>1. claim' = [claim EXCEPT ![w] = NoClaim] /\ NoClaim.phase = "idle"
      BY <1>4 DEF Finish, Abandon, Drop, NoClaim
    <2> QED BY <1>1, <2>1, OtherClaims
  <1> QED BY <1>2, <1>3, <1>4

LEMMA ReleasedClaims ==
  ASSUME TypeInv, NEW o, claim' = Released(o, "failed")
  PROVE  ClaimsMove
  <1> SUFFICES ASSUME NEW w \in Loops
               PROVE  claim'[w] = claim[w] \/ claim'[w].phase # "done"
    BY OtherClaims
  <1>1. \/ claim'[w] = claim[w]
        \/ claim[w].phase = "called" /\ claim'[w] = [claim[w] EXCEPT !.phase = "failed"]
    BY DEF Released, Workers
  <1>2. claim[w].phase = "called" => claim[w] \in ClaimType
    BY ClaimOK DEF Claimed, Workers
  <1> QED BY <1>1, <1>2 DEF ClaimType

LEMMA WatcherClaims ==
  ASSUME TypeInv, WatcherStep
  PROVE  ClaimsMove
  <1>1. UNCHANGED claim \/ \E c : claim' = [claim EXCEPT ![Watcher] = c]
    BY DEF WatcherStep, WatcherClaim, WatcherLeases, WatcherComplete, WatcherFail, Drop
  <1>2. Watcher \notin Loops /\ Loops \subseteq Workers /\ claim \in [Workers -> ClaimType \cup {NoClaim}]
    BY TypeUnfold DEF Workers
  <1> QED BY <1>1, <1>2, OtherClaims

LEMMA RestartClaims ==
  ASSUME TypeInv, DataPlaneRestart
  PROVE  ClaimsMove
  <1> SUFFICES ASSUME NEW w \in Loops
               PROVE  claim'[w] = claim[w] \/ claim'[w].phase # "done"
    BY OtherClaims
  <1>1. w # Watcher /\ w \in Workers
    BY DEF Workers
  <1>2. \/ claim'[w] = claim[w]
        \/ claim[w].phase = "called" /\ claim'[w] = [claim[w] EXCEPT !.phase = "failed"]
    BY <1>1, Zenon DEF DataPlaneRestart
  <1>3. claim[w].phase = "called" => claim[w] \in ClaimType
    BY <1>1, ClaimOK DEF Claimed
  <1> QED BY <1>2, <1>3 DEF ClaimType

LEMMA AllClaimsMove == IInv /\ [Next]_vars => ClaimsMove /\ effects \subseteq effects'
  <1> SUFFICES ASSUME IInv, [Next]_vars
               PROVE  ClaimsMove /\ effects \subseteq effects'
    OBVIOUS
  <1>1. TypeInv
    BY Unfold
  <1>2. UNCHANGED claim => ClaimsMove
    BY DEF ClaimsMove
  <1>3. ClientStep => UNCHANGED <<claim, effects>>
    BY DEF ClientStep, Submit, SubmitEnsure, ReadTable, CreateJob, EnsureRestore
  <1>4. WorkerStep => ClaimsMove /\ UNCHANGED effects
    <2>1. WorkerStep => ClaimsMove
      BY <1>1, StartOpClaims, WorkerClaims DEF WorkerStep
    <2>2. WorkerStep => UNCHANGED effects
      BY DEF WorkerStep, AcquireJob, StartOp, Timeout, Finish, Abandon
    <2> QED BY <2>1, <2>2
  <1>5. WatcherStep => ClaimsMove /\ UNCHANGED effects
    <2>1. WatcherStep => UNCHANGED effects
      BY DEF WatcherStep, WatcherClaim, WatcherComplete, WatcherFail
    <2> QED BY <1>1, <2>1, WatcherClaims
  <1>6. DataPlaneStep => ClaimsMove /\ effects \subseteq effects'
    BY <1>1, <1>2, OpLandClaims, ReleasedClaims DEF DataPlaneStep, OpEnter, OpLand, OpFails
  <1>7. QueueStep => ClaimsMove /\ UNCHANGED effects
    <2>1. QueueStep => UNCHANGED claim \/ DataPlaneRestart
      BY DEF QueueStep, FailExpiredRunningJobs, LeaseExpires, CancelJob, RetryJob, SetPaused
    <2>2. QueueStep => UNCHANGED effects
      BY DEF QueueStep, FailExpiredRunningJobs, DataPlaneRestart, LeaseExpires, CancelJob,
             RetryJob, SetPaused
    <2> QED BY <1>1, <1>2, <2>1, <2>2, RestartClaims
  <1>8. UNCHANGED vars => UNCHANGED <<claim, effects>>
    BY DEF vars
  <1> QED BY <1>2, <1>3, <1>4, <1>5, <1>6, <1>7, <1>8 DEF Next

LEMMA EffectsStep ==
  ASSUME IInv, IInv', DoneHasEffect, CompletedHasEffect, RowMoves, ClaimsMove,
         effects \subseteq effects'
  PROVE  DoneHasEffect' /\ CompletedHasEffect'
  <1>1. JobsStay
    BY MovesStay
  <1>2. DoneHasEffect'
    <2> SUFFICES ASSUME NEW w \in Loops, claim'[w].phase = "done",
                        jobs'[claim'[w].job].type \in {"snapshot", "restore"}
                 PROVE  Landed(claim[w].job)'
      BY DEF DoneHasEffect
    <2>1. CASE claim'[w] = claim[w]
      <3>1. claim[w].job \in JobId /\ Exists(claim[w].job)
        BY <2>1, Unfold DEF Claimed, Workers, Remembers
      <3>2. Landed(claim[w].job)
        BY <1>1, <2>1, <3>1 DEF DoneHasEffect, JobsStay
      <3>3. \A j : j = claim[w].job => Landed(j)'
        BY <1>1, <3>1, <3>2, LandedKept
      <3> QED BY <2>1, <3>3 DEF Landed
    <2>2. CASE UNCHANGED jobs /\ (Publishes(claim'[w].job) => Landed(claim[w].job)')
      BY <2>2 DEF Publishes
    <2> QED BY <2>1, <2>2 DEF ClaimsMove
  <1>3. CompletedHasEffect'
    <2> SUFFICES ASSUME NEW j \in JobId, jobs'[j].state = "completed", jobs'[j].owner = "ts",
                        jobs'[j].type \in {"snapshot", "restore"}
                 PROVE  Landed(j)'
      BY DEF CompletedHasEffect
    <2>1. CASE jobs'[j] = jobs[j]
      BY <1>1, <2>1, LandedKept DEF CompletedHasEffect, Exists
    <2>2. CASE SameJob(j, jobs'[j])
      <3>1. PICK w \in Loops : claim[w].phase = "done" /\ claim[w].job = j
        BY <2>2 DEF SameJob, Reported
      <3>2. Landed(j)
        BY <2>2, <3>1 DEF DoneHasEffect, SameJob
      <3> QED BY <1>1, <2>2, <3>2, LandedKept DEF SameJob
    <2>3. ~Inserts(j)
      BY DEF Inserts
    <2> QED BY <2>1, <2>2, <2>3 DEF RowMoves, AllKept, OneMoves, AllRevoked, Keeps, Renews, Revoked
  <1> QED BY <1>2, <1>3

-----------------------------------------------------------------------------
(* The invariant and what it implies *)

LEMMA InitService == Init => ServiceInv
  <1> SUFFICES ASSUME Init
               PROVE  ServiceInv
    OBVIOUS
  <1>1. \A j \in JobId : /\ jobs[j].state = "absent" /\ jobs[j].token = 0 /\ jobs[j].key = NoKey
    BY DEF Init, Absent
  <1>2. \A c \in Clients : request[c].stage = "idle" /\ request[c].seen = {}
    BY DEF Init, NoRequest
  <1>3. \A w \in Loops : claim[w].phase = "idle"
    BY DEF Init, NoClaim, Workers
  <1>4. IInv
    BY InitInv
  <1>5. TokensUnique /\ AbsentBlank /\ KeyNamesOneJob
    BY <1>1 DEF TokensUnique, AbsentBlank, KeyNamesOneJob
  <1>6. SeenExist /\ AcceptedIsServed
    BY <1>2 DEF SeenExist, AcceptedIsServed
  <1>7. DoneHasEffect /\ CompletedHasEffect
    BY <1>1, <1>3 DEF DoneHasEffect, CompletedHasEffect
  <1> QED BY <1>4, <1>5, <1>6, <1>7 DEF ServiceInv

LEMMA ServiceStep == ServiceInv /\ [Next]_vars => ServiceInv'
  <1> SUFFICES ASSUME ServiceInv, [Next]_vars
               PROVE  ServiceInv'
    OBVIOUS
  <1>1. IInv /\ IInv' /\ TypeInv /\ TypeInv' /\ CounterAhead
    <2>1. IInv /\ IInv'
      BY StepInv DEF ServiceInv
    <2> QED BY <2>1 DEF IInv, TypeInv
  <1>2. RowMoves /\ JobsStay
    BY <1>1, TableMoves, MovesStay
  <1>3. TokensUnique'
    BY <1>1, <1>2, TokensStep DEF ServiceInv
  <1>4. AbsentBlank' /\ KeyNamesOneJob'
    BY <1>2, KeysStep DEF ServiceInv
  <1>5. SeenExist' /\ AcceptedIsServed'
    <2>1. SeenExist /\ AcceptedIsServed
      BY DEF ServiceInv
    <2> QED BY <1>1, <1>2, <2>1, RequestsMove, AnswersStep
  <1>6. DoneHasEffect' /\ CompletedHasEffect'
    <2>1. DoneHasEffect /\ CompletedHasEffect
      BY DEF ServiceInv
    <2> QED BY <1>1, <1>2, <2>1, AllClaimsMove, EffectsStep
  <1> QED BY <1>1, <1>3, <1>4, <1>5, <1>6 DEF ServiceInv

\* The invariant behind the four promises: IInv, blank unused rows, rows that
\* stay while a statement waits with its snapshot, and loops that are done
\* only with published work.
THEOREM ServiceInvariant == Spec => []ServiceInv
  BY InitService, ServiceStep, PTL DEF Spec

\* No two jobs of a problem ever carry the same token, whoever assigned them
\* (acquireJob, acquire_dirty_snapshot_job_by_code, cancelJob,
\* failExpiredRunningJobs).
THEOREM TokensNeverShared == Spec => []TokensUnique
  <1>1. ServiceInv => TokensUnique
    BY DEF ServiceInv
  <1> QED BY <1>1, ServiceInvariant, PTL

\* An idempotency key names one job of a type for ever, although createJob
\* decides on a snapshot of the table taken before the lock.
THEOREM KeysNameJobs == Spec => []KeyNamesOneJob
  <1>1. ServiceInv => KeyNamesOneJob
    BY DEF ServiceInv
  <1> QED BY <1>1, ServiceInvariant, PTL

\* A request createJob or createRestoreJobIfMissing accepts has a job that
\* does what it asks.
THEOREM AcceptedAreServed == Spec => []AcceptedIsServed
  <1>1. ServiceInv => AcceptedIsServed
    BY DEF ServiceInv
  <1> QED BY <1>1, ServiceInvariant, PTL

\* A snapshot or restore job the control plane reports completed was
\* published, by its own operation or by the one it joined.
THEOREM CompletedWasPublished == Spec => []CompletedHasEffect
  <1>1. ServiceInv => CompletedHasEffect
    BY DEF ServiceInv
  <1> QED BY <1>1, ServiceInvariant, PTL
=============================================================================
