-------------------------- MODULE AutoSnapshotProofs --------------------------
(***************************************************************************)
(* Theorems about the backup of one problem (AutoSnapshot), for every      *)
(* number of schedulers, edits, generations, rows, requests and faults.    *)
(*                                                                         *)
(* Part 1 proves TypeCorrect and what it rests on: the rows of the jobs    *)
(* table.  Part 2 proves ReadyMovesForward and RoundsStayFresh.  Part 3    *)
(* proves NotificationsSurvive, the promise of the backup.                 *)
(***************************************************************************)
EXTENDS AutoSnapshot, FiniteSetTheorems, TLAPS

-----------------------------------------------------------------------------
(* Part 1: types *)

SnapStates == {"none", "active", "ready", "superseded", "error"}
RunPhases  == {"none", "start", "scanned", "waiting", "cleared", "landed", "failed", "broken"}
SchedPhases == {"idle", "picked", "allocate", "create", "payload"}

ProblemRow == [dirty : BOOLEAN, version : Nat \ {0}, gen : 0 .. MaxGen]
UsageRow == [gen : 0 .. MaxGen, failures : 0 .. Threshold,
             failed : {"never", "recent", "old"}, round : Nat]
SnapRow  == [state : SnapStates, content : 0 .. MaxEdits, integrity : BOOLEAN]
JobRow   == [key : Keys, gen : Gens, state : {"pending", "running", "completed", "failed"},
             payload : Nat, attempt : 1 .. MaxAttempts]
SchedRow == [phase : SchedPhases, version : Nat, gen : 0 .. MaxGen, key : Keys]
RunRow   == [who : {"none", "worker", "watcher"}, key : Keys, phase : RunPhases,
             gen : 0 .. MaxGen, version : Nat, content : 0 .. MaxEdits]
Upload   == [gen : Gens, version : Nat, content : 0 .. MaxEdits, fenced : BOOLEAN,
             by : {"worker", "watcher"}]

ActiveStates == {"pending", "running"}

\* The jobs table js, when the next generation is n: one active job at most
\* (idx_jobs_one_active_problem_job_type), keys name one row, the watcher's
\* keys are made of generations it took, and a pending job has an attempt left.
JobsSound(js, n) ==
  /\ js \in Seq(JobRow)
  /\ \A i, j \in DOMAIN js :
       js[i].state \in ActiveStates /\ js[j].state \in ActiveStates => i = j
  /\ \A i, j \in DOMAIN js : js[i].key = js[j].key => i = j
  /\ \A i \in DOMAIN js : js[i].key[1] = "watcher" => js[i].key[3] < n
  /\ \A i \in DOMAIN js : js[i].state = "pending" => js[i].attempt < MaxAttempts

\* A scheduler about to create a job builds a key the watcher never uses.
SchedSound ==
  /\ sched \in [Schedulers -> SchedRow]
  /\ \A s \in Schedulers :
       sched[s].phase \in {"allocate", "create"} => sched[s].key[1] # "watcher"
  /\ \A s \in Schedulers : sched[s].phase \in {"picked", "create"} => sched[s].gen \in Gens

\* Whoever holds a lease holds that of the running job.
RunSound(r, js) ==
  /\ r \in RunRow
  /\ r # NoRun => /\ r.who # "none" /\ r.phase # "none"
                  /\ \E i \in DOMAIN js :
                       js[i].state = "running" /\ js[i].key = r.key /\ js[i].gen = r.gen

Typed ==
  /\ disk \in 0 .. MaxEdits /\ event \in BOOLEAN /\ missed \in BOOLEAN
  /\ problem \in ProblemRow /\ (problem.dirty <=> problem.gen # 0)
  /\ nextGen \in 1 .. MaxGen + 1
  /\ usage \in UsageRow /\ (Rounds # 0 => usage.round < Rounds)
  /\ snaps \in [Gens -> SnapRow]
  /\ JobsSound(jobs, nextGen) /\ SchedSound /\ RunSound(run, jobs)
  /\ watcher \in [busy : BOOLEAN, content : 0 .. MaxEdits]
  /\ uploads \subseteq Upload
  /\ notified \in 0 .. MaxEdits
  /\ requests \in Nat

\* The lemmas about sequences that the table's proofs need: a function on
\* 1 .. n is a sequence, and what Append and Tail do to the elements.
LEMMA FunctionIsSeq ==
  ASSUME NEW S, NEW n \in Nat, NEW f \in [1 .. n -> S]
  PROVE  f \in Seq(S) /\ Len(f) = n /\ DOMAIN f = 1 .. n
  OBVIOUS

LEMMA SeqFacts ==
  ASSUME NEW S, NEW q \in Seq(S)
  PROVE  /\ Len(q) \in Nat /\ DOMAIN q = 1 .. Len(q)
         /\ \A i \in DOMAIN q : q[i] \in S
  OBVIOUS

LEMMA AppendFacts ==
  ASSUME NEW S, NEW q \in Seq(S), NEW x \in S
  PROVE  /\ Append(q, x) \in Seq(S)
         /\ DOMAIN Append(q, x) = 1 .. Len(q) + 1
         /\ \A i \in DOMAIN q : Append(q, x)[i] = q[i]
         /\ Append(q, x)[Len(q) + 1] = x
  OBVIOUS

LEMMA TailFacts ==
  ASSUME NEW S, NEW q \in Seq(S), q # <<>>
  PROVE  /\ Tail(q) \in Seq(S)
         /\ DOMAIN Tail(q) = 1 .. Len(q) - 1
         /\ \A i \in DOMAIN Tail(q) : i + 1 \in DOMAIN q /\ Tail(q)[i] = q[i + 1]
         /\ Len(q) >= 1 /\ Head(q) = q[1]
  OBVIOUS

\* ks updates rows of js: their key and generation stay, no job becomes
\* active, and a pending one has an attempt left.
Updates(js, ks) ==
  /\ ks \in [DOMAIN js -> JobRow]
  /\ \A i \in DOMAIN js :
       /\ ks[i].key = js[i].key /\ ks[i].gen = js[i].gen
       /\ ks[i].state \in ActiveStates => js[i].state \in ActiveStates
       /\ ks[i].state = "pending" => ks[i].attempt < MaxAttempts

LEMMA UpdatedJobs ==
  ASSUME NEW js, NEW ks, NEW n, JobsSound(js, n), Updates(js, ks)
  PROVE  JobsSound(ks, n) /\ DOMAIN ks = DOMAIN js
  <1>1. js \in Seq(JobRow) BY DEF JobsSound
  <1>2. Len(js) \in Nat /\ DOMAIN js = 1 .. Len(js)
    BY <1>1, SeqFacts
  <1>3. ks \in [1 .. Len(js) -> JobRow]
    BY <1>2 DEF Updates
  <1>4. ks \in Seq(JobRow) /\ DOMAIN ks = DOMAIN js
    BY <1>2, <1>3, FunctionIsSeq
  <1> QED BY <1>4 DEF JobsSound, Updates

\* A row inserted when no job is active and its key is new.
LEMMA InsertedJob ==
  ASSUME NEW js, NEW n \in Nat, JobsSound(js, n), NEW r \in JobRow,
         \A i \in DOMAIN js : js[i].state \notin ActiveStates,
         \A i \in DOMAIN js : js[i].key # r.key,
         r.key[1] = "watcher" => r.key[3] < n,
         r.state = "pending" => r.attempt < MaxAttempts
  PROVE  /\ JobsSound(Append(js, r), n)
         /\ Append(js, r)[Len(js) + 1] = r /\ Len(js) + 1 \in DOMAIN Append(js, r)
         /\ \A i \in DOMAIN js : i \in DOMAIN Append(js, r) /\ Append(js, r)[i] = js[i]
  <1> DEFINE ks == Append(js, r)
  <1>1. js \in Seq(JobRow) BY DEF JobsSound
  <1>2. Len(js) \in Nat /\ DOMAIN js = 1 .. Len(js)
    BY <1>1, SeqFacts
  <1>3. /\ ks \in Seq(JobRow) /\ DOMAIN ks = 1 .. Len(js) + 1
        /\ \A i \in DOMAIN js : ks[i] = js[i]
        /\ ks[Len(js) + 1] = r
    BY <1>1, AppendFacts
  <1> HIDE DEF ks
  <1>4. \A i \in DOMAIN ks : i \in DOMAIN js \/ i = Len(js) + 1
    BY <1>2, <1>3
  <1>5. \A i \in DOMAIN js : i \in DOMAIN ks /\ i # Len(js) + 1
    BY <1>2, <1>3
  <1>6. Len(js) + 1 \in DOMAIN ks
    BY <1>2, <1>3
  <1>7. ASSUME NEW i \in DOMAIN ks, NEW j \in DOMAIN ks,
               \/ ks[i].state \in ActiveStates /\ ks[j].state \in ActiveStates
               \/ ks[i].key = ks[j].key
        PROVE  i = j
    BY <1>3, <1>4, <1>7 DEF JobsSound
  <1>8. ASSUME NEW i \in DOMAIN ks
        PROVE  /\ ks[i].key[1] = "watcher" => ks[i].key[3] < n
               /\ ks[i].state = "pending" => ks[i].attempt < MaxAttempts
    BY <1>3, <1>4 DEF JobsSound
  <1>9. JobsSound(ks, n)
    BY <1>3, <1>7, <1>8 DEF JobsSound
  <1> QED BY <1>3, <1>5, <1>6, <1>9 DEF ks

\* A purge of the oldest row.
LEMMA PurgedJob ==
  ASSUME NEW js, NEW n, JobsSound(js, n), js # <<>>
  PROVE  /\ JobsSound(Tail(js), n) /\ Head(js) = js[1]
         /\ \A i \in DOMAIN Tail(js) : i + 1 \in DOMAIN js /\ Tail(js)[i] = js[i + 1]
         /\ \A i \in DOMAIN js : i = 1 \/ (i - 1 \in DOMAIN Tail(js) /\ Tail(js)[i - 1] = js[i])
  <1> DEFINE ks == Tail(js)
  <1>1. js \in Seq(JobRow) BY DEF JobsSound
  <1>2. Len(js) \in Nat /\ DOMAIN js = 1 .. Len(js)
    BY <1>1, SeqFacts
  <1>3. /\ ks \in Seq(JobRow) /\ DOMAIN ks = 1 .. Len(js) - 1
        /\ \A i \in DOMAIN ks : i + 1 \in DOMAIN js /\ ks[i] = js[i + 1]
        /\ Len(js) >= 1 /\ Head(js) = js[1]
    BY <1>1, TailFacts
  <1> HIDE DEF ks
  <1>4. ASSUME NEW i \in DOMAIN js, i # 1
        PROVE  i - 1 \in DOMAIN ks /\ ks[i - 1] = js[i]
    <2>1. i - 1 \in DOMAIN ks BY <1>2, <1>3, <1>4
    <2>2. (i - 1) + 1 = i BY <1>2
    <2> QED BY <1>3, <2>1, <2>2
  <1>5. ASSUME NEW i \in DOMAIN ks, NEW j \in DOMAIN ks,
               \/ ks[i].state \in ActiveStates /\ ks[j].state \in ActiveStates
               \/ ks[i].key = ks[j].key
        PROVE  i = j
    <2>1. i \in Nat /\ j \in Nat BY <1>2, <1>3
    <2>2. i + 1 = j + 1 BY <1>3, <1>5 DEF JobsSound
    <2> QED BY <2>1, <2>2
  <1>6. JobsSound(ks, n)
    BY <1>3, <1>5 DEF JobsSound
  <1> QED BY <1>3, <1>4, <1>6 DEF ks

\* Time only adds generations.
LEMMA LaterJobs ==
  ASSUME NEW js, NEW n \in Nat, NEW m \in Nat, n <= m, JobsSound(js, n)
  PROVE  JobsSound(js, m)
  <1>1. ASSUME NEW i \in DOMAIN js, js[i].key[1] = "watcher"
        PROVE  js[i].key[3] < m
    <2>1. js[i] \in JobRow BY SeqFacts DEF JobsSound
    <2>2. js[i].key \in Keys BY <2>1 DEF JobRow
    <2>3. js[i].key[3] \in Nat BY <2>2 DEF Keys
    <2>4. js[i].key[3] < n BY <1>1 DEF JobsSound
    <2> QED BY <2>3, <2>4
  <1> QED BY <1>1 DEF JobsSound

\* The pieces of the state that actions update.
LEMMA UsageRowUpdate ==
  ASSUME NEW u \in UsageRow, NEW f \in 0 .. Threshold, NEW d \in {"never", "recent", "old"}
  PROVE  /\ [u EXCEPT !.failures = f, !.failed = d] \in UsageRow
         /\ [u EXCEPT !.failures = f, !.failed = d].gen = u.gen
         /\ [u EXCEPT !.failures = f, !.failed = d].round = u.round
  <1> DEFINE w == [u EXCEPT !.failures = f]
             v == [w EXCEPT !.failed = d]
  <1>1. w \in UsageRow /\ w.gen = u.gen /\ w.round = u.round
    BY DEF UsageRow
  <1> HIDE DEF w
  <1>2. v \in UsageRow /\ v.gen = u.gen /\ v.round = u.round
    BY <1>1 DEF UsageRow
  <1> QED BY <1>2 DEF w

LEMMA UsageUpdates ==
  ASSUME Typed, NEW st, NEW pm \in BOOLEAN
  PROVE  /\ Outcome(usage, st, pm) \in UsageRow
         /\ Rounds # 0 => Outcome(usage, st, pm).round < Rounds
         /\ Outcome(usage, st, pm).round = NextRound(usage.round)
         /\ Outcome(usage, st, pm).gen = usage.gen
         /\ Unparked(usage) \in UsageRow /\ Unparked(usage).round = usage.round
         /\ Unparked(usage).gen = usage.gen
  <1> USE BackupAssumption
  <1>1. usage \in UsageRow /\ (Rounds # 0 => usage.round < Rounds)
    BY DEF Typed
  <1>2. NextRound(usage.round) \in Nat /\ (Rounds # 0 => NextRound(usage.round) < Rounds)
    BY <1>1 DEF NextRound, UsageRow
  <1> DEFINE u == [usage EXCEPT !.round = NextRound(@)]
             f == IF pm THEN IF usage.failures < Threshold THEN usage.failures + 1
                             ELSE usage.failures
                  ELSE IF st = "completed" THEN 0 ELSE usage.failures
             d == IF pm THEN "recent"
                  ELSE IF st = "completed" THEN "never" ELSE usage.failed
  <1>3. /\ u \in UsageRow /\ u.gen = usage.gen /\ u.round = NextRound(usage.round)
        /\ u.failures = usage.failures /\ u.failed = usage.failed
    BY <1>1, <1>2 DEF UsageRow
  <1>4. f \in 0 .. Threshold /\ d \in {"never", "recent", "old"}
    BY <1>1 DEF UsageRow
  <1>5. Outcome(usage, st, pm) = [u EXCEPT !.failures = f, !.failed = d]
    BY <1>3 DEF Outcome
  <1>6. /\ Outcome(usage, st, pm) \in UsageRow /\ Outcome(usage, st, pm).gen = usage.gen
        /\ Outcome(usage, st, pm).round = NextRound(usage.round)
    <2> HIDE DEF u, f, d
    <2>1. /\ [u EXCEPT !.failures = f, !.failed = d] \in UsageRow
          /\ [u EXCEPT !.failures = f, !.failed = d].gen = u.gen
          /\ [u EXCEPT !.failures = f, !.failed = d].round = u.round
      BY <1>3, <1>4, UsageRowUpdate
    <2> QED BY <1>3, <1>5, <2>1, Zenon
  <1>7. /\ Unparked(usage) \in UsageRow /\ Unparked(usage).round = usage.round
        /\ Unparked(usage).gen = usage.gen
    <2>1. 0 \in 0 .. Threshold OBVIOUS
    <2>2. /\ [usage EXCEPT !.failures = 0, !.failed = "never"] \in UsageRow
          /\ [usage EXCEPT !.failures = 0, !.failed = "never"].gen = usage.gen
          /\ [usage EXCEPT !.failures = 0, !.failed = "never"].round = usage.round
      BY <1>1, <2>1, UsageRowUpdate
    <2> QED BY <2>2 DEF Unparked
  <1> QED BY <1>2, <1>6, <1>7

\* Clearing withdraws the mark, and its generation with it.
LEMMA ClearedRow ==
  ASSUME Typed, NEW g, NEW v
  PROVE  /\ Cleared(problem, g, v) \in ProblemRow
         /\ Cleared(problem, g, v).dirty <=> Cleared(problem, g, v).gen # 0
         /\ Cleared(problem, g, v).version = problem.version
         /\ \/ Cleared(problem, g, v) = problem
            \/ /\ ~Cleared(problem, g, v).dirty /\ Cleared(problem, g, v).gen = 0
               /\ problem.dirty /\ problem.gen <= g
  <1> USE BackupAssumption
  <1> DEFINE p == [problem EXCEPT !.dirty = FALSE]
             q == [p EXCEPT !.gen = 0]
  <1>1. problem \in ProblemRow /\ (problem.dirty <=> problem.gen # 0)
    BY DEF Typed
  <1>2. p \in ProblemRow /\ ~p.dirty /\ p.version = problem.version
    BY <1>1 DEF ProblemRow
  <1>3. q \in ProblemRow /\ ~q.dirty /\ q.gen = 0 /\ q.version = problem.version
    <2> HIDE DEF p
    <2> QED BY <1>2 DEF ProblemRow
  <1>4. CASE v # 0 /\ problem.dirty /\ problem.gen <= g /\ problem.version = v
    <2>1. Cleared(problem, g, v) = q BY <1>4 DEF Cleared
    <2> HIDE DEF q
    <2> QED BY <1>3, <1>4, <2>1
  <1>5. CASE ~(v # 0 /\ problem.dirty /\ problem.gen <= g /\ problem.version = v)
    <2>1. Cleared(problem, g, v) = problem BY <1>5 DEF Cleared
    <2> QED BY <1>1, <2>1
  <1> QED BY <1>4, <1>5

LEMMA FencedUploads ==
  ASSUME Typed
  PROVE  Fenced \subseteq Upload /\ \A u \in Fenced : u.fenced
  <1> SUFFICES ASSUME NEW u \in Fenced PROVE u \in Upload /\ u.fenced
    OBVIOUS
  <1>1. PICK v \in uploads : u = [v EXCEPT !.fenced = TRUE]
    BY DEF Fenced
  <1>2. v \in Upload BY DEF Typed
  <1> QED BY <1>1, <1>2 DEF Upload

LEMMA RowOfKey ==
  ASSUME Typed, NEW i \in DOMAIN jobs
  PROVE  Row(jobs[i].key) = i
  <1>1. \A j \in DOMAIN jobs : jobs[j].key = jobs[i].key => j = i
    BY DEF Typed, JobsSound
  <1> QED BY <1>1 DEF Row

LEMMA JobTypes ==
  ASSUME Typed, NEW i \in DOMAIN jobs
  PROVE  /\ jobs[i] \in JobRow /\ jobs[i].key \in Keys /\ jobs[i].gen \in Gens
         /\ jobs[i].payload \in Nat /\ jobs[i].attempt \in 1 .. MaxAttempts
  <1>1. jobs[i] \in JobRow BY SeqFacts DEF Typed, JobsSound
  <1> QED BY <1>1 DEF JobRow

LEMMA SnapTypes ==
  ASSUME NEW st \in SnapStates
  PROVE  /\ Snap(st) \in SnapRow /\ Snap(st).state = st
         /\ \A c \in 0 .. MaxEdits : /\ [Snap(st) EXCEPT !.content = c] \in SnapRow
                                     /\ [Snap(st) EXCEPT !.content = c].state = st
                                     /\ [Snap(st) EXCEPT !.content = c].content = c
         /\ \A b \in BOOLEAN : /\ [Snap(st) EXCEPT !.integrity = b] \in SnapRow
                               /\ [Snap(st) EXCEPT !.integrity = b].state = st
  <1>1. 0 \in 0 .. MaxEdits BY BackupAssumption
  <1>2. Snap(st) \in SnapRow /\ Snap(st).state = st
    BY <1>1 DEF Snap, SnapRow
  <1>3. ASSUME NEW c \in 0 .. MaxEdits
        PROVE  /\ [Snap(st) EXCEPT !.content = c] \in SnapRow
               /\ [Snap(st) EXCEPT !.content = c].state = st
               /\ [Snap(st) EXCEPT !.content = c].content = c
    BY <1>2 DEF SnapRow
  <1>4. ASSUME NEW b \in BOOLEAN
        PROVE  /\ [Snap(st) EXCEPT !.integrity = b] \in SnapRow
               /\ [Snap(st) EXCEPT !.integrity = b].state = st
    BY <1>2 DEF SnapRow
  <1> QED BY <1>2, <1>3, <1>4

\* The row that a job's end or a new lease changes.
LEMMA RowUpdated ==
  ASSUME Typed, NEW i \in DOMAIN jobs, NEW r \in JobRow,
         r.key = jobs[i].key, r.gen = jobs[i].gen,
         r.state \in ActiveStates => jobs[i].state \in ActiveStates,
         r.state = "pending" => r.attempt < MaxAttempts
  PROVE  /\ JobsSound([jobs EXCEPT ![i] = r], nextGen)
         /\ DOMAIN [jobs EXCEPT ![i] = r] = DOMAIN jobs
         /\ [jobs EXCEPT ![i] = r][i] = r
         /\ \A j \in DOMAIN jobs : j # i => [jobs EXCEPT ![i] = r][j] = jobs[j]
  <1> DEFINE ks == [jobs EXCEPT ![i] = r]
  <1>1. jobs = [j \in DOMAIN jobs |-> jobs[j]]
    <2>1. jobs \in Seq(JobRow) BY DEF Typed, JobsSound
    <2> QED BY <2>1
  <1>2. DOMAIN ks = DOMAIN jobs /\ ks[i] = r /\ \A j \in DOMAIN jobs : j # i => ks[j] = jobs[j]
    BY <1>1
  <1>3. ks \in [DOMAIN jobs -> JobRow]
    BY <1>1, <1>2, JobTypes
  <1>4. \A j \in DOMAIN jobs : jobs[j].state = "pending" => jobs[j].attempt < MaxAttempts
    BY DEF Typed, JobsSound
  <1>5. Updates(jobs, ks)
    <2> HIDE DEF ks
    <2> QED BY <1>2, <1>3, <1>4 DEF Updates
  <1>6. JobsSound(jobs, nextGen) BY DEF Typed
  <1>7. JobsSound(ks, nextGen)
    <2> HIDE DEF ks
    <2> QED BY <1>5, <1>6, UpdatedJobs
  <1> QED BY <1>2, <1>7

\* Two fields of one row, set one after the other.
LEMMA AttemptSet ==
  ASSUME Typed, NEW i \in DOMAIN jobs, NEW st, NEW a
  PROVE  [jobs EXCEPT ![i].state = st, ![i].attempt = a] =
              [jobs EXCEPT ![i] = [key |-> jobs[i].key, gen |-> jobs[i].gen, state |-> st,
                                   payload |-> jobs[i].payload, attempt |-> a]]
  <1> DEFINE r == [jobs[i] EXCEPT !.state = st]
             q == [r EXCEPT !.attempt = a]
             ks == [jobs EXCEPT ![i] = r]
  <1>1. ks[i] = r /\ DOMAIN ks = DOMAIN jobs
    <2>1. jobs \in Seq(JobRow) BY DEF Typed, JobsSound
    <2> QED BY <2>1
  <1>2. jobs[i] \in JobRow BY JobTypes
  <1>3. r = [key |-> jobs[i].key, gen |-> jobs[i].gen, state |-> st,
             payload |-> jobs[i].payload, attempt |-> jobs[i].attempt]
    BY <1>2 DEF JobRow
  <1> HIDE DEF r
  <1>4. q = [key |-> jobs[i].key, gen |-> jobs[i].gen, state |-> st,
             payload |-> jobs[i].payload, attempt |-> a]
    BY <1>3
  <1>5. [ks EXCEPT ![i] = q] = [jobs EXCEPT ![i] = q]
    <2> HIDE DEF q
    <2> QED OBVIOUS
  <1>6. [ks EXCEPT ![i].attempt = a] = [ks EXCEPT ![i] = q]
    <2> HIDE DEF ks
    <2> QED BY <1>1
  <1> QED BY <1>4, <1>5, <1>6 DEF ks, r

LEMMA PayloadSet ==
  ASSUME Typed, NEW i \in DOMAIN jobs, NEW st, NEW a
  PROVE  [jobs EXCEPT ![i].state = st, ![i].payload = a] =
              [jobs EXCEPT ![i] = [key |-> jobs[i].key, gen |-> jobs[i].gen, state |-> st,
                                   payload |-> a, attempt |-> jobs[i].attempt]]
  <1> DEFINE r == [jobs[i] EXCEPT !.state = st]
             q == [r EXCEPT !.payload = a]
             ks == [jobs EXCEPT ![i] = r]
  <1>1. ks[i] = r /\ DOMAIN ks = DOMAIN jobs
    <2>1. jobs \in Seq(JobRow) BY DEF Typed, JobsSound
    <2> QED BY <2>1
  <1>2. jobs[i] \in JobRow BY JobTypes
  <1>3. r = [key |-> jobs[i].key, gen |-> jobs[i].gen, state |-> st,
             payload |-> jobs[i].payload, attempt |-> jobs[i].attempt]
    BY <1>2 DEF JobRow
  <1> HIDE DEF r
  <1>4. q = [key |-> jobs[i].key, gen |-> jobs[i].gen, state |-> st,
             payload |-> a, attempt |-> jobs[i].attempt]
    BY <1>3
  <1>5. [ks EXCEPT ![i] = q] = [jobs EXCEPT ![i] = q]
    <2> HIDE DEF q
    <2> QED OBVIOUS
  <1>6. [ks EXCEPT ![i].payload = a] = [ks EXCEPT ![i] = q]
    <2> HIDE DEF ks
    <2> QED BY <1>1
  <1> QED BY <1>4, <1>5, <1>6 DEF ks, r

\* Without an active job nobody holds a lease.
LEMMA LeaseNeedsActive ==
  ASSUME Typed, \A i \in DOMAIN jobs : jobs[i].state # "running"
  PROVE  run = NoRun
  BY DEF Typed, RunSound

\* The lease's holder moves on; the job and its lease stay.
LEMMA RunMoves ==
  ASSUME Typed, run # NoRun, NEW ph \in RunPhases \ {"none"}, NEW c \in 0 .. MaxEdits
  PROVE  /\ RunSound([run EXCEPT !.phase = ph], jobs)
         /\ RunSound([run EXCEPT !.phase = ph, !.content = c], jobs)
  <1> DEFINE r == [run EXCEPT !.phase = ph]
             t == [r EXCEPT !.content = c]
  <1>1. run \in RunRow /\ run.who # "none" BY DEF Typed, RunSound
  <1>2. r \in RunRow /\ r.who = run.who /\ r.key = run.key /\ r.gen = run.gen /\ r.phase # "none"
    BY <1>1 DEF RunRow
  <1>3. t \in RunRow /\ t.who = run.who /\ t.key = run.key /\ t.gen = run.gen /\ t.phase # "none"
    <2> HIDE DEF r
    <2> QED BY <1>2 DEF RunRow
  <1>4. \E i \in DOMAIN jobs :
          jobs[i].state = "running" /\ jobs[i].key = run.key /\ jobs[i].gen = run.gen
    BY DEF Typed, RunSound
  <1>5. RunSound(r, jobs)
    <2> HIDE DEF r
    <2> QED BY <1>1, <1>2, <1>4 DEF RunSound
  <1>6. RunSound(t, jobs)
    <2> HIDE DEF t
    <2> QED BY <1>1, <1>3, <1>4 DEF RunSound
  <1> QED BY <1>5, <1>6

LEMMA NoRunSound ==
  ASSUME NEW js
  PROVE  RunSound(NoRun, js)
  BY BackupAssumption DEF RunSound, NoRun, RunRow, RunPhases, Keys

LEMMA RunTypes ==
  ASSUME Typed, run # NoRun
  PROVE  /\ run \in RunRow /\ run.gen \in Gens /\ run.version \in Nat
         /\ run.content \in 0 .. MaxEdits /\ run.who \in {"worker", "watcher"}
         /\ run.key \in Keys /\ Row(run.key) \in DOMAIN jobs
         /\ jobs[Row(run.key)].state = "running" /\ jobs[Row(run.key)].gen = run.gen
         /\ jobs[Row(run.key)].key = run.key
  <1>1. /\ run \in RunRow /\ run.who # "none"
        /\ \E i \in DOMAIN jobs :
             jobs[i].state = "running" /\ jobs[i].key = run.key /\ jobs[i].gen = run.gen
    BY DEF Typed, RunSound
  <1>2. PICK i \in DOMAIN jobs :
          jobs[i].state = "running" /\ jobs[i].key = run.key /\ jobs[i].gen = run.gen
    BY <1>1
  <1>3. Row(run.key) = i
    BY <1>2, RowOfKey
  <1>4. run.gen \in Gens BY <1>2, JobTypes
  <1> QED BY <1>1, <1>2, <1>3, <1>4 DEF RunRow

\* A phase other than "none" is that of a lease.
LEMMA LeaseHeld ==
  ASSUME run.phase # "none" \/ run.who # "none"
  PROVE  run # NoRun
  BY DEF NoRun

LEMMA MaxAttemptsIs == MaxAttempts = 3
  BY DEF MaxAttempts

LEMMA IdleTyped ==
  /\ Idle \in SchedRow /\ Idle.phase = "idle"
  BY BackupAssumption DEF Idle, SchedRow, SchedPhases, Keys

\* A scheduler's row is replaced.
LEMMA SchedReplaced ==
  ASSUME SchedSound, NEW s \in Schedulers, NEW r \in SchedRow,
         r.phase \in {"allocate", "create"} => r.key[1] # "watcher",
         r.phase \in {"picked", "create"} => r.gen \in Gens,
         sched' = [sched EXCEPT ![s] = r]
  PROVE  SchedSound'
  BY DEF SchedSound

\* Scheduling: the scheduler's memory, the dirty mark, the counter.
LEMMA TypeScheduling ==
  ASSUME Typed, NEW s \in Schedulers,
         \/ NotifyDirty(s) \/ ScheduleAgain(s) \/ ScheduleBatch(s) \/ RequestSnapshot(s)
         \/ BackfillSnapshot(s) \/ ReadRound(s) \/ AllocateGeneration(s) \/ WritePayload(s)
         \/ CreateSnapshotJob(s)
  PROVE  Typed'
  <1> USE BackupAssumption
  <1>0. /\ problem \in ProblemRow /\ problem.version \in Nat \ {0} /\ problem.gen \in 0 .. MaxGen
        /\ problem.dirty \in BOOLEAN /\ (problem.dirty <=> problem.gen # 0)
        /\ nextGen \in 1 .. MaxGen + 1 /\ usage \in UsageRow /\ usage.round \in Nat
        /\ requests \in Nat
        /\ JobsSound(jobs, nextGen) /\ SchedSound /\ RunSound(run, jobs)
    BY DEF Typed, ProblemRow, UsageRow
  <1>p. ASSUME NEW p \in ProblemRow, p.gen # 0, Pick(s, p)
        PROVE  SchedSound'
    <2> DEFINE r == [phase |-> "picked", version |-> p.version, gen |-> p.gen,
                     key |-> <<"none", 0, 0>>]
    <2>1. r \in SchedRow /\ r.phase = "picked" /\ r.gen \in Gens
      BY <1>p DEF ProblemRow, SchedRow, SchedPhases, Keys, Gens
    <2>2. sched' = [sched EXCEPT ![s] = r] BY <1>p DEF Pick
    <2> HIDE DEF r
    <2> QED BY <1>0, <2>1, <2>2, SchedReplaced
  <1>j. ASSUME nextGen' \in 1 .. MaxGen + 1, nextGen <= nextGen', UNCHANGED <<jobs, run>>
        PROVE  JobsSound(jobs, nextGen)' /\ RunSound(run, jobs)'
    <2>1. JobsSound(jobs, nextGen')
      BY <1>0, <1>j, LaterJobs
    <2> QED BY <1>0, <1>j, <2>1 DEF JobsSound, RunSound
  <1>1. CASE NotifyDirty(s)
    <2>1. problem' \in ProblemRow /\ problem'.dirty /\ problem'.gen # 0
      BY <1>0, <1>1 DEF NotifyDirty, ProblemRow
    <2>2. SchedSound' BY <1>p, <1>1, <2>1 DEF NotifyDirty
    <2>3. usage' \in UsageRow /\ usage'.round = usage.round
      BY <1>1, UsageUpdates DEF NotifyDirty
    <2>4. JobsSound(jobs, nextGen)' /\ RunSound(run, jobs)'
      BY <1>0, <1>j, <1>1 DEF NotifyDirty
    <2> QED BY <1>0, <1>1, <2>1, <2>2, <2>3, <2>4 DEF NotifyDirty, Typed, spent
  <1>2. CASE ScheduleAgain(s)
    <2>1. SchedSound' BY <1>0, <1>p, <1>2 DEF ScheduleAgain
    <2> QED BY <1>2, <2>1 DEF ScheduleAgain, Typed, spent, rows
  <1>3. CASE ScheduleBatch(s)
    <2>1. /\ problem' \in ProblemRow /\ problem'.dirty /\ problem'.gen # 0
          /\ nextGen' \in 1 .. MaxGen + 1 /\ nextGen <= nextGen'
      <3>1. CASE problem.dirty
        <4>1. UNCHANGED <<problem, nextGen>>
          BY <1>3, <3>1 DEF ScheduleBatch, MarkDirtyIfNoReady
        <4>2. problem' = problem /\ nextGen' = nextGen BY <4>1
        <4>3. problem'.dirty /\ problem'.gen # 0 BY <1>0, <3>1, <4>2
        <4>4. problem' \in ProblemRow BY <1>0, <4>2
        <4>5. nextGen' \in 1 .. MaxGen + 1 /\ nextGen <= nextGen' BY <1>0, <4>2
        <4> QED BY <4>3, <4>4, <4>5
      <3>2. CASE ~problem.dirty
        <4>1. /\ nextGen <= MaxGen /\ nextGen' = nextGen + 1
              /\ problem' = [problem EXCEPT !.dirty = TRUE, !.gen = nextGen]
          BY <1>3, <3>2 DEF ScheduleBatch, MarkDirtyIfNoReady
        <4>2. problem' = [dirty |-> TRUE, version |-> problem.version, gen |-> nextGen]
          BY <1>0, <4>1 DEF ProblemRow
        <4>3. nextGen \in 0 .. MaxGen /\ nextGen # 0 BY <1>0, <4>1
        <4>4. problem' \in ProblemRow BY <1>0, <4>2, <4>3 DEF ProblemRow
        <4>5. problem'.dirty /\ problem'.gen # 0 BY <4>2, <4>3
        <4>6. nextGen' \in 1 .. MaxGen + 1 /\ nextGen <= nextGen' BY <1>0, <4>1
        <4> QED BY <4>4, <4>5, <4>6
      <3> QED BY <3>1, <3>2
    <2>2. SchedSound' BY <1>p, <1>3, <2>1 DEF ScheduleBatch
    <2>3. JobsSound(jobs, nextGen)' /\ RunSound(run, jobs)'
      BY <1>j, <1>3, <2>1 DEF ScheduleBatch
    <2> QED BY <1>3, <2>1, <2>2, <2>3 DEF ScheduleBatch, Typed, spent
  <1>4. CASE RequestSnapshot(s)
    <2>1. PICK g \in NamedGens \cup {problem.gen} :
            sched' = [sched EXCEPT ![s] =
              [phase |-> IF g = 0 THEN "allocate" ELSE "create",
               version |-> problem.version, gen |-> g, key |-> <<"manual", 0, requests'>>]]
      BY <1>4 DEF RequestSnapshot
    <2>2. g \in 0 .. MaxGen /\ requests' \in Nat
      BY <1>0, <1>4 DEF RequestSnapshot, Gens
    <2> DEFINE r == [phase |-> IF g = 0 THEN "allocate" ELSE "create",
                     version |-> problem.version, gen |-> g, key |-> <<"manual", 0, requests'>>]
    <2>3. r \in SchedRow /\ r.key[1] # "watcher" /\ r.phase # "picked"
          /\ (r.phase = "create" => r.gen \in Gens)
      BY <1>0, <2>2 DEF SchedRow, SchedPhases, Keys, Gens
    <2>4. SchedSound'
      <3> HIDE DEF r
      <3> QED BY <1>0, <2>1, <2>3, SchedReplaced DEF r
    <2> QED BY <1>4, <2>2, <2>4 DEF RequestSnapshot, Typed, rows
  <1>5. CASE BackfillSnapshot(s)
    <2> DEFINE r == [phase |-> "allocate", version |-> 0, gen |-> 0,
                     key |-> <<"backfill", 0, requests'>>]
    <2>1. requests' \in Nat /\ sched' = [sched EXCEPT ![s] = r]
      BY <1>0, <1>5 DEF BackfillSnapshot
    <2>2. r \in SchedRow /\ r.key[1] # "watcher" /\ r.phase = "allocate"
      BY <2>1 DEF SchedRow, SchedPhases, Keys
    <2>3. SchedSound'
      <3> HIDE DEF r
      <3> QED BY <1>0, <2>1, <2>2, SchedReplaced
    <2> QED BY <1>5, <2>1, <2>3 DEF BackfillSnapshot, Typed, rows
  <1>6. CASE ReadRound(s)
    <2>1. SchedSound'
      <3>1. CASE Parked
        <4>1. sched' = [sched EXCEPT ![s] = Idle] BY <1>6, <3>1 DEF ReadRound
        <4> QED BY <1>0, <4>1, IdleTyped, SchedReplaced
      <3>2. CASE ~Parked
        <4> DEFINE k == <<"auto", sched[s].version, usage.round>>
        <4>1. sched[s] \in SchedRow /\ sched[s].gen \in Gens
          BY <1>0, <1>6 DEF ReadRound, SchedSound
        <4>2. k \in Keys /\ k[1] # "watcher"
          BY <1>0, <4>1 DEF Keys, SchedRow
        <4>3. sched' = [sched EXCEPT ![s].phase = "create", ![s].key = k]
          BY <1>6, <3>2 DEF ReadRound
        <4> HIDE DEF k
        <4> QED BY <1>0, <4>1, <4>2, <4>3 DEF SchedSound, SchedRow, SchedPhases
      <3> QED BY <3>1, <3>2
    <2> QED BY <1>6, <2>1 DEF ReadRound, Typed, rows, spent
  <1>7. CASE AllocateGeneration(s)
    <2>1. SchedSound'
      <3>1. nextGen \in Gens /\ sched' = [sched EXCEPT ![s].phase = "create", ![s].gen = nextGen]
        BY <1>0, <1>7 DEF AllocateGeneration, Gens
      <3>2. sched[s] \in SchedRow /\ sched[s].key[1] # "watcher" /\ nextGen \in 0 .. MaxGen
        BY <1>0, <1>7, <3>1 DEF AllocateGeneration, SchedSound, Gens
      <3> QED BY <1>0, <3>1, <3>2 DEF SchedSound, SchedRow, SchedPhases
    <2>2. nextGen' \in 1 .. MaxGen + 1 /\ nextGen <= nextGen'
      BY <1>0, <1>7 DEF AllocateGeneration
    <2>3. JobsSound(jobs, nextGen)' /\ RunSound(run, jobs)'
      BY <1>j, <1>7, <2>2 DEF AllocateGeneration
    <2> QED BY <1>7, <2>1, <2>2, <2>3 DEF AllocateGeneration, Typed, spent
  <1>8. CASE WritePayload(s)
    <2>1. SchedSound'
      <3>1. sched' = [sched EXCEPT ![s] = Idle] BY <1>8 DEF WritePayload
      <3> QED BY <1>0, <3>1, IdleTyped, SchedReplaced
    <2>2. sched[s].version \in Nat
      BY <1>0 DEF SchedSound, SchedRow
    <2>3. DOMAIN jobs' = DOMAIN jobs /\ jobs' = [i \in DOMAIN jobs |-> jobs'[i]]
      BY <1>8 DEF WritePayload
    <2>4. ASSUME NEW i \in DOMAIN jobs
          PROVE  /\ jobs'[i] \in JobRow /\ jobs'[i].key = jobs[i].key /\ jobs'[i].gen = jobs[i].gen
                 /\ jobs'[i].state = jobs[i].state /\ jobs'[i].attempt = jobs[i].attempt
      <3>1. jobs[i] \in JobRow BY JobTypes
      <3>2. jobs'[i] = jobs[i] \/ jobs'[i] = [jobs[i] EXCEPT !.payload = sched[s].version]
        BY <1>8 DEF WritePayload
      <3> QED BY <2>2, <3>1, <3>2 DEF JobRow
    <2>5. Updates(jobs, jobs')
      <3>1. \A i \in DOMAIN jobs : jobs[i].state = "pending" => jobs[i].attempt < MaxAttempts
        BY <1>0 DEF JobsSound
      <3> QED BY <2>3, <2>4, <3>1 DEF Updates
    <2>6. JobsSound(jobs', nextGen)
      BY <1>0, <2>5, UpdatedJobs
    <2>7. RunSound(run, jobs')
      BY <1>0, <2>3, <2>4 DEF RunSound
    <2>8. JobsSound(jobs, nextGen)' /\ RunSound(run, jobs)'
      BY <1>8, <2>6, <2>7 DEF WritePayload, JobsSound, RunSound
    <2> QED BY <1>8, <2>1, <2>8 DEF WritePayload, Typed, spent
  <1>9. CASE CreateSnapshotJob(s)
    <2> DEFINE req == sched[s]
               taken == {i \in DOMAIN jobs : jobs[i].key = req.key}
    <2>1. /\ req \in SchedRow /\ req.phase = "create" /\ req.key[1] # "watcher"
          /\ req.key \in Keys /\ req.gen \in Gens
      BY <1>0, <1>9 DEF CreateSnapshotJob, SchedSound, SchedRow
    <2>2. SchedSound'
      <3>1. \/ \E i \in DOMAIN jobs :
                 sched' = [sched EXCEPT ![s].phase = "payload", ![s].key = jobs[i].key]
            \/ sched' = [sched EXCEPT ![s] = Idle]
            \/ sched' = [sched EXCEPT ![s].phase = "payload"]
        BY <1>9 DEF CreateSnapshotJob, Active, Holding
      <3>2. ASSUME NEW i \in DOMAIN jobs,
                   sched' = [sched EXCEPT ![s].phase = "payload", ![s].key = jobs[i].key]
            PROVE  SchedSound'
        <4> DEFINE r == [sched[s] EXCEPT !.phase = "payload", !.key = jobs[i].key]
        <4>1. jobs[i].key \in Keys BY JobTypes
        <4>2. r \in SchedRow /\ r.phase = "payload"
          BY <2>1, <4>1 DEF SchedRow, SchedPhases
        <4>3. sched' = [sched EXCEPT ![s] = r]
          BY <1>0, <3>2 DEF SchedSound
        <4> HIDE DEF r
        <4> QED BY <1>0, <4>2, <4>3, SchedReplaced
      <3>3. ASSUME sched' = [sched EXCEPT ![s] = Idle]
            PROVE  SchedSound'
        BY <1>0, <3>3, IdleTyped, SchedReplaced
      <3>4. ASSUME sched' = [sched EXCEPT ![s].phase = "payload"]
            PROVE  SchedSound'
        BY <1>0, <3>4 DEF SchedSound, SchedRow, SchedPhases
      <3> QED BY <3>1, <3>2, <3>3, <3>4
    <2>3. JobsSound(jobs, nextGen)' /\ RunSound(run, jobs)'
      <3>1. CASE UNCHANGED jobs
        BY <1>0, <1>9, <3>1 DEF CreateSnapshotJob, JobsSound, RunSound
      <3>2. CASE jobs' # jobs
        <4> DEFINE r == [key |-> req.key, gen |-> req.gen, state |-> "pending",
                         payload |-> 0, attempt |-> 1]
        <4>1. taken \cup Active = {} /\ jobs' = Append(jobs, r)
          BY <1>9, <3>2 DEF CreateSnapshotJob
        <4>2. r \in JobRow /\ r.key = req.key /\ r.state = "pending" /\ r.attempt < MaxAttempts
          BY <2>1 DEF JobRow, MaxAttempts
        <4>3. \A i \in DOMAIN jobs : jobs[i].state \notin ActiveStates /\ jobs[i].key # req.key
          BY <4>1 DEF Active, Holding, ActiveStates
        <4> HIDE DEF r
        <4>4. JobsSound(jobs', nextGen)
          BY <1>0, <2>1, <4>1, <4>2, <4>3, InsertedJob
        <4>5. run = NoRun
          BY <4>3, LeaseNeedsActive DEF ActiveStates
        <4> QED BY <1>9, <4>4, <4>5, NoRunSound DEF CreateSnapshotJob, JobsSound, RunSound
      <3> QED BY <3>1, <3>2
    <2> QED BY <1>9, <2>2, <2>3 DEF CreateSnapshotJob, Typed, spent
  <1> QED BY <1>1, <1>2, <1>3, <1>4, <1>5, <1>6, <1>7, <1>8, <1>9

\* Leases: who takes, ends and loses them.
LEMMA TypeLeases ==
  ASSUME Typed,
         \/ AcquireJob \/ FailExpiredJob \/ CompleteJob \/ WorkerFails \/ WatcherFails
         \/ LoseLease \/ ControlPlaneRestart \/ DataPlaneRestart \/ PurgeTerminalJob
  PROVE  Typed'
  <1> USE BackupAssumption
  <1>0. /\ JobsSound(jobs, nextGen) /\ SchedSound /\ RunSound(run, jobs) /\ uploads \subseteq Upload
        /\ missed \in BOOLEAN /\ event \in BOOLEAN
        /\ watcher \in [busy : BOOLEAN, content : 0 .. MaxEdits]
    BY DEF Typed
  <1>f. \A st : \A pm \in BOOLEAN :
          /\ Outcome(usage, st, pm) \in UsageRow
          /\ Rounds # 0 => Outcome(usage, st, pm).round < Rounds
    BY UsageUpdates
  <1>u. UNCHANGED usage => usage' \in UsageRow /\ (Rounds # 0 => usage'.round < Rounds)
    BY DEF Typed
  \* One row's state or attempt changes, and nobody holds a lease afterwards.
  <1>r. ASSUME NEW i \in DOMAIN jobs, NEW r \in JobRow, jobs' = [jobs EXCEPT ![i] = r],
               r.key = jobs[i].key, r.gen = jobs[i].gen,
               r.state \in ActiveStates => jobs[i].state \in ActiveStates,
               r.state = "pending" => r.attempt < MaxAttempts,
               run' = NoRun, UNCHANGED nextGen
        PROVE  JobsSound(jobs, nextGen)' /\ RunSound(run, jobs)'
    <2>1. JobsSound(jobs', nextGen) BY <1>r, RowUpdated
    <2> QED BY <1>r, <2>1, NoRunSound DEF JobsSound, RunSound
  <1>s. UNCHANGED sched => SchedSound' BY <1>0 DEF SchedSound
  <1>1. CASE AcquireJob
    <2>1. PICK i \in Active :
            /\ jobs[i].attempt < MaxAttempts
            /\ jobs' = [jobs EXCEPT ![i].state = "running",
                                    ![i].attempt = IF jobs[i].state = "pending" THEN @ ELSE @ + 1]
            /\ run' = [who |-> "worker", key |-> jobs[i].key, phase |-> "start",
                       gen |-> jobs[i].gen, version |-> jobs[i].payload, content |-> 0]
      BY <1>1 DEF AcquireJob
    <2>2. i \in DOMAIN jobs /\ jobs[i].state \in ActiveStates
      BY DEF Active, Holding, ActiveStates
    <2> DEFINE a == IF jobs[i].state = "pending" THEN jobs[i].attempt ELSE jobs[i].attempt + 1
               r == [key |-> jobs[i].key, gen |-> jobs[i].gen, state |-> "running",
                     payload |-> jobs[i].payload, attempt |-> a]
    <2>3. jobs[i] \in JobRow BY <2>2, JobTypes
    <2>4. a \in 1 .. MaxAttempts BY <2>1, <2>3 DEF JobRow, MaxAttempts
    <2>5. r \in JobRow BY <2>3, <2>4 DEF JobRow
    <2>6. jobs' = [jobs EXCEPT ![i] = r]
      <3>1. jobs' = [jobs EXCEPT ![i].state = "running", ![i].attempt = a]
        BY <2>1, Zenon
      <3>2. [jobs EXCEPT ![i].state = "running", ![i].attempt = a] = [jobs EXCEPT ![i] = r]
        <4> HIDE DEF a
        <4> QED BY <2>2, AttemptSet, Zenon
      <3> QED BY <3>1, <3>2, Zenon
    <2>7. /\ JobsSound(jobs', nextGen) /\ jobs'[i] = r /\ DOMAIN jobs' = DOMAIN jobs
      <3> HIDE DEF a
      <3>1. r.key = jobs[i].key /\ r.gen = jobs[i].gen /\ r.state = "running" OBVIOUS
      <3> HIDE DEF r
      <3> QED BY <2>2, <2>5, <2>6, <3>1, RowUpdated
    <2>8. run' \in RunRow
      <3>1. jobs[i].gen \in 0 .. MaxGen BY <2>3 DEF JobRow, Gens
      <3> QED BY <2>1, <2>3, <3>1 DEF JobRow, RunRow, RunPhases
    <2>9. RunSound(run', jobs')
      BY <2>1, <2>2, <2>7, <2>8 DEF RunSound
    <2>10. uploads' \subseteq Upload BY <1>1, FencedUploads DEF AcquireJob
    <2>11. JobsSound(jobs, nextGen)' /\ RunSound(run, jobs)'
      BY <1>1, <2>7, <2>9 DEF AcquireJob, JobsSound, RunSound
    <2>12. SchedSound' BY <1>1, <1>s DEF AcquireJob
    <2> QED BY <1>1, <2>10, <2>11, <2>12 DEF AcquireJob, Typed
  <1>2. CASE FailExpiredJob
    <2>1. PICK i \in Holding({"running"}) :
            /\ jobs' = [jobs EXCEPT ![i].state = "failed"] /\ run = NoRun
            /\ usage' = Outcome(usage, "failed", FALSE)
      BY <1>2 DEF FailExpiredJob
    <2>2. i \in DOMAIN jobs /\ jobs[i] \in JobRow
      BY JobTypes DEF Holding
    <2> DEFINE r == [jobs[i] EXCEPT !.state = "failed"]
    <2>3. /\ r \in JobRow /\ r.key = jobs[i].key /\ r.gen = jobs[i].gen /\ r.state = "failed"
          /\ jobs' = [jobs EXCEPT ![i] = r]
      BY <2>1, <2>2 DEF JobRow
    <2>4. JobsSound(jobs, nextGen)' /\ RunSound(run, jobs)'
      <3> HIDE DEF r
      <3> QED BY <1>2, <1>r, <2>1, <2>2, <2>3 DEF FailExpiredJob, ActiveStates
    <2>5. uploads' \subseteq Upload BY <1>2, FencedUploads DEF FailExpiredJob
    <2>6. usage' \in UsageRow /\ (Rounds # 0 => usage'.round < Rounds)
      BY <1>f, <2>1
    <2>7. SchedSound' BY <1>2, <1>s DEF FailExpiredJob
    <2> QED BY <1>2, <2>4, <2>5, <2>6, <2>7 DEF FailExpiredJob, Typed, spent
  <1>e. ASSUME NEW st \in {"completed", "failed"}, NEW pm \in BOOLEAN, Finish(st, pm), run # NoRun
        PROVE  Typed'
    <2> DEFINE i == Row(run.key)
               r == [key |-> jobs[i].key, gen |-> jobs[i].gen, state |-> st, payload |-> 0,
                     attempt |-> jobs[i].attempt]
    <2>1. i \in DOMAIN jobs /\ jobs[i] \in JobRow BY <1>e, RunTypes, JobTypes
    <2>3. r \in JobRow /\ r.key = jobs[i].key /\ r.gen = jobs[i].gen /\ r.state = st
      BY <2>1 DEF JobRow
    <2>4. jobs' = [jobs EXCEPT ![i] = r]
      <3>1. jobs' = [jobs EXCEPT ![i].state = st, ![i].payload = 0]
        BY <1>e DEF Finish
      <3> HIDE DEF i
      <3>2. [jobs EXCEPT ![i].state = st, ![i].payload = 0] = [jobs EXCEPT ![i] = r]
        BY <2>1, PayloadSet, Zenon
      <3> HIDE DEF r
      <3> QED BY <3>1, <3>2, Zenon
    <2>5. JobsSound(jobs, nextGen)' /\ RunSound(run, jobs)'
      <3> HIDE DEF r, i
      <3> QED BY <1>e, <1>r, <2>1, <2>3, <2>4 DEF Finish, ActiveStates
    <2>6. usage' \in UsageRow /\ (Rounds # 0 => usage'.round < Rounds)
      BY <1>e, <1>f DEF Finish
    <2>7. SchedSound' BY <1>e, <1>s DEF Finish
    <2> QED BY <1>e, <2>5, <2>6, <2>7 DEF Finish, Typed
  <1>3. CASE CompleteJob
    BY <1>3, <1>e, LeaseHeld DEF CompleteJob
  <1>4. CASE WorkerFails
    <2>1. run # NoRun BY <1>4, LeaseHeld DEF WorkerFails
    <2>2. \E pm \in BOOLEAN : Finish("failed", pm)
      BY <1>4 DEF WorkerFails
    <2> QED BY <1>e, <2>1, <2>2
  <1>5. CASE WatcherFails
    <2> DEFINE i == Row(run.key)
               st == IF jobs[i].attempt < MaxAttempts THEN "pending" ELSE "failed"
               r == [jobs[i] EXCEPT !.state = st]
    <2>0. run # NoRun BY <1>5, LeaseHeld DEF WatcherFails
    <2>1. i \in DOMAIN jobs /\ jobs[i] \in JobRow /\ jobs[i].state = "running"
      BY <2>0, RunTypes, JobTypes
    <2>2. /\ r \in JobRow /\ r.key = jobs[i].key /\ r.gen = jobs[i].gen /\ r.state = st
          /\ r.attempt = jobs[i].attempt
      BY <2>1 DEF JobRow
    <2>3. jobs' = [jobs EXCEPT ![i] = r]
      BY <1>5 DEF WatcherFails
    <2>4. r.state = "pending" => r.attempt < MaxAttempts
      BY <2>2
    <2>5. JobsSound(jobs, nextGen)' /\ RunSound(run, jobs)'
      <3> HIDE DEF r, i, st
      <3> QED BY <1>5, <1>r, <2>1, <2>2, <2>3, <2>4 DEF WatcherFails, ActiveStates
    <2>6. usage' \in UsageRow /\ (Rounds # 0 => usage'.round < Rounds)
      BY <1>5, <1>f, <1>u DEF WatcherFails
    <2>7. SchedSound' BY <1>5, <1>s DEF WatcherFails
    <2> QED BY <1>5, <2>5, <2>6, <2>7 DEF WatcherFails, Typed, spent
  <1>6. CASE LoseLease
    <2>1. JobsSound(jobs, nextGen)' /\ RunSound(run, jobs)' /\ SchedSound'
      BY <1>0, <1>6, NoRunSound DEF LoseLease, JobsSound, RunSound, SchedSound, rows
    <2>2. uploads' \subseteq Upload BY <1>0, <1>6 DEF LoseLease
    <2> QED BY <1>6, <2>1, <2>2 DEF LoseLease, Typed, rows
  <1>7. CASE ControlPlaneRestart
    <2>1. run' = NoRun \/ run' = run BY <1>7 DEF ControlPlaneRestart
    <2>2. JobsSound(jobs, nextGen)' /\ RunSound(run, jobs)'
      BY <1>0, <1>7, <2>1, NoRunSound DEF ControlPlaneRestart, JobsSound, RunSound, rows
    <2>3. SchedSound'
      BY <1>7, IdleTyped DEF ControlPlaneRestart, SchedSound
    <2> QED BY <1>7, <2>2, <2>3 DEF ControlPlaneRestart, Typed, rows
  <1>8. CASE DataPlaneRestart
    <2>1. RunSound(run', jobs)
      <3>1. CASE run' = NoRun BY <3>1, NoRunSound
      <3>2. CASE run' = run BY <1>0, <3>2
      <3>3. CASE run.phase = "scanned" /\ run' = [run EXCEPT !.phase = "broken"]
        <4>1. run # NoRun BY <3>3, LeaseHeld
        <4>2. "broken" \in RunPhases \ {"none"} BY DEF RunPhases
        <4> QED BY <1>0, <3>3, <4>1, <4>2, RunMoves DEF Typed, RunSound, RunRow
      <3> QED BY <1>8, <3>1, <3>2, <3>3 DEF DataPlaneRestart
    <2>2. JobsSound(jobs, nextGen)' /\ RunSound(run, jobs)' /\ SchedSound'
      BY <1>0, <1>8, <2>1 DEF DataPlaneRestart, JobsSound, RunSound, SchedSound, rows
    <2>3. watcher' \in [busy : BOOLEAN, content : 0 .. MaxEdits] /\ missed' \in BOOLEAN
      BY <1>0, <1>8 DEF DataPlaneRestart, NotClaimed
    <2> QED BY <1>8, <2>2, <2>3 DEF DataPlaneRestart, Typed, rows
  <1>9. CASE PurgeTerminalJob
    <2>1. jobs # <<>> /\ jobs' = Tail(jobs) /\ Head(jobs).state \in {"completed", "failed"}
      BY <1>9 DEF PurgeTerminalJob
    <2>2. JobsSound(jobs', nextGen)
      BY <1>0, <2>1, PurgedJob
    <2>3. RunSound(run, jobs')
      <3>1. ASSUME run # NoRun
            PROVE  \E k \in DOMAIN jobs' :
                     jobs'[k].state = "running" /\ jobs'[k].key = run.key /\ jobs'[k].gen = run.gen
        <4>1. PICK i \in DOMAIN jobs :
                jobs[i].state = "running" /\ jobs[i].key = run.key /\ jobs[i].gen = run.gen
          BY <1>0, <3>1 DEF RunSound
        <4>2. i # 1 BY <1>0, <2>1, <4>1, PurgedJob
        <4>3. i - 1 \in DOMAIN jobs' /\ jobs'[i - 1] = jobs[i]
          BY <1>0, <2>1, <4>2, PurgedJob
        <4> QED BY <4>1, <4>3
      <3> QED BY <1>0, <3>1 DEF RunSound
    <2>4. JobsSound(jobs, nextGen)' /\ RunSound(run, jobs)' /\ SchedSound'
      BY <1>0, <1>9, <2>2, <2>3 DEF PurgeTerminalJob, JobsSound, RunSound, SchedSound, tasks
    <2> QED BY <1>9, <2>4 DEF PurgeTerminalJob, Typed, tasks, spent
  <1> QED BY <1>1, <1>2, <1>3, <1>4, <1>5, <1>6, <1>7, <1>8, <1>9

\* The problem's other jobs and the reconcile pass: a generation recorded, or
\* the uploads fenced while no job of the problem's snapshots runs.
OtherJobs == ScanOverwrites \/ RecordReady \/ LeaseOtherJob

LEMMA OtherJobsStep ==
  ASSUME Typed, OtherJobs
  PROVE  /\ UNCHANGED <<disk, event, problem, nextGen, snaps, jobs, sched, run, watcher,
                        requests, faults, waits, notified, missed>>
         /\ \/ UNCHANGED uploads /\ \E g \in 0 .. MaxGen : usage' = [usage EXCEPT !.gen = g]
            \/ uploads' = Fenced /\ UNCHANGED usage /\ run = NoRun
  <1> USE BackupAssumption
  <1>1. CASE ScanOverwrites
    <2>1. 0 \in 0 .. MaxGen OBVIOUS
    <2> QED BY <1>1, <2>1 DEF ScanOverwrites, tasks, spent
  <1>2. CASE RecordReady
    <2>1. PICK g \in Gens : usage' = [usage EXCEPT !.gen = g] BY <1>2 DEF RecordReady
    <2>2. g \in 0 .. MaxGen BY DEF Gens
    <2> QED BY <1>2, <2>1, <2>2 DEF RecordReady, tasks, spent
  <1>3. CASE LeaseOtherJob
    <2>1. run = NoRun BY <1>3 DEF LeaseOtherJob, Holding, Typed, RunSound
    <2> QED BY <1>3, <2>1 DEF LeaseOtherJob, rows, spent
  <1> QED BY <1>1, <1>2, <1>3 DEF OtherJobs

LEMMA TypeOtherJobs ==
  ASSUME Typed, OtherJobs
  PROVE  Typed'
  <1> USE BackupAssumption
  <1>1. usage' \in UsageRow /\ usage'.round = usage.round
    <2>1. usage \in UsageRow BY DEF Typed
    <2>2. ASSUME NEW g \in 0 .. MaxGen, usage' = [usage EXCEPT !.gen = g]
          PROVE  usage' \in UsageRow /\ usage'.round = usage.round
      BY <2>1, <2>2 DEF UsageRow
    <2> QED BY <2>1, <2>2, OtherJobsStep
  <1>2. uploads' \subseteq Upload BY OtherJobsStep, FencedUploads DEF Typed
  <1>3. UNCHANGED <<disk, event, problem, nextGen, snaps, jobs, sched, run, watcher,
                    requests, faults, waits, notified, missed>>
    BY OtherJobsStep
  <1>4. JobsSound(jobs, nextGen)' /\ SchedSound' /\ RunSound(run, jobs)'
    BY <1>3 DEF Typed, JobsSound, SchedSound, RunSound
  <1> QED BY <1>1, <1>2, <1>3, <1>4 DEF Typed

\* The data plane: scans, claims and uploads, the watcher, sweeps and time.
LEMMA TypeWork ==
  ASSUME Typed,
         \/ Edit \/ WorkerScan \/ ClaimSnapshot \/ UploadLands \/ UploadFails \/ WorkerClears
         \/ WatcherScan \/ SweepStalled \/ BackoffExpires
  PROVE  Typed'
  <1> USE BackupAssumption
  <1>0. /\ JobsSound(jobs, nextGen) /\ SchedSound /\ RunSound(run, jobs) /\ uploads \subseteq Upload
        /\ disk \in 0 .. MaxEdits /\ snaps \in [Gens -> SnapRow] /\ usage \in UsageRow
        /\ problem \in ProblemRow /\ (problem.dirty <=> problem.gen # 0)
        /\ (Rounds # 0 => usage.round < Rounds)
    BY DEF Typed
  <1>s. UNCHANGED <<jobs, nextGen, sched>> => JobsSound(jobs, nextGen)' /\ SchedSound'
    BY <1>0 DEF JobsSound, SchedSound
  <1>r. UNCHANGED <<jobs, run>> => RunSound(run, jobs)'
    BY <1>0 DEF RunSound
  <1>q. ASSUME UNCHANGED jobs, RunSound(run', jobs)
        PROVE  RunSound(run, jobs)'
    BY <1>q DEF RunSound
  <1>1. CASE Edit
    <2>1. /\ JobsSound(jobs, nextGen)' /\ SchedSound' /\ RunSound(run, jobs)'
      BY <1>1, <1>s, <1>r DEF Edit, rows, tasks
    <2>2. disk' \in 0 .. MaxEdits /\ event' \in BOOLEAN
      BY <1>0, <1>1 DEF Edit
    <2> QED BY <1>1, <2>1, <2>2 DEF Edit, Typed, rows, tasks, spent
  <1>2. CASE WorkerScan
    <2>1. run # NoRun BY <1>2, LeaseHeld DEF WorkerScan
    <2>2. "scanned" \in RunPhases \ {"none"} BY DEF RunPhases
    <2>3. RunSound(run, jobs)'
      BY <1>0, <1>2, <1>q, <2>1, <2>2, RunMoves DEF WorkerScan, rows
    <2>4. JobsSound(jobs, nextGen)' /\ SchedSound'
      BY <1>2, <1>s DEF WorkerScan, rows
    <2> QED BY <1>2, <2>3, <2>4 DEF WorkerScan, Typed, rows, spent
  <1>3. CASE ClaimSnapshot
    <2>1. run # NoRun BY <1>3, LeaseHeld DEF ClaimSnapshot
    <2>2. \E ph \in {"waiting", "landed"} : run' = [run EXCEPT !.phase = ph, !.content = 0]
      BY <1>3 DEF ClaimSnapshot
    <2>3. RunSound(run, jobs)'
      <3>1. PICK ph \in {"waiting", "landed"} : run' = [run EXCEPT !.phase = ph, !.content = 0]
        BY <2>2
      <3>2. ph \in RunPhases \ {"none"} /\ 0 \in 0 .. MaxEdits
        BY DEF RunPhases
      <3>3. RunSound([run EXCEPT !.phase = ph, !.content = 0], jobs)
        BY <2>1, <3>2, RunMoves
      <3> QED BY <1>3, <1>q, <3>1, <3>3 DEF ClaimSnapshot
    <2>4. JobsSound(jobs, nextGen)' /\ SchedSound'
      BY <1>3, <1>s DEF ClaimSnapshot
    <2>5. snaps' \in [Gens -> SnapRow]
      <3>1. Snap("active") \in SnapRow BY SnapTypes DEF SnapStates
      <3> QED BY <1>0, <1>3, <3>1 DEF ClaimSnapshot
    <2>6. uploads' \subseteq Upload
      <3>1. [gen |-> run.gen, version |-> run.version, content |-> run.content,
             fenced |-> FALSE, by |-> run.who] \in Upload
        BY <2>1, RunTypes DEF Upload
      <3> QED BY <1>0, <1>3, <3>1 DEF ClaimSnapshot
    <2> QED BY <1>3, <2>3, <2>4, <2>5, <2>6 DEF ClaimSnapshot, Typed
  <1>e. ASSUME NEW u, NEW ph \in {"landed", "failed"}, run' = Ended(u, ph), UNCHANGED jobs
        PROVE  RunSound(run, jobs)'
    <2>1. CASE run' = run BY <1>0, <1>e, <1>q, <2>1
    <2>2. CASE run.who = "watcher" /\ run' = [run EXCEPT !.phase = ph]
      <3>1. run # NoRun /\ ph \in RunPhases \ {"none"} BY <2>2, LeaseHeld DEF RunPhases
      <3>2. RunSound([run EXCEPT !.phase = ph], jobs)
        BY <1>0, <3>1, RunMoves DEF Typed
      <3> QED BY <1>e, <1>q, <2>2, <3>2
    <2> QED BY <1>e, <2>1, <2>2 DEF Ended
  <1>4. CASE UploadLands
    <2>1. PICK u \in uploads :
            /\ CanLand(u)
            /\ snaps' = [g \in Gens |->
                           IF g = u.gen THEN [Snap("ready") EXCEPT !.content = u.content]
                           ELSE IF g < u.gen /\ snaps[g].state = "ready" THEN Snap("superseded")
                           ELSE snaps[g]]
            /\ usage' = [usage EXCEPT !.gen = u.gen]
            /\ problem' = Cleared(problem, u.gen, u.version)
            /\ uploads' = uploads \ {u} /\ run' = Ended(u, "landed")
      BY <1>4 DEF UploadLands
    <2>2. u \in Upload BY <1>0
    <2>3. snaps' \in [Gens -> SnapRow]
      <3>1. u.content \in 0 .. MaxEdits BY <2>2 DEF Upload
      <3>2. /\ [Snap("ready") EXCEPT !.content = u.content] \in SnapRow
            /\ Snap("superseded") \in SnapRow
        BY <3>1, SnapTypes DEF SnapStates
      <3> QED BY <1>0, <2>1, <3>2
    <2>4. usage' \in UsageRow /\ usage'.round = usage.round
      <3>1. u.gen \in 0 .. MaxGen BY <2>2 DEF Upload, Gens
      <3> QED BY <1>0, <2>1, <3>1 DEF UsageRow
    <2>5. problem' \in ProblemRow /\ (problem'.dirty <=> problem'.gen # 0)
      BY <2>1, ClearedRow
    <2>6. JobsSound(jobs, nextGen)' /\ SchedSound' /\ RunSound(run, jobs)'
      BY <1>4, <1>s, <1>e, <2>1 DEF UploadLands
    <2> QED BY <1>0, <1>4, <2>1, <2>3, <2>4, <2>5, <2>6 DEF UploadLands, Typed, spent
  <1>5. CASE UploadFails
    <2>1. PICK u \in uploads :
            /\ snaps' = IF snaps[u.gen].state = "ready" THEN snaps
                        ELSE [snaps EXCEPT ![u.gen] =
                                [Snap("error") EXCEPT !.integrity = u.content \in Unusable]]
            /\ uploads' = uploads \ {u} /\ run' = Ended(u, "failed")
      BY <1>5 DEF UploadFails
    <2>2. snaps' \in [Gens -> SnapRow]
      <3>0. (u.content \in Unusable) \in BOOLEAN /\ "error" \in SnapStates
        BY DEF SnapStates
      <3>1. [Snap("error") EXCEPT !.integrity = u.content \in Unusable] \in SnapRow
        BY <3>0, SnapTypes
      <3> QED BY <1>0, <2>1, <3>1
    <2>3. JobsSound(jobs, nextGen)' /\ SchedSound' /\ RunSound(run, jobs)'
      BY <1>5, <1>s, <1>e, <2>1 DEF UploadFails
    <2> QED BY <1>0, <1>5, <2>1, <2>2, <2>3 DEF UploadFails, Typed
  <1>6. CASE WorkerClears
    <2>1. run # NoRun /\ "cleared" \in RunPhases \ {"none"}
      BY <1>6, LeaseHeld DEF WorkerClears, RunPhases
    <2>2. RunSound(run, jobs)'
      BY <1>0, <1>6, <1>q, <2>1, RunMoves DEF WorkerClears, Typed, RunSound, RunRow
    <2>3. problem' \in ProblemRow /\ (problem'.dirty <=> problem'.gen # 0)
      BY <1>6, ClearedRow DEF WorkerClears
    <2>4. JobsSound(jobs, nextGen)' /\ SchedSound'
      BY <1>6, <1>s DEF WorkerClears
    <2> QED BY <1>6, <2>2, <2>3, <2>4 DEF WorkerClears, Typed, spent
  <1>7. CASE WatcherScan
    <2>1. watcher' \in [busy : BOOLEAN, content : 0 .. MaxEdits] /\ event' \in BOOLEAN
      <3>1. watcher' = watcher \/ watcher' = [busy |-> TRUE, content |-> disk]
        BY <1>7 DEF WatcherScan
      <3>2. watcher \in [busy : BOOLEAN, content : 0 .. MaxEdits] BY DEF Typed
      <3>3. watcher' \in [busy : BOOLEAN, content : 0 .. MaxEdits]
        <4>1. disk \in 0 .. MaxEdits BY <1>0
        <4>2. [busy |-> TRUE, content |-> disk] \in [busy : BOOLEAN, content : 0 .. MaxEdits]
          BY <4>1
        <4> QED BY <3>1, <3>2, <4>2, Zenon
      <3>4. event' = FALSE BY <1>7 DEF WatcherScan
      <3> QED BY <3>3, <3>4
    <2>2. JobsSound(jobs, nextGen)' /\ SchedSound' /\ RunSound(run, jobs)'
      BY <1>7, <1>s, <1>r DEF WatcherScan, rows
    <2> QED BY <1>7, <2>1, <2>2 DEF WatcherScan, Typed, rows, spent
  <1>8. CASE SweepStalled
    <2>1. snaps' \in [Gens -> SnapRow]
      <3>1. Snap("error") \in SnapRow BY SnapTypes DEF SnapStates
      <3> QED BY <1>0, <1>8, <3>1 DEF SweepStalled
    <2>2. JobsSound(jobs, nextGen)' /\ SchedSound' /\ RunSound(run, jobs)'
      BY <1>8, <1>s, <1>r DEF SweepStalled, tasks
    <2> QED BY <1>8, <2>1, <2>2 DEF SweepStalled, Typed, tasks
  <1>9. CASE BackoffExpires
    <2>1. usage' \in UsageRow /\ usage'.round = usage.round
      BY <1>0, <1>9 DEF BackoffExpires, UsageRow
    <2>2. JobsSound(jobs, nextGen)' /\ SchedSound' /\ RunSound(run, jobs)'
      BY <1>9, <1>s, <1>r DEF BackoffExpires, tasks
    <2> QED BY <1>0, <1>9, <2>1, <2>2 DEF BackoffExpires, Typed, tasks
  <1> QED BY <1>1, <1>2, <1>3, <1>4, <1>5, <1>6, <1>7, <1>8, <1>9

\* The three ways WatcherClaim ends, with the row and the lease it takes.
LEMMA WatcherClaimCases ==
  ASSUME Typed, WatcherClaim
  PROVE  \/ \E i \in DOMAIN jobs :
              /\ jobs[i].state = "pending"
              /\ jobs' = [jobs EXCEPT ![i] = [key |-> jobs[i].key, gen |-> jobs[i].gen,
                            state |-> "running", payload |-> jobs[i].payload,
                            attempt |-> jobs[i].attempt + 1]]
              /\ run' = [who |-> "watcher", key |-> jobs[i].key, phase |-> "scanned",
                         gen |-> jobs[i].gen, version |-> problem.version + 1,
                         content |-> watcher.content]
              /\ uploads' = Fenced
         \/ /\ \E i \in DOMAIN jobs : jobs[i].state = "running"
            /\ UNCHANGED <<jobs, run, uploads>>
         \/ /\ \A i \in DOMAIN jobs : jobs[i].state \notin ActiveStates
            /\ jobs' = Append(jobs, [key |-> <<"watcher", 0, nextGen>>, gen |-> nextGen,
                                     state |-> "running", payload |-> 0, attempt |-> 1])
            /\ run' = [who |-> "watcher", key |-> <<"watcher", 0, nextGen>>, phase |-> "scanned",
                       gen |-> nextGen, version |-> problem.version + 1,
                       content |-> watcher.content]
            /\ uploads' = Fenced
  <1>1. CASE \E i \in Holding({"pending"}) :
               /\ jobs' = [jobs EXCEPT ![i].state = "running", ![i].attempt = @ + 1]
               /\ run' = [who |-> "watcher", key |-> jobs[i].key, phase |-> "scanned",
                          gen |-> jobs[i].gen, version |-> problem.version + 1,
                          content |-> watcher.content]
               /\ uploads' = Fenced
    <2>1. PICK i \in DOMAIN jobs :
               /\ jobs[i].state = "pending"
               /\ jobs' = [jobs EXCEPT ![i].state = "running", ![i].attempt = @ + 1]
               /\ run' = [who |-> "watcher", key |-> jobs[i].key, phase |-> "scanned",
                          gen |-> jobs[i].gen, version |-> problem.version + 1,
                          content |-> watcher.content]
               /\ uploads' = Fenced
      BY <1>1 DEF Holding
    <2> DEFINE a == jobs[i].attempt + 1
    <2>2. jobs' = [jobs EXCEPT ![i].state = "running", ![i].attempt = a]
      BY <2>1, Zenon
    <2>3. [jobs EXCEPT ![i].state = "running", ![i].attempt = a] =
            [jobs EXCEPT ![i] = [key |-> jobs[i].key, gen |-> jobs[i].gen, state |-> "running",
                                 payload |-> jobs[i].payload, attempt |-> a]]
      <3> HIDE DEF a
      <3> QED BY AttemptSet, Zenon
    <2> QED BY <2>1, <2>2, <2>3, Zenon
  <1>2. CASE Holding({"running"}) # {} /\ UNCHANGED <<jobs, run, uploads>>
    BY <1>2 DEF Holding
  <1>3. CASE /\ Active = {}
             /\ jobs' = Append(jobs, [key |-> <<"watcher", 0, nextGen>>, gen |-> nextGen,
                                      state |-> "running", payload |-> 0, attempt |-> 1])
             /\ run' = [who |-> "watcher", key |-> <<"watcher", 0, nextGen>>, phase |-> "scanned",
                        gen |-> nextGen, version |-> problem.version + 1,
                        content |-> watcher.content]
             /\ uploads' = Fenced
    <2>1. \A i \in DOMAIN jobs : jobs[i].state \notin ActiveStates
      BY <1>3 DEF Active, Holding, ActiveStates
    <2> QED BY <1>3, <2>1
  <1> QED BY <1>1, <1>2, <1>3 DEF WatcherClaim

LEMMA TypeWatcherClaim ==
  ASSUME Typed, WatcherClaim
  PROVE  Typed'
  <1> USE BackupAssumption
  <1>0. /\ JobsSound(jobs, nextGen) /\ SchedSound /\ RunSound(run, jobs) /\ uploads \subseteq Upload
        /\ problem \in ProblemRow /\ nextGen \in 1 .. MaxGen + 1
        /\ watcher \in [busy : BOOLEAN, content : 0 .. MaxEdits]
        /\ problem.version + 1 \in Nat \ {0} /\ watcher.content \in 0 .. MaxEdits
    BY DEF Typed, ProblemRow
  <1>1. /\ nextGen <= MaxGen /\ nextGen' = nextGen + 1 /\ usage' = Unparked(usage)
        /\ problem' = [dirty |-> TRUE, version |-> problem.version + 1, gen |-> nextGen]
        /\ watcher' = NotClaimed
        /\ UNCHANGED <<disk, event, snaps, sched, spent, notified, missed>>
    BY DEF WatcherClaim
  <1>2. nextGen \in Gens /\ nextGen \in Nat \ {0} /\ nextGen' \in 1 .. MaxGen + 1 /\ nextGen <= nextGen'
    BY <1>0, <1>1 DEF Gens
  <1>3. problem' \in ProblemRow /\ (problem'.dirty <=> problem'.gen # 0)
    <2>1. nextGen \in 0 .. MaxGen BY <1>2 DEF Gens
    <2> QED BY <1>0, <1>1, <1>2, <2>1 DEF ProblemRow
  <1>4. usage' \in UsageRow /\ (Rounds # 0 => usage'.round < Rounds)
    BY <1>1, UsageUpdates DEF Typed
  <1>5. watcher' \in [busy : BOOLEAN, content : 0 .. MaxEdits]
    BY <1>1 DEF NotClaimed
  <1>6. SchedSound' BY <1>0, <1>1 DEF SchedSound
  <1>7. JobsSound(jobs, nextGen')
    BY <1>0, <1>2, LaterJobs
  <1> DEFINE Done == JobsSound(jobs', nextGen') /\ RunSound(run', jobs') /\ uploads' \subseteq Upload
  <1>8. ASSUME NEW i \in DOMAIN jobs, jobs[i].state = "pending",
               jobs' = [jobs EXCEPT ![i] = [key |-> jobs[i].key, gen |-> jobs[i].gen,
                            state |-> "running", payload |-> jobs[i].payload,
                            attempt |-> jobs[i].attempt + 1]],
               run' = [who |-> "watcher", key |-> jobs[i].key, phase |-> "scanned",
                       gen |-> jobs[i].gen, version |-> problem.version + 1,
                       content |-> watcher.content],
               uploads' = Fenced
        PROVE  Done
    <2> DEFINE r == [key |-> jobs[i].key, gen |-> jobs[i].gen, state |-> "running",
                     payload |-> jobs[i].payload, attempt |-> jobs[i].attempt + 1]
    <2>1. jobs[i] \in JobRow /\ jobs[i].attempt < MaxAttempts
      BY <1>0, <1>8, JobTypes DEF JobsSound
    <2>2. r \in JobRow /\ r.key = jobs[i].key /\ r.gen = jobs[i].gen /\ r.state = "running"
      BY <2>1 DEF JobRow, MaxAttempts
    <2>3. /\ JobsSound(jobs', nextGen) /\ DOMAIN jobs' = DOMAIN jobs /\ jobs'[i] = r
      <3>1. jobs' = [jobs EXCEPT ![i] = r] BY <1>8
      <3>2. r.state = "running" /\ r.state # "pending" /\ jobs[i].state \in ActiveStates
        BY <1>8, <2>2 DEF ActiveStates
      <3> HIDE DEF r
      <3> QED BY <2>2, <3>1, <3>2, RowUpdated
    <2>4. JobsSound(jobs', nextGen') BY <1>2, <2>3, LaterJobs
    <2>5. run' \in RunRow
      <3>1. jobs[i].gen \in 0 .. MaxGen /\ jobs[i].key \in Keys BY <2>1 DEF JobRow, Gens
      <3> QED BY <1>0, <1>8, <3>1 DEF RunRow, RunPhases
    <2>6. RunSound(run', jobs') BY <1>8, <2>2, <2>3, <2>5 DEF RunSound
    <2> QED BY <1>8, <2>4, <2>6, FencedUploads
  <1>9. ASSUME \A i \in DOMAIN jobs : jobs[i].state \notin ActiveStates,
               jobs' = Append(jobs, [key |-> <<"watcher", 0, nextGen>>, gen |-> nextGen,
                                     state |-> "running", payload |-> 0, attempt |-> 1]),
               run' = [who |-> "watcher", key |-> <<"watcher", 0, nextGen>>, phase |-> "scanned",
                       gen |-> nextGen, version |-> problem.version + 1,
                       content |-> watcher.content],
               uploads' = Fenced
        PROVE  Done
    <2> DEFINE k == <<"watcher", 0, nextGen>>
               r == [key |-> k, gen |-> nextGen, state |-> "running", payload |-> 0, attempt |-> 1]
    <2>1. k \in Keys /\ k[1] = "watcher" /\ k[3] = nextGen BY <1>2 DEF Keys
    <2>2. /\ r \in JobRow /\ r.key = k /\ r.state = "running" /\ r.gen = nextGen
      <3> HIDE DEF k
      <3> QED BY <1>2, <2>1 DEF JobRow, MaxAttempts
    <2>3. \A i \in DOMAIN jobs : jobs[i].key # k
      BY <1>0, <1>2, <2>1 DEF JobsSound
    <2>4. nextGen < nextGen' /\ nextGen' \in Nat BY <1>1, <1>2
    <2>5. /\ JobsSound(jobs', nextGen')
          /\ jobs'[Len(jobs) + 1] = r /\ Len(jobs) + 1 \in DOMAIN jobs'
      <3>1. jobs' = Append(jobs, r) BY <1>9
      <3> HIDE DEF k, r
      <3> QED BY <1>7, <1>9, <2>1, <2>2, <2>3, <2>4, <3>1, InsertedJob
    <2>6. run' \in RunRow
      <3>1. nextGen \in 0 .. MaxGen BY <1>2 DEF Gens
      <3> QED BY <1>0, <1>9, <2>1, <3>1 DEF RunRow, RunPhases
    <2>7. RunSound(run', jobs') BY <1>9, <2>2, <2>5, <2>6 DEF RunSound
    <2> QED BY <1>9, <2>5, <2>7, FencedUploads
  <1>10. Done
    <2>1. CASE UNCHANGED <<jobs, run, uploads>>
      BY <1>0, <1>7, <2>1
    <2> HIDE DEF Done
    <2> QED BY <1>8, <1>9, <2>1, WatcherClaimCases
  <1>11. JobsSound(jobs, nextGen)' /\ RunSound(run, jobs)'
    BY <1>10 DEF JobsSound, RunSound
  <1> QED BY <1>1, <1>2, <1>3, <1>4, <1>5, <1>6, <1>10, <1>11 DEF Typed, spent

LEMMA TypeStep ==
  ASSUME Typed, [Next]_vars
  PROVE  Typed'
  <1>1. CASE UNCHANGED vars
    BY <1>1 DEF vars, rows, tasks, spent, Typed, JobsSound, SchedSound, RunSound
  <1>2. CASE Next
    BY <1>2, TypeScheduling, TypeLeases, TypeWork, TypeOtherJobs, TypeWatcherClaim
       DEF Next, SchedulerStep, OtherJobs
  <1> QED BY <1>1, <1>2

LEMMA InitTyped ==
  ASSUME Init
  PROVE  Typed
  <1> USE BackupAssumption
  <1>1. JobsSound(<<>>, 1)
    BY DEF JobsSound
  <1>2. SchedSound BY IdleTyped DEF Init, SchedSound
  <1>3. snaps \in [Gens -> SnapRow] BY SnapTypes DEF Init, SnapStates
  <1>4. usage \in UsageRow /\ usage.round = 0 BY DEF Init, UsageRow
  <1>5. problem \in ProblemRow /\ (problem.dirty <=> problem.gen # 0) BY DEF Init, ProblemRow
  <1>6. JobsSound(jobs, nextGen) /\ RunSound(run, jobs)
    BY <1>1, NoRunSound DEF Init
  <1>7. watcher \in [busy : BOOLEAN, content : 0 .. MaxEdits] /\ uploads \subseteq Upload
    BY DEF Init, NotClaimed
  <1>8. /\ disk \in 0 .. MaxEdits /\ nextGen \in 1 .. MaxGen + 1
        /\ notified \in 0 .. MaxEdits /\ requests \in Nat
    BY DEF Init
  <1>a. event \in BOOLEAN /\ missed \in BOOLEAN
    BY Zenon DEF Init
  <1>9. Rounds # 0 => usage.round < Rounds BY <1>4
  <1> QED BY <1>2, <1>3, <1>4, <1>5, <1>6, <1>7, <1>8, <1>9, <1>a DEF Typed

LEMMA TypedIsTypeOK ==
  ASSUME Typed
  PROVE  TypeOK
  <1>1. Cardinality(Active) <= 1
    <2>1. \A i, j \in Active : i = j
      BY DEF Typed, JobsSound, Active, Holding, ActiveStates
    <2>2. CASE Active = {} BY <2>2, FS_EmptySet
    <2>3. CASE Active # {}
      <3>1. PICK i \in Active : TRUE BY <2>3
      <3>2. Active = {i} BY <2>1, <3>1
      <3> QED BY <3>2, FS_Singleton
    <2> QED BY <2>2, <2>3
  <1>2. \A i \in DOMAIN jobs : jobs[i] \in JobRow BY JobTypes
  <1>3. run # NoRun => \E i \in Holding({"running"}) : jobs[i].key = run.key /\ jobs[i].gen = run.gen
    BY DEF Typed, RunSound, Holding
  <1> QED BY <1>1, <1>2, <1>3
          DEF Typed, TypeOK, SchedSound, RunSound, ProblemRow, UsageRow, SnapRow, SnapStates, JobRow,
              SchedRow, SchedPhases, RunRow, RunPhases, Upload

\* Typed is inductive, and stronger than TypeOK.
LEMMA TypedAlways == Spec => []Typed
  <1> QED BY InitTyped, TypeStep, PTL DEF Spec

\* TypeCorrect: the rows, leases and tasks of the backup keep the shapes the
\* code gives them: one active job, a dirty mark always with its generation,
\* and every lease that of the running job (createJob, acquireJob and the
\* watcher's acquire_dirty_snapshot_job_by_code, interleaved in any way).
THEOREM TypeCorrect == Spec => []TypeOK
  <1> QED BY TypedAlways, TypedIsTypeOK, PTL

-----------------------------------------------------------------------------
(* Part 2: a READY generation that only moves on, and rounds that are never reused *)

\* The READY row, if any, is what it was.
ReadyKept ==
  \A g \in Gens : /\ snaps'[g].state = "ready" <=> snaps[g].state = "ready"
                  /\ snaps[g].state = "ready" => snaps'[g] = snaps[g]

\* What each kind of step does to the usage row.
LEMMA UsageStep ==
  ASSUME Typed, [Next]_vars
  PROVE  \/ \E g \in 0 .. MaxGen : usage' = [usage EXCEPT !.gen = g]
         \/ UNCHANGED usage \/ usage' = Unparked(usage)
         \/ \E pm \in BOOLEAN, st \in {"completed", "failed"} : usage' = Outcome(usage, st, pm)
         \/ usage' = [usage EXCEPT !.failed = "old"]
  <1>1. CASE UNCHANGED vars BY <1>1 DEF vars, rows
  <1>2. CASE Edit BY <1>2 DEF Edit, rows
  <1>3. ASSUME NEW s \in Schedulers, NotifyDirty(s) \/ ScheduleAgain(s) \/ ScheduleBatch(s)
        PROVE  UNCHANGED usage \/ usage' = Unparked(usage)
    BY <1>3 DEF NotifyDirty, ScheduleAgain, ScheduleBatch, rows
  <1>4. ASSUME NEW s \in Schedulers,
               RequestSnapshot(s) \/ BackfillSnapshot(s) \/ SchedulerStep(s)
        PROVE  UNCHANGED usage
    BY <1>4 DEF RequestSnapshot, BackfillSnapshot, SchedulerStep, ReadRound, AllocateGeneration,
                CreateSnapshotJob, WritePayload, rows
  <1>5. CASE AcquireJob \/ WorkerScan \/ ClaimSnapshot \/ UploadFails \/ WorkerClears \/ WatcherScan
             \/ LoseLease \/ ControlPlaneRestart \/ DataPlaneRestart \/ SweepStalled \/ PurgeTerminalJob
    BY <1>5 DEF AcquireJob, WorkerScan, ClaimSnapshot, UploadFails, WorkerClears, WatcherScan, LoseLease,
                ControlPlaneRestart, DataPlaneRestart, SweepStalled, PurgeTerminalJob, rows
  <1>6. CASE FailExpiredJob \/ CompleteJob \/ WorkerFails \/ WatcherFails
    <2>1. CASE FailExpiredJob BY <2>1 DEF FailExpiredJob
    <2>2. CASE CompleteJob BY <2>2 DEF CompleteJob, Finish
    <2>3. CASE WorkerFails
      <3>1. \E pm \in BOOLEAN : Finish("failed", pm) BY <2>3 DEF WorkerFails
      <3> QED BY <3>1 DEF Finish
    <2>4. CASE WatcherFails BY <2>4 DEF WatcherFails
    <2> QED BY <1>6, <2>1, <2>2, <2>3, <2>4
  <1>7. CASE WatcherClaim BY <1>7 DEF WatcherClaim
  <1>8. CASE BackoffExpires BY <1>8 DEF BackoffExpires
  <1>9. CASE UploadLands
    <2>1. PICK u \in uploads : usage' = [usage EXCEPT !.gen = u.gen] BY <1>9 DEF UploadLands
    <2>2. u.gen \in 0 .. MaxGen BY BackupAssumption DEF Typed, Upload, Gens
    <2> QED BY <2>1, <2>2
  <1>10. CASE OtherJobs BY <1>10, OtherJobsStep
  <1> QED BY <1>1, <1>2, <1>3, <1>4, <1>5, <1>6, <1>7, <1>8, <1>9, <1>10 DEF Next, OtherJobs

\* The steps that write the snapshots table.
LEMMA RowsChanging ==
  ASSUME [Next]_vars
  PROVE  ClaimSnapshot \/ UploadFails \/ SweepStalled \/ UploadLands \/ UNCHANGED snaps
  <1>1. CASE UNCHANGED vars BY <1>1 DEF vars, rows
  <1>2. ASSUME NEW s \in Schedulers,
               \/ NotifyDirty(s) \/ ScheduleAgain(s) \/ ScheduleBatch(s)
               \/ RequestSnapshot(s) \/ BackfillSnapshot(s) \/ SchedulerStep(s)
        PROVE  UNCHANGED snaps
    BY <1>2 DEF NotifyDirty, ScheduleAgain, ScheduleBatch, RequestSnapshot, BackfillSnapshot,
                SchedulerStep, ReadRound, AllocateGeneration, CreateSnapshotJob, WritePayload, rows
  <1>3. CASE \/ Edit \/ AcquireJob \/ WorkerScan \/ WorkerClears \/ WatcherScan \/ WatcherClaim
             \/ LoseLease \/ ControlPlaneRestart \/ DataPlaneRestart \/ BackoffExpires
             \/ PurgeTerminalJob \/ FailExpiredJob \/ WatcherFails
    BY <1>3 DEF Edit, AcquireJob, WorkerScan, WorkerClears, WatcherScan, WatcherClaim, LoseLease,
                ControlPlaneRestart, DataPlaneRestart, BackoffExpires, PurgeTerminalJob,
                FailExpiredJob, WatcherFails, rows
  <1>4. CASE CompleteJob \/ WorkerFails
    BY <1>4 DEF CompleteJob, WorkerFails, Finish
  <1>5. CASE OtherJobs BY <1>5 DEF OtherJobs, ScanOverwrites, RecordReady, LeaseOtherJob, rows
  <1> QED BY <1>1, <1>2, <1>3, <1>4, <1>5 DEF Next, OtherJobs

\* A claim, an error and a sweep change a row that is not READY.
LEMMA ReadyStep ==
  ASSUME Typed, [Next]_vars
  PROVE  UploadLands \/ ReadyKept
  <1>0. snaps \in [Gens -> SnapRow] BY DEF Typed
  <1>a. Snap("active").state = "active" /\ Snap("error").state = "error"
    BY SnapTypes DEF SnapStates
  <1>u. UNCHANGED snaps => ReadyKept BY DEF ReadyKept
  <1>r. ASSUME NEW g \in Gens, snaps[g].state # "ready", NEW r, r.state # "ready",
               snaps' = [snaps EXCEPT ![g] = r]
        PROVE  ReadyKept
    BY <1>0, <1>r DEF ReadyKept
  <1>1. CASE ClaimSnapshot
    <2>0. run.gen \in Gens BY <1>1, LeaseHeld, RunTypes DEF ClaimSnapshot
    <2>1. CASE Claimable(run.gen) /\ snaps' = [snaps EXCEPT ![run.gen] = Snap("active")]
      <3>1. snaps[run.gen].state # "ready" BY <2>1 DEF Claimable, Stalled
      <3> QED BY <1>1, <1>a, <1>r, <2>0, <2>1, <3>1 DEF ClaimSnapshot
    <2>2. CASE UNCHANGED snaps BY <1>u, <2>2
    <2> QED BY <1>1, <2>1, <2>2 DEF ClaimSnapshot
  <1>2. CASE UploadFails
    <2>1. PICK u \in uploads :
            snaps' = IF snaps[u.gen].state = "ready" THEN snaps
                     ELSE [snaps EXCEPT ![u.gen] =
                             [Snap("error") EXCEPT !.integrity = u.content \in Unusable]]
      BY <1>2 DEF UploadFails
    <2>2. u.gen \in Gens BY DEF Typed, Upload
    <2>4. CASE snaps[u.gen].state = "ready"
      BY <1>u, <2>1, <2>4
    <2>5. CASE snaps[u.gen].state # "ready"
      <3> DEFINE r == [Snap("error") EXCEPT !.integrity = u.content \in Unusable]
      <3>1. r.state = "error" BY <1>a DEF Snap
      <3>2. snaps' = [snaps EXCEPT ![u.gen] = r] BY <2>1, <2>5
      <3> HIDE DEF r
      <3> QED BY <1>r, <2>2, <2>5, <3>1, <3>2
    <2> QED BY <2>4, <2>5
  <1>3. CASE SweepStalled
    <2>1. PICK g \in Gens : Stalled(g) /\ snaps' = [snaps EXCEPT ![g] = Snap("error")]
      BY <1>3 DEF SweepStalled
    <2>2. snaps[g].state # "ready" BY <2>1 DEF Stalled
    <2> QED BY <1>3, <1>a, <1>r, <2>1, <2>2 DEF SweepStalled
  <1>4. CASE UploadLands \/ UNCHANGED snaps
    BY <1>4, <1>u
  <1> QED BY <1>1, <1>2, <1>3, <1>4, RowsChanging

\* The READY transaction: the newest generation, and no other, is READY.
LEMMA LandedRows ==
  ASSUME Typed, UploadLands
  PROVE  \E u \in uploads :
           /\ CanLand(u) /\ u.gen \in Gens /\ u \in Upload
           /\ snaps'[u.gen].state = "ready" /\ snaps'[u.gen].content = u.content
           /\ \A g \in Gens \ {u.gen} :
                /\ g < u.gen => snaps'[g].state # "ready"
                /\ ~(g < u.gen) => snaps'[g] = snaps[g]
                /\ snaps[g].state = "none" => snaps'[g].state = "none"
           /\ usage' = [usage EXCEPT !.gen = u.gen]
           /\ problem' = Cleared(problem, u.gen, u.version)
           /\ uploads' = uploads \ {u} /\ run' = Ended(u, "landed")
           /\ UNCHANGED <<disk, event, nextGen, jobs, sched, watcher, spent, notified, missed>>
  <1>1. PICK u \in uploads :
          /\ CanLand(u)
          /\ snaps' = [g \in Gens |->
                         IF g = u.gen THEN [Snap("ready") EXCEPT !.content = u.content]
                         ELSE IF g < u.gen /\ snaps[g].state = "ready" THEN Snap("superseded")
                         ELSE snaps[g]]
          /\ usage' = [usage EXCEPT !.gen = u.gen]
          /\ problem' = Cleared(problem, u.gen, u.version)
          /\ uploads' = uploads \ {u} /\ run' = Ended(u, "landed")
          /\ UNCHANGED <<disk, event, nextGen, jobs, sched, watcher, spent, notified, missed>>
    BY DEF UploadLands
  <1>2. u \in Upload /\ u.gen \in Gens /\ u.content \in 0 .. MaxEdits
    BY DEF Typed, Upload
  <1>3. /\ [Snap("ready") EXCEPT !.content = u.content].state = "ready"
        /\ [Snap("ready") EXCEPT !.content = u.content].content = u.content
        /\ Snap("superseded").state = "superseded"
    BY <1>2, SnapTypes DEF SnapStates
  <1>4. snaps'[u.gen].state = "ready" /\ snaps'[u.gen].content = u.content
    BY <1>1, <1>2, <1>3
  <1>5. ASSUME NEW g \in Gens \ {u.gen}
        PROVE  /\ g < u.gen => snaps'[g].state # "ready"
               /\ ~(g < u.gen) => snaps'[g] = snaps[g]
               /\ snaps[g].state = "none" => snaps'[g].state = "none"
    BY <1>1, <1>3
  <1> QED BY <1>1, <1>2, <1>4, <1>5

\* The index on READY rows, as an invariant.
AtMostOneReady ==
  \A g, h \in Gens : snaps[g].state = "ready" /\ snaps[h].state = "ready" => g = h

\* One generation of the next state is READY, and it is g or a later one.
ReadyMoves(g) ==
  \E h \in Gens : h >= g /\ \A k \in Gens : snaps'[k].state = "ready" <=> k = h

\* A landing leaves one READY row, above the one there was.
LEMMA LandsAbove ==
  ASSUME Typed, UploadLands
  PROVE  \E h \in Gens :
           /\ \A k \in Gens : snaps'[k].state = "ready" <=> k = h
           /\ \A g \in Gens : snaps[g].state = "ready" => g < h
  <1>1. PICK u \in uploads :
         /\ CanLand(u) /\ u.gen \in Gens
         /\ snaps'[u.gen].state = "ready"
         /\ \A g \in Gens \ {u.gen} :
              /\ g < u.gen => snaps'[g].state # "ready"
              /\ ~(g < u.gen) => snaps'[g] = snaps[g]
    BY LandedRows
  <1>2. \A g \in Gens : snaps[g].state = "ready" => g < u.gen
    BY <1>1 DEF CanLand
  <1>3. \A k \in Gens : snaps'[k].state = "ready" <=> k = u.gen
    BY <1>1, <1>2
  <1> QED BY <1>1, <1>2, <1>3

LEMMA ReadyForwardStep ==
  ASSUME Typed, AtMostOneReady, [Next]_vars
  PROVE  /\ AtMostOneReady'
         /\ \A g \in Gens : snaps[g].state = "ready" => ReadyMoves(g)
  <1>1. CASE ReadyKept
    <2>1. AtMostOneReady' BY <1>1 DEF ReadyKept, AtMostOneReady
    <2>2. ASSUME NEW g \in Gens, snaps[g].state = "ready"
          PROVE  ReadyMoves(g)
      <3>1. \A k \in Gens : snaps'[k].state = "ready" <=> k = g
        BY <1>1, <2>2 DEF ReadyKept, AtMostOneReady
      <3>2. g >= g BY DEF Gens
      <3> QED BY <3>1, <3>2 DEF ReadyMoves
    <2> QED BY <2>1, <2>2
  <1>2. CASE UploadLands
    <2>1. PICK h \in Gens :
            /\ \A k \in Gens : snaps'[k].state = "ready" <=> k = h
            /\ \A g \in Gens : snaps[g].state = "ready" => g < h
      BY <1>2, LandsAbove
    <2>2. AtMostOneReady' BY <2>1 DEF AtMostOneReady
    <2>3. \A g \in Gens : g < h => h >= g BY DEF Gens
    <2> QED BY <2>1, <2>2, <2>3 DEF ReadyMoves
  <1> QED BY <1>1, <1>2, ReadyStep

\* ReadyMovesForward: once a generation is READY, exactly one is and it is
\* never an older one, whichever uploads of whichever leases land, fail, are
\* taken over or are swept, and whatever scans, restores and the reconcile pass
\* record meanwhile (finalize_snapshot_cas, idx_snapshots_one_ready_problem,
\* mark_snapshot_error, failStalledSnapshots, upsertProblemUsage).  Manual
\* requests may name any generation.
THEOREM ReadyMovesForward == Spec => ReadyForward
  <1>1. Init => AtMostOneReady
    BY SnapTypes DEF Init, AtMostOneReady, SnapStates
  <1>2. Typed /\ AtMostOneReady /\ [Next]_vars => AtMostOneReady'
    BY ReadyForwardStep
  <1>3. Typed /\ AtMostOneReady /\ [Next]_vars =>
          [\A g \in Gens : snaps[g].state = "ready" => ReadyMoves(g)]_vars
    BY ReadyForwardStep
  <1>4. Spec => [][\A g \in Gens : snaps[g].state = "ready" => ReadyMoves(g)]_vars
    BY <1>1, <1>2, <1>3, TypedAlways, PTL DEF Spec
  <1>5. ReadyForward <=> [][\A g \in Gens : snaps[g].state = "ready" => ReadyMoves(g)]_vars
    BY DEF ReadyForward, ReadyMoves
  <1> QED BY <1>4, <1>5

\* A row of the next jobs table: one that was there, perhaps ended; one a
\* scheduler inserts; or the watcher's.
OldRow(i) ==
  \E j \in DOMAIN jobs :
    /\ jobs'[i].key = jobs[j].key /\ jobs'[i].gen = jobs[j].gen
    /\ jobs'[i].state \notin ActiveStates =>
         jobs[j].state \notin ActiveStates \/ usage'.round = NextRound(usage.round)
CreatedRow(i) ==
  \E s \in Schedulers : /\ sched[s].phase = "create" /\ jobs'[i].key = sched[s].key
                        /\ jobs'[i].gen = sched[s].gen /\ jobs'[i].state = "pending"
WatcherRow(i) == /\ jobs'[i].key[1] = "watcher" /\ jobs'[i].gen = nextGen
                 /\ nextGen' = nextGen + 1
RowsFollow == \A i \in DOMAIN jobs' : OldRow(i) \/ CreatedRow(i) \/ WatcherRow(i)

LEMMA SameRowsFollow ==
  ASSUME Typed, UNCHANGED jobs
  PROVE  RowsFollow
  BY DEF RowsFollow, OldRow

\* One row is replaced by r.
LEMMA OneRowFollows ==
  ASSUME Typed, NEW i \in DOMAIN jobs, NEW r \in JobRow, jobs' = [jobs EXCEPT ![i] = r],
         r.key = jobs[i].key, r.gen = jobs[i].gen,
         r.state \notin ActiveStates =>
           jobs[i].state \notin ActiveStates \/ usage'.round = NextRound(usage.round)
  PROVE  RowsFollow
  <1>1. jobs = [j \in DOMAIN jobs |-> jobs[j]]
    <2>1. jobs \in Seq(JobRow) BY DEF Typed, JobsSound
    <2> QED BY <2>1
  <1>2. DOMAIN jobs' = DOMAIN jobs /\ jobs'[i] = r /\ \A j \in DOMAIN jobs : j # i => jobs'[j] = jobs[j]
    BY <1>1
  <1> QED BY <1>2 DEF RowsFollow, OldRow

LEMMA JobsStep ==
  ASSUME Typed, [Next]_vars
  PROVE  RowsFollow
  <1>f. \A st : \A pm \in BOOLEAN : Outcome(usage, st, pm).round = NextRound(usage.round)
    BY UsageUpdates
  <1>1. CASE UNCHANGED jobs BY <1>1, SameRowsFollow
  <1>2. CASE AcquireJob
    <2>1. PICK i \in Active :
            jobs' = [jobs EXCEPT ![i].state = "running",
                                 ![i].attempt = IF jobs[i].state = "pending" THEN @ ELSE @ + 1]
      BY <1>2 DEF AcquireJob
    <2>2. i \in DOMAIN jobs BY DEF Active, Holding
    <2> DEFINE a == IF jobs[i].state = "pending" THEN jobs[i].attempt ELSE jobs[i].attempt + 1
    <2>3. jobs' = [jobs EXCEPT ![i].state = "running", ![i].attempt = a]
      BY <2>1, Zenon
    <2> HIDE DEF a
    <2> DEFINE r == [key |-> jobs[i].key, gen |-> jobs[i].gen, state |-> "running",
                     payload |-> jobs[i].payload, attempt |-> a]
    <2>4. jobs' = [jobs EXCEPT ![i] = r]
      <3>1. [jobs EXCEPT ![i].state = "running", ![i].attempt = a] = [jobs EXCEPT ![i] = r]
        BY <2>2, AttemptSet, Zenon
      <3> HIDE DEF r
      <3> QED BY <2>3, <3>1, Zenon
    <2>5. jobs = [j \in DOMAIN jobs |-> jobs[j]]
      <3>1. jobs \in Seq(JobRow) BY DEF Typed, JobsSound
      <3> QED BY <3>1
    <2>6. /\ DOMAIN jobs' = DOMAIN jobs /\ jobs'[i] = r
          /\ \A j \in DOMAIN jobs : j # i => jobs'[j] = jobs[j]
      <3> HIDE DEF r
      <3> QED BY <2>2, <2>4, <2>5
    <2> QED BY <2>2, <2>6 DEF RowsFollow, OldRow, ActiveStates
  <1>3. CASE FailExpiredJob
    <2>1. PICK i \in DOMAIN jobs : jobs' = [jobs EXCEPT ![i].state = "failed"]
      BY <1>3 DEF FailExpiredJob, Holding
    <2> DEFINE r == [jobs[i] EXCEPT !.state = "failed"]
    <2>2. r \in JobRow /\ r.key = jobs[i].key /\ r.gen = jobs[i].gen
      BY JobTypes DEF JobRow
    <2>3. usage'.round = NextRound(usage.round) BY <1>3, <1>f DEF FailExpiredJob
    <2>4. jobs' = [jobs EXCEPT ![i] = r] BY <2>1
    <2> HIDE DEF r
    <2> QED BY <2>2, <2>3, <2>4, OneRowFollows
  <1>e. ASSUME NEW st \in {"completed", "failed"}, NEW pm \in BOOLEAN, Finish(st, pm), run # NoRun
        PROVE  RowsFollow
    <2> DEFINE i == Row(run.key)
               r == [key |-> jobs[i].key, gen |-> jobs[i].gen, state |-> st, payload |-> 0,
                     attempt |-> jobs[i].attempt]
    <2>1. i \in DOMAIN jobs /\ jobs[i] \in JobRow BY <1>e, RunTypes, JobTypes
    <2>2. r \in JobRow /\ r.key = jobs[i].key /\ r.gen = jobs[i].gen
      BY <2>1 DEF JobRow
    <2>3. jobs' = [jobs EXCEPT ![i] = r]
      <3>1. jobs' = [jobs EXCEPT ![i].state = st, ![i].payload = 0]
        BY <1>e DEF Finish
      <3> HIDE DEF i
      <3>2. [jobs EXCEPT ![i].state = st, ![i].payload = 0] = [jobs EXCEPT ![i] = r]
        BY <2>1, PayloadSet, Zenon
      <3> HIDE DEF r
      <3> QED BY <3>1, <3>2, Zenon
    <2>4. usage'.round = NextRound(usage.round) BY <1>e, <1>f DEF Finish
    <2> HIDE DEF r, i
    <2> QED BY <2>1, <2>2, <2>3, <2>4, OneRowFollows
  <1>4. CASE CompleteJob
    BY <1>4, <1>e, LeaseHeld DEF CompleteJob
  <1>5. CASE WorkerFails
    <2>1. run # NoRun BY <1>5, LeaseHeld DEF WorkerFails
    <2>2. \E pm \in BOOLEAN : Finish("failed", pm)
      BY <1>5 DEF WorkerFails
    <2> QED BY <1>e, <2>1, <2>2
  <1>6. CASE WatcherFails
    <2> DEFINE i == Row(run.key)
               st == IF jobs[i].attempt < MaxAttempts THEN "pending" ELSE "failed"
               r == [jobs[i] EXCEPT !.state = st]
    <2>0. run # NoRun BY <1>6, LeaseHeld DEF WatcherFails
    <2>1. i \in DOMAIN jobs /\ jobs[i] \in JobRow BY <2>0, RunTypes, JobTypes
    <2>2. r \in JobRow /\ r.key = jobs[i].key /\ r.gen = jobs[i].gen /\ r.state = st
      BY <2>1 DEF JobRow
    <2>3. jobs' = [jobs EXCEPT ![i] = r]
      BY <1>6 DEF WatcherFails
    <2>4. r.state \notin ActiveStates => usage'.round = NextRound(usage.round)
      BY <1>6, <1>f, <2>2 DEF WatcherFails, ActiveStates
    <2> HIDE DEF r, i, st
    <2> QED BY <2>1, <2>2, <2>3, <2>4, OneRowFollows
  <1>7. CASE PurgeTerminalJob
    <2>1. \A i \in DOMAIN jobs' : i + 1 \in DOMAIN jobs /\ jobs'[i] = jobs[i + 1]
      BY <1>7, PurgedJob DEF PurgeTerminalJob, Typed
    <2> QED BY <2>1 DEF RowsFollow, OldRow
  <1>8. ASSUME NEW s \in Schedulers, WritePayload(s)
        PROVE  RowsFollow
    <2>1. ASSUME NEW i \in DOMAIN jobs'
          PROVE  i \in DOMAIN jobs /\ jobs'[i].key = jobs[i].key /\ jobs'[i].gen = jobs[i].gen
                 /\ jobs'[i].state = jobs[i].state
      <3>1. /\ i \in DOMAIN jobs
            /\ jobs'[i] = jobs[i] \/ jobs'[i] = [jobs[i] EXCEPT !.payload = sched[s].version]
        BY <1>8 DEF WritePayload
      <3> QED BY <3>1, JobTypes DEF JobRow
    <2> QED BY <2>1 DEF RowsFollow, OldRow
  <1>9. ASSUME NEW s \in Schedulers, CreateSnapshotJob(s), jobs' # jobs
        PROVE  RowsFollow
    <2> DEFINE r == [key |-> sched[s].key, gen |-> sched[s].gen, state |-> "pending",
                     payload |-> 0, attempt |-> 1]
    <2>1. jobs' = Append(jobs, r) /\ sched[s].phase = "create"
      BY <1>9 DEF CreateSnapshotJob
    <2>2. jobs \in Seq(JobRow) /\ DOMAIN jobs = 1 .. Len(jobs) /\ Len(jobs) \in Nat
      BY SeqFacts DEF Typed, JobsSound
    <2>3. r \in JobRow
      <3>1. sched[s].key \in Keys /\ sched[s].gen \in Gens
        BY <2>1 DEF Typed, SchedSound, SchedRow
      <3> QED BY <3>1 DEF JobRow, MaxAttempts
    <2>4. \A i \in DOMAIN jobs' : (i \in DOMAIN jobs /\ jobs'[i] = jobs[i]) \/ jobs'[i] = r
      <3> HIDE DEF r
      <3> QED BY <2>1, <2>2, <2>3, AppendFacts
    <2> QED BY <2>1, <2>4 DEF RowsFollow, OldRow, CreatedRow
  <1>10. CASE WatcherClaim
    <2>1. nextGen' = nextGen + 1 /\ nextGen \in Gens
      BY <1>10 DEF WatcherClaim, Typed, Gens
    <2>2. ASSUME NEW i \in DOMAIN jobs,
                 jobs' = [jobs EXCEPT ![i] = [key |-> jobs[i].key, gen |-> jobs[i].gen,
                            state |-> "running", payload |-> jobs[i].payload,
                            attempt |-> jobs[i].attempt + 1]]
          PROVE  RowsFollow
      <3> DEFINE r == [key |-> jobs[i].key, gen |-> jobs[i].gen, state |-> "running",
                       payload |-> jobs[i].payload, attempt |-> jobs[i].attempt + 1]
      <3>1. jobs = [j \in DOMAIN jobs |-> jobs[j]]
        <4>1. jobs \in Seq(JobRow) BY DEF Typed, JobsSound
        <4> QED BY <4>1
      <3>2. /\ DOMAIN jobs' = DOMAIN jobs /\ jobs'[i] = r
            /\ \A j \in DOMAIN jobs : j # i => jobs'[j] = jobs[j]
        <4>1. jobs' = [jobs EXCEPT ![i] = r] BY <2>2
        <4> HIDE DEF r
        <4> QED BY <3>1, <4>1
      <3> QED BY <3>2 DEF RowsFollow, OldRow, ActiveStates
    <2>3. ASSUME jobs' = Append(jobs, [key |-> <<"watcher", 0, nextGen>>, gen |-> nextGen,
                                       state |-> "running", payload |-> 0, attempt |-> 1])
          PROVE  RowsFollow
      <3> DEFINE k == <<"watcher", 0, nextGen>>
                 r == [key |-> k, gen |-> nextGen, state |-> "running", payload |-> 0, attempt |-> 1]
      <3>1. jobs \in Seq(JobRow) /\ DOMAIN jobs = 1 .. Len(jobs) /\ Len(jobs) \in Nat
        BY SeqFacts DEF Typed, JobsSound
      <3>2. k \in Keys /\ k[1] = "watcher" BY <2>1 DEF Keys, Gens
      <3>3. r \in JobRow /\ r.key = k /\ r.gen = nextGen
        <4> HIDE DEF k
        <4> QED BY <2>1, <3>2 DEF JobRow, MaxAttempts
      <3>4. \A i \in DOMAIN jobs' : (i \in DOMAIN jobs /\ jobs'[i] = jobs[i]) \/ jobs'[i] = r
        <4>1. jobs' = Append(jobs, r) BY <2>3
        <4> HIDE DEF r
        <4> QED BY <3>1, <3>3, <4>1, AppendFacts
      <3> HIDE DEF r, k
      <3> QED BY <2>1, <3>2, <3>3, <3>4 DEF RowsFollow, OldRow, WatcherRow
    <2> QED BY <1>1, <1>10, <2>2, <2>3, WatcherClaimCases
  <1> QED
    <2>1. CASE UNCHANGED vars BY <1>1, <2>1 DEF vars, rows
    <2>2. ASSUME NEW s \in Schedulers,
                 \/ NotifyDirty(s) \/ ScheduleAgain(s) \/ ScheduleBatch(s)
                 \/ RequestSnapshot(s) \/ BackfillSnapshot(s) \/ SchedulerStep(s)
          PROVE  RowsFollow
      BY <1>1, <1>8, <1>9, <2>2
         DEF NotifyDirty, ScheduleAgain, ScheduleBatch, RequestSnapshot, BackfillSnapshot,
             SchedulerStep, ReadRound, AllocateGeneration, rows
    <2>3. CASE \/ Edit \/ WorkerScan \/ ClaimSnapshot \/ UploadLands \/ UploadFails \/ WorkerClears
               \/ WatcherScan \/ LoseLease \/ ControlPlaneRestart \/ DataPlaneRestart
               \/ SweepStalled \/ BackoffExpires
      BY <1>1, <2>3 DEF Edit, WorkerScan, ClaimSnapshot, UploadLands, UploadFails, WorkerClears,
                        WatcherScan, LoseLease, ControlPlaneRestart, DataPlaneRestart, SweepStalled,
                        BackoffExpires, rows
    <2>4. CASE OtherJobs BY <1>1, <2>4, OtherJobsStep
    <2> QED BY <1>2, <1>3, <1>4, <1>5, <1>6, <1>7, <1>10, <2>1, <2>2, <2>3, <2>4 DEF Next, OtherJobs

\* A key of the automatic schedulers carries the round it was built in, which
\* is past once a job of that key has ended.
JobRounds ==
  \A i \in DOMAIN jobs :
    jobs[i].key[1] = "auto" =>
      /\ jobs[i].key[3] <= usage.round
      /\ jobs[i].state \notin ActiveStates => jobs[i].key[3] < usage.round

SchedRounds ==
  \A s \in Schedulers :
    /\ sched[s].phase \in {"allocate", "create"} /\ sched[s].key[1] = "auto"
    => sched[s].key[3] <= usage.round

\* With Rounds = 0 the round only grows, as the column's does.
LEMMA RoundGrows ==
  ASSUME Typed, Rounds = 0, [Next]_vars
  PROVE  /\ usage.round \in Nat /\ usage'.round \in Nat /\ usage'.round >= usage.round
         /\ NextRound(usage.round) = usage.round + 1
  <1>1. usage \in UsageRow BY DEF Typed
  <1>2. NextRound(usage.round) = usage.round + 1 BY DEF NextRound
  <1>3. usage'.round \in {usage.round, NextRound(usage.round)}
    <2>1. ASSUME NEW g \in 0 .. MaxGen, usage' = [usage EXCEPT !.gen = g]
          PROVE  usage'.round = usage.round
      BY <1>1, <2>1 DEF UsageRow
    <2>2. CASE usage' = [usage EXCEPT !.failed = "old"]
      BY <1>1, <2>2 DEF UsageRow
    <2>3. CASE \/ UNCHANGED usage \/ usage' = Unparked(usage)
               \/ \E pm \in BOOLEAN, st \in {"completed", "failed"} : usage' = Outcome(usage, st, pm)
      BY <2>3, UsageUpdates
    <2> QED BY <2>1, <2>2, <2>3, UsageStep
  <1> QED BY <1>1, <1>2, <1>3 DEF UsageRow

\* A scheduler's next row r, its present one being q: the key is as before, or
\* has the round the scheduler reads now, or is a request's; and the generation
\* is as before, the problem's, a named one or the one allocated now.
SchedFollows(q, r) ==
  /\ r.phase \in {"allocate", "create"} =>
       \/ q.phase \in {"allocate", "create"} /\ r.key = q.key
       \/ r.key[1] = "auto" /\ r.key[3] = usage.round
       \/ r.key[1] # "auto"
  /\ \/ r.gen \in {q.gen, 0, problem.gen, problem'.gen} \cup NamedGens
     \/ r.gen = nextGen /\ nextGen' = nextGen + 1

\* The row of t is replaced by one that follows from it.
SchedMoves(t) ==
  \E r : SchedFollows(sched[t], r) /\ sched' = [sched EXCEPT ![t] = r]

LEMMA SchedStep ==
  ASSUME Typed, [Next]_vars, NEW s \in Schedulers
  PROVE  SchedFollows(sched[s], sched'[s])
  <1>0. sched \in [Schedulers -> SchedRow] BY DEF Typed, SchedSound
  <1>1. CASE UNCHANGED sched BY <1>1 DEF SchedFollows
  <1>2. ASSUME NEW t \in Schedulers, SchedMoves(t)
        PROVE  SchedFollows(sched[s], sched'[s])
    <2>0. PICK r : SchedFollows(sched[t], r) /\ sched' = [sched EXCEPT ![t] = r]
      BY <1>2 DEF SchedMoves
    <2>1. CASE s = t
      <3>1. sched'[s] = r BY <1>0, <2>0, <2>1
      <3> QED BY <2>0, <2>1, <3>1
    <2>2. CASE s # t
      <3>1. sched'[s] = sched[s] BY <1>0, <2>0, <2>2
      <3> QED BY <3>1 DEF SchedFollows
    <2> QED BY <2>1, <2>2
  <1>3. ASSUME NEW t \in Schedulers, NotifyDirty(t) \/ ScheduleAgain(t) \/ ScheduleBatch(t)
        PROVE  SchedMoves(t)
    <2>1. ASSUME NEW p, Pick(t, p), p.gen \in {problem.gen, problem'.gen}
          PROVE  SchedMoves(t)
      <3> DEFINE r == [phase |-> "picked", version |-> p.version, gen |-> p.gen,
                       key |-> <<"none", 0, 0>>]
      <3>1. r.phase = "picked" /\ r.gen = p.gen OBVIOUS
      <3>2. sched' = [sched EXCEPT ![t] = r] BY <2>1 DEF Pick
      <3> HIDE DEF r
      <3>3. SchedFollows(sched[t], r) BY <2>1, <3>1 DEF SchedFollows
      <3> QED BY <3>2, <3>3 DEF SchedMoves
    <2>2. Pick(t, problem) \/ Pick(t, problem')
      BY <1>3 DEF NotifyDirty, ScheduleAgain, ScheduleBatch
    <2> QED BY <2>1, <2>2
  <1>4. ASSUME NEW t \in Schedulers, RequestSnapshot(t) \/ BackfillSnapshot(t)
        PROVE  SchedMoves(t)
    <2>1. CASE RequestSnapshot(t)
      <3>1. PICK g \in NamedGens \cup {problem.gen} :
              sched' = [sched EXCEPT ![t] =
                [phase |-> IF g = 0 THEN "allocate" ELSE "create",
                 version |-> problem.version, gen |-> g, key |-> <<"manual", 0, requests'>>]]
        BY <2>1 DEF RequestSnapshot
      <3> DEFINE r == [phase |-> IF g = 0 THEN "allocate" ELSE "create",
                       version |-> problem.version, gen |-> g, key |-> <<"manual", 0, requests'>>]
      <3>2. r.key[1] # "auto" /\ r.gen = g OBVIOUS
      <3>3. sched' = [sched EXCEPT ![t] = r] BY <3>1
      <3> HIDE DEF r
      <3>4. SchedFollows(sched[t], r) BY <3>2 DEF SchedFollows
      <3> QED BY <3>3, <3>4 DEF SchedMoves
    <2>2. CASE BackfillSnapshot(t)
      <3> DEFINE r == [phase |-> "allocate", version |-> 0, gen |-> 0,
                       key |-> <<"backfill", 0, requests'>>]
      <3>1. r.key[1] # "auto" /\ r.gen = 0 OBVIOUS
      <3>2. sched' = [sched EXCEPT ![t] = r] BY <2>2 DEF BackfillSnapshot
      <3> HIDE DEF r
      <3>3. SchedFollows(sched[t], r) BY <3>1 DEF SchedFollows
      <3> QED BY <3>2, <3>3 DEF SchedMoves
    <2> QED BY <1>4, <2>1, <2>2
  <1>5. ASSUME NEW t \in Schedulers, sched' = [sched EXCEPT ![t] = Idle]
        PROVE  SchedMoves(t)
    <2>1. SchedFollows(sched[t], Idle) BY DEF SchedFollows, Idle
    <2> QED BY <1>5, <2>1 DEF SchedMoves
  <1>6. ASSUME NEW t \in Schedulers, ReadRound(t)
        PROVE  SchedMoves(t)
    <2> DEFINE k == <<"auto", sched[t].version, usage.round>>
               q == [sched[t] EXCEPT !.phase = "create"]
               r == [q EXCEPT !.key = k]
    <2>1. CASE sched' = [sched EXCEPT ![t].phase = "create", ![t].key = k]
      <3>1. q \in SchedRow /\ q.gen = sched[t].gen BY <1>0 DEF SchedRow, SchedPhases
      <3>2. r.key = k /\ k[1] = "auto" /\ k[3] = usage.round /\ r.gen = sched[t].gen
        <4> HIDE DEF q
        <4> QED BY <3>1 DEF SchedRow
      <3> HIDE DEF k
      <3>3. sched' = [sched EXCEPT ![t] = r]
        <4>1. [sched EXCEPT ![t].phase = "create", ![t].key = k] = [sched EXCEPT ![t] = r]
          BY <1>0
        <4> HIDE DEF r
        <4> QED BY <2>1, <4>1, Zenon DEF k
      <3> HIDE DEF r
      <3>4. SchedFollows(sched[t], r) BY <3>2 DEF SchedFollows
      <3> QED BY <3>3, <3>4 DEF SchedMoves
    <2> QED BY <1>5, <1>6, <2>1 DEF ReadRound
  <1>7. ASSUME NEW t \in Schedulers, AllocateGeneration(t)
        PROVE  SchedMoves(t)
    <2> DEFINE q == [sched[t] EXCEPT !.phase = "create"]
               r == [q EXCEPT !.gen = nextGen]
    <2>1. q \in SchedRow /\ q.key = sched[t].key BY <1>0 DEF SchedRow, SchedPhases
    <2>2. r.key = sched[t].key /\ r.gen = nextGen
      <3> HIDE DEF q
      <3> QED BY <2>1 DEF SchedRow
    <2>3. sched' = [sched EXCEPT ![t] = r] BY <1>0, <1>7 DEF AllocateGeneration
    <2> HIDE DEF r
    <2>4. SchedFollows(sched[t], r) BY <1>7, <2>2 DEF SchedFollows, AllocateGeneration
    <2> QED BY <2>3, <2>4 DEF SchedMoves
  <1>8. ASSUME NEW t \in Schedulers, CreateSnapshotJob(t) \/ WritePayload(t)
        PROVE  SchedMoves(t)
    <2>0. sched[t] \in SchedRow BY <1>0
    <2> DEFINE q == [sched[t] EXCEPT !.phase = "payload"]
    <2>1. q \in SchedRow /\ q.phase = "payload" /\ q.gen = sched[t].gen
      BY <2>0 DEF SchedRow, SchedPhases
    <2>2. ASSUME NEW k, sched' = [sched EXCEPT ![t].phase = "payload", ![t].key = k]
          PROVE  SchedMoves(t)
      <3> DEFINE r == [q EXCEPT !.key = k]
      <3>1. r.phase = "payload" /\ r.gen = sched[t].gen
        <4> HIDE DEF q
        <4> QED BY <2>1 DEF SchedRow
      <3>2. sched' = [sched EXCEPT ![t] = r] BY <1>0, <2>2
      <3> HIDE DEF r
      <3>3. SchedFollows(sched[t], r) BY <3>1 DEF SchedFollows
      <3> QED BY <3>2, <3>3 DEF SchedMoves
    <2>3. CASE sched' = [sched EXCEPT ![t].phase = "payload"]
      <3>1. sched' = [sched EXCEPT ![t] = q] BY <2>3
      <3> HIDE DEF q
      <3>2. SchedFollows(sched[t], q) BY <2>1 DEF SchedFollows
      <3> QED BY <3>1, <3>2 DEF SchedMoves
    <2>4. \/ \E k : sched' = [sched EXCEPT ![t].phase = "payload", ![t].key = k]
          \/ sched' = [sched EXCEPT ![t] = Idle]
          \/ sched' = [sched EXCEPT ![t].phase = "payload"]
      BY <1>8 DEF CreateSnapshotJob, WritePayload
    <2> QED BY <1>5, <2>2, <2>3, <2>4
  <1>9. CASE ControlPlaneRestart
    <2>1. sched'[s] = Idle BY <1>9 DEF ControlPlaneRestart
    <2> QED BY <2>1 DEF SchedFollows, Idle
  <1>10. \/ UNCHANGED sched \/ ControlPlaneRestart
         \/ \E t \in Schedulers :
              \/ NotifyDirty(t) \/ ScheduleAgain(t) \/ ScheduleBatch(t)
              \/ RequestSnapshot(t) \/ BackfillSnapshot(t)
              \/ ReadRound(t) \/ AllocateGeneration(t) \/ CreateSnapshotJob(t) \/ WritePayload(t)
    <2>1. CASE UNCHANGED vars BY <2>1 DEF vars, tasks
    <2>2. CASE \/ Edit \/ AcquireJob \/ FailExpiredJob \/ WorkerScan \/ ClaimSnapshot
               \/ UploadLands \/ UploadFails \/ WorkerClears \/ WatcherFails \/ WatcherScan
               \/ WatcherClaim \/ LoseLease \/ DataPlaneRestart \/ SweepStalled \/ BackoffExpires
               \/ PurgeTerminalJob
      BY <2>2 DEF Edit, AcquireJob, FailExpiredJob, WorkerScan, ClaimSnapshot, UploadLands,
                  UploadFails, WorkerClears, WatcherFails, WatcherScan, WatcherClaim, LoseLease,
                  DataPlaneRestart, SweepStalled, BackoffExpires, PurgeTerminalJob, tasks
    <2>3. CASE CompleteJob \/ WorkerFails
      BY <2>3 DEF CompleteJob, WorkerFails, Finish
    <2>4. CASE OtherJobs BY <2>4, OtherJobsStep
    <2> QED BY <2>1, <2>2, <2>3, <2>4 DEF Next, SchedulerStep, OtherJobs
  <1> QED BY <1>1, <1>2, <1>3, <1>4, <1>6, <1>7, <1>8, <1>9, <1>10

LEMMA RoundsStep ==
  ASSUME Typed, Rounds = 0, JobRounds, SchedRounds, [Next]_vars
  PROVE  JobRounds' /\ SchedRounds'
  <1>0. /\ usage.round \in Nat /\ usage'.round \in Nat /\ usage'.round >= usage.round
        /\ NextRound(usage.round) = usage.round + 1
    BY RoundGrows
  <1>k. \A i \in DOMAIN jobs : jobs[i].key[3] \in Nat
    BY JobTypes DEF Keys
  <1>1. ASSUME NEW i \in DOMAIN jobs', jobs'[i].key[1] = "auto"
        PROVE  /\ jobs'[i].key[3] <= usage'.round
               /\ jobs'[i].state \notin ActiveStates => jobs'[i].key[3] < usage'.round
    <2>1. CASE OldRow(i)
      <3>1. PICK j \in DOMAIN jobs :
              /\ jobs'[i].key = jobs[j].key
              /\ jobs'[i].state \notin ActiveStates =>
                   jobs[j].state \notin ActiveStates \/ usage'.round = NextRound(usage.round)
        BY <2>1 DEF OldRow
      <3>2. /\ jobs[j].key[3] \in Nat /\ jobs[j].key[3] <= usage.round
            /\ jobs[j].state \notin ActiveStates => jobs[j].key[3] < usage.round
        BY <1>1, <1>k, <3>1 DEF JobRounds
      <3> QED BY <1>0, <3>1, <3>2
    <2>2. CASE CreatedRow(i)
      <3>1. PICK s \in Schedulers : /\ sched[s].phase = "create" /\ jobs'[i].key = sched[s].key
                                    /\ jobs'[i].state = "pending"
        BY <2>2 DEF CreatedRow
      <3>2. sched[s].key \in Keys BY DEF Typed, SchedSound, SchedRow
      <3>3. sched[s].key[3] \in Nat BY <3>2 DEF Keys
      <3>4. sched[s].key[3] <= usage.round BY <1>1, <3>1 DEF SchedRounds
      <3> QED BY <1>0, <3>1, <3>3, <3>4 DEF ActiveStates
    <2>3. CASE WatcherRow(i) BY <1>1, <2>3 DEF WatcherRow
    <2> QED BY <2>1, <2>2, <2>3, JobsStep DEF RowsFollow
  <1>2. ASSUME NEW s \in Schedulers, sched'[s].phase \in {"allocate", "create"},
               sched'[s].key[1] = "auto"
        PROVE  sched'[s].key[3] <= usage'.round
    <2>1. CASE sched'[s].key[3] = usage.round BY <1>0, <2>1
    <2>2. CASE sched[s].phase \in {"allocate", "create"} /\ sched'[s].key = sched[s].key
      <3>1. sched[s].key \in Keys BY DEF Typed, SchedSound, SchedRow
      <3>2. sched[s].key[3] \in Nat BY <3>1 DEF Keys
      <3>3. sched[s].key[3] <= usage.round BY <1>2, <2>2 DEF SchedRounds
      <3> QED BY <1>0, <2>2, <3>2, <3>3
    <2> QED BY <1>2, <2>1, <2>2, SchedStep DEF SchedFollows
  <1> QED BY <1>1, <1>2 DEF JobRounds, SchedRounds

\* RoundsStayFresh: with a round that counts without end, as the bigint column
\* does, the next scheduler's key is never that of a finished job, however
\* many schedulers work from rounds they read earlier (scheduleDirtySnapshot-
\* Batch, track_snapshot_job_outcome, purgeTerminalJobs).
THEOREM RoundsStayFresh ==
  ASSUME Rounds = 0
  PROVE  Spec => []FreshRound
  <1>1. Init => JobRounds /\ SchedRounds
    BY DEF Init, JobRounds, SchedRounds, Idle
  <1>2. Typed /\ JobRounds /\ SchedRounds /\ [Next]_vars => JobRounds' /\ SchedRounds'
    BY RoundsStep
  <1>3. Typed /\ JobRounds => FreshRound
    <2> SUFFICES ASSUME Typed, JobRounds, NEW i \in DOMAIN jobs,
                        jobs[i].state \in {"completed", "failed"},
                        jobs[i].key = <<"auto", problem.version, usage.round>>
                 PROVE  FALSE
      BY DEF FreshRound, Holding
    <2>1. jobs[i].key[1] = "auto" /\ jobs[i].key[3] = usage.round OBVIOUS
    <2>2. usage.round \in Nat BY DEF Typed, UsageRow
    <2> QED BY <2>1, <2>2 DEF JobRounds, ActiveStates
  <1> QED BY <1>1, <1>2, <1>3, TypedAlways, PTL DEF Spec

-----------------------------------------------------------------------------
(* Part 3: a clean problem has what was notified *)

\* Every generation in use has been allocated.
GensAllocated ==
  /\ problem.gen < nextGen /\ run.gen < nextGen
  /\ \A i \in DOMAIN jobs : jobs[i].gen < nextGen
  /\ \A s \in Schedulers : sched[s].gen < nextGen
  /\ \A u \in uploads : u.gen < nextGen
  /\ \A g \in Gens : snaps[g].state # "none" => g < nextGen

\* A change is with the watcher, or was when the data plane restarted.
Watched == event \/ watcher.busy \/ missed

\* The watcher claims what it scanned; a later change is an event.
WatcherSees ==
  /\ event \/ watcher.busy => WatcherOn
  /\ watcher.busy => watcher.content = disk \/ event \/ missed
  /\ notified <= disk

\* Only the upload of the newest lease is not fenced, and it is the first of
\* that lease; its row is not READY.
OneLive ==
  /\ \A u, v \in uploads : ~u.fenced /\ ~v.fenced => u = v
  /\ \A u \in uploads :
       ~u.fenced => /\ snaps[u.gen].state # "ready"
                    /\ run # NoRun => /\ run.phase \notin {"start", "scanned"}
                                      /\ u.gen = run.gen /\ u.by = run.who

\* A scan of content c for generation g, made by the worker or the watcher:
\* if it may withdraw the dirty mark, it has what was notified or the change
\* is with the watcher; and while the problem is clean, it may only replace
\* the READY snapshot by one that has what was notified.
Current(g, c, by) ==
  /\ problem.dirty /\ problem.gen <= g => c >= notified \/ Watched
  /\ ~problem.dirty => by = "worker" /\ c >= notified

ScansCurrent ==
  /\ run.phase = "scanned" => Current(run.gen, run.content, run.who)
  /\ \A u \in uploads : ~u.fenced => Current(u.gen, u.content, u.by)
  /\ \A g \in Gens :
       snaps[g].state = "ready" /\ problem.dirty /\ problem.gen <= g
       => snaps[g].content >= notified \/ Watched

BackupInv == Typed /\ GensAllocated /\ WatcherSees /\ OneLive /\ ScansCurrent /\ NothingLost

\* What each kind of step does to the dirty mark and to the counter: a mark
\* takes the next generation, an allocation passes one, and only a READY
\* transaction or the executor withdraws the mark.
Marks == /\ problem'.dirty /\ problem'.gen = nextGen /\ nextGen' = nextGen + 1

LEMMA ProblemStep ==
  ASSUME Typed, [Next]_vars
  PROVE  \/ UNCHANGED <<problem, nextGen>>
         \/ UNCHANGED problem /\ nextGen' = nextGen + 1
         \/ Marks
         \/ UNCHANGED nextGen /\ (UploadLands \/ WorkerClears)
  <1>1. CASE UNCHANGED vars BY <1>1 DEF vars, rows
  <1>2. ASSUME NEW s \in Schedulers, NotifyDirty(s) PROVE Marks
    <2>1. /\ problem' = [dirty |-> TRUE, version |-> problem.version + 1, gen |-> nextGen]
          /\ nextGen' = nextGen + 1
      BY <1>2 DEF NotifyDirty
    <2> QED BY <2>1 DEF Marks
  <1>3. ASSUME NEW s \in Schedulers, ScheduleBatch(s) PROVE Marks \/ UNCHANGED <<problem, nextGen>>
    <2>1. CASE UNCHANGED <<problem, nextGen>> BY <2>1
    <2>2. CASE problem' = [problem EXCEPT !.dirty = TRUE, !.gen = nextGen] /\ nextGen' = nextGen + 1
      BY <2>2 DEF Marks
    <2> QED BY <1>3, <2>1, <2>2 DEF ScheduleBatch, MarkDirtyIfNoReady
  <1>4. CASE WatcherClaim
    <2>1. /\ problem' = [dirty |-> TRUE, version |-> problem.version + 1, gen |-> nextGen]
          /\ nextGen' = nextGen + 1
      BY <1>4 DEF WatcherClaim
    <2> QED BY <2>1 DEF Marks
  <1>5. ASSUME NEW s \in Schedulers,
               \/ ScheduleAgain(s) \/ RequestSnapshot(s) \/ BackfillSnapshot(s)
               \/ ReadRound(s) \/ CreateSnapshotJob(s) \/ WritePayload(s)
        PROVE  UNCHANGED <<problem, nextGen>>
    BY <1>5 DEF ScheduleAgain, RequestSnapshot, BackfillSnapshot, ReadRound, CreateSnapshotJob,
                WritePayload, rows
  <1>6. CASE \/ Edit \/ AcquireJob \/ FailExpiredJob \/ WorkerScan \/ ClaimSnapshot
             \/ UploadFails \/ WatcherFails \/ WatcherScan \/ LoseLease \/ ControlPlaneRestart
             \/ DataPlaneRestart \/ SweepStalled \/ BackoffExpires \/ PurgeTerminalJob
    BY <1>6 DEF Edit, AcquireJob, FailExpiredJob, WorkerScan, ClaimSnapshot, UploadFails,
                WatcherFails, WatcherScan, LoseLease, ControlPlaneRestart, DataPlaneRestart,
                SweepStalled, BackoffExpires, PurgeTerminalJob, rows
  <1>7. CASE CompleteJob \/ WorkerFails
    BY <1>7 DEF CompleteJob, WorkerFails, Finish
  <1>8. ASSUME NEW s \in Schedulers, AllocateGeneration(s)
        PROVE  UNCHANGED problem /\ nextGen' = nextGen + 1
    BY <1>8 DEF AllocateGeneration
  <1>9. UploadLands \/ WorkerClears => UNCHANGED nextGen
    BY DEF UploadLands, WorkerClears
  <1>10. CASE OtherJobs BY <1>10, OtherJobsStep
  <1> QED BY <1>1, <1>2, <1>3, <1>4, <1>5, <1>6, <1>7, <1>8, <1>9, <1>10
          DEF Next, SchedulerStep, OtherJobs

\* An upload of the next state was there, perhaps not yet fenced, or is the one
\* that ClaimSnapshot adds.
LEMMA UploadsStep ==
  ASSUME Typed, [Next]_vars, NEW u \in uploads'
  PROVE  \/ u \in uploads
         \/ u.fenced /\ \E v \in uploads : v.gen = u.gen
         \/ /\ ClaimSnapshot /\ Claimable(run.gen)
            /\ u = [gen |-> run.gen, version |-> run.version, content |-> run.content,
                    fenced |-> FALSE, by |-> run.who]
  <1>1. CASE uploads' \subseteq uploads BY <1>1
  <1>2. CASE uploads' = Fenced
    <2>1. u \in Fenced BY <1>2
    <2>2. PICK v \in uploads : u = [v EXCEPT !.fenced = TRUE] BY <2>1 DEF Fenced
    <2>3. v \in Upload BY DEF Typed
    <2> QED BY <2>2, <2>3 DEF Upload
  <1>3. CASE ClaimSnapshot BY <1>3 DEF ClaimSnapshot
  <1>4. ClaimSnapshot \/ uploads' \subseteq uploads \/ uploads' = Fenced
    <2>1. CASE UNCHANGED vars BY <2>1 DEF vars, tasks
    <2>2. ASSUME NEW s \in Schedulers,
                 \/ NotifyDirty(s) \/ ScheduleAgain(s) \/ ScheduleBatch(s)
                 \/ RequestSnapshot(s) \/ BackfillSnapshot(s) \/ SchedulerStep(s)
          PROVE  UNCHANGED uploads
      BY <2>2 DEF NotifyDirty, ScheduleAgain, ScheduleBatch, RequestSnapshot, BackfillSnapshot,
                  SchedulerStep, ReadRound, AllocateGeneration, CreateSnapshotJob, WritePayload
    <2>3. CASE \/ Edit \/ WorkerScan \/ WorkerClears \/ WatcherFails \/ WatcherScan
               \/ ControlPlaneRestart \/ SweepStalled \/ BackoffExpires \/ PurgeTerminalJob
      BY <2>3 DEF Edit, WorkerScan, WorkerClears, WatcherFails, WatcherScan, ControlPlaneRestart,
                  SweepStalled, BackoffExpires, PurgeTerminalJob, tasks
    <2>4. CASE CompleteJob \/ WorkerFails
      BY <2>4 DEF CompleteJob, WorkerFails, Finish
    <2>5. CASE AcquireJob \/ FailExpiredJob
      BY <2>5 DEF AcquireJob, FailExpiredJob
    <2>6. CASE UploadLands \/ UploadFails \/ LoseLease \/ DataPlaneRestart
      BY <2>6 DEF UploadLands, UploadFails, LoseLease, DataPlaneRestart
    <2>7. CASE WatcherClaim
      BY <2>7 DEF WatcherClaim
    <2>8. CASE OtherJobs BY <2>8, OtherJobsStep
    <2> QED BY <2>1, <2>2, <2>3, <2>4, <2>5, <2>6, <2>7, <2>8 DEF Next, OtherJobs
  <1> QED BY <1>1, <1>2, <1>3, <1>4

\* Only a claim gives a generation its row.
LEMMA RowsStep ==
  ASSUME Typed, [Next]_vars, NEW g \in Gens, snaps[g].state = "none", snaps'[g].state # "none"
  PROVE  \/ run # NoRun /\ g = run.gen
         \/ \E u \in uploads : u.gen = g
  <1>0. snaps \in [Gens -> SnapRow] BY DEF Typed
  <1>1. CASE ClaimSnapshot
    <2>1. run # NoRun BY <1>1, LeaseHeld DEF ClaimSnapshot
    <2> QED BY <1>0, <1>1, <2>1 DEF ClaimSnapshot
  <1>2. CASE UploadFails
    <2>1. PICK u \in uploads :
            snaps' = IF snaps[u.gen].state = "ready" THEN snaps
                     ELSE [snaps EXCEPT ![u.gen] =
                             [Snap("error") EXCEPT !.integrity = u.content \in Unusable]]
      BY <1>2 DEF UploadFails
    <2> QED BY <1>0, <2>1
  <1>3. CASE SweepStalled
    <2>1. PICK h \in Gens : Stalled(h) /\ snaps' = [snaps EXCEPT ![h] = Snap("error")]
      BY <1>3 DEF SweepStalled
    <2> QED BY <1>0, <2>1 DEF Stalled
  <1>4. CASE UploadLands BY <1>4, LandedRows
  <1>5. ClaimSnapshot \/ UploadFails \/ SweepStalled \/ UploadLands \/ UNCHANGED snaps
    BY RowsChanging
  <1> QED BY <1>1, <1>2, <1>3, <1>4, <1>5

LEMMA GensStep ==
  ASSUME Typed, Typed', GensAllocated, NamedGens = {}, [Next]_vars
  PROVE  GensAllocated'
  <1>0. /\ nextGen \in Nat /\ nextGen' \in Nat /\ nextGen' >= nextGen /\ nextGen > 0
        /\ problem.gen \in Nat /\ problem.gen < nextGen
    <2>1. nextGen' \in {nextGen, nextGen + 1} BY ProblemStep DEF Marks
    <2> QED BY <2>1 DEF Typed, ProblemRow, GensAllocated
  <1>1. problem'.gen < nextGen'
    <2>1. CASE UNCHANGED problem BY <1>0, <2>1
    <2>2. CASE Marks BY <1>0, <2>2 DEF Marks
    <2>3. CASE UploadLands \/ WorkerClears
      <3>1. \E g, v : problem' = Cleared(problem, g, v)
        BY <2>3 DEF UploadLands, WorkerClears
      <3>2. problem' = problem \/ problem'.gen = 0 BY <3>1, ClearedRow
      <3> QED BY <1>0, <3>2
    <2> QED BY <2>1, <2>2, <2>3, ProblemStep
  <1>2. ASSUME NEW i \in DOMAIN jobs'
        PROVE  jobs'[i].gen < nextGen'
    <2>1. CASE OldRow(i)
      <3>1. PICK j \in DOMAIN jobs : jobs'[i].gen = jobs[j].gen BY <2>1 DEF OldRow
      <3>2. jobs[j].gen \in Nat BY JobTypes DEF Gens
      <3> QED BY <1>0, <3>1, <3>2 DEF GensAllocated
    <2>2. CASE CreatedRow(i)
      <3>1. PICK s \in Schedulers : jobs'[i].gen = sched[s].gen BY <2>2 DEF CreatedRow
      <3>2. sched[s].gen \in Nat BY DEF Typed, SchedSound, SchedRow
      <3> QED BY <1>0, <3>1, <3>2 DEF GensAllocated
    <2>3. CASE WatcherRow(i) BY <1>0, <2>3 DEF WatcherRow
    <2> QED BY <2>1, <2>2, <2>3, JobsStep DEF RowsFollow
  <1>3. ASSUME NEW s \in Schedulers
        PROVE  sched'[s].gen < nextGen'
    <2>1. sched[s].gen \in Nat /\ sched[s].gen < nextGen
      BY DEF Typed, SchedSound, SchedRow, GensAllocated
    <2>2. \/ sched'[s].gen \in {sched[s].gen, 0, problem.gen, problem'.gen}
          \/ sched'[s].gen = nextGen /\ nextGen' = nextGen + 1
      BY SchedStep DEF SchedFollows
    <2> QED BY <1>0, <1>1, <2>1, <2>2
  <1>4. run'.gen < nextGen'
    <2>1. CASE run' = NoRun BY <1>0, <2>1 DEF NoRun
    <2>2. CASE run' # NoRun
      <3>1. RunSound(run', jobs') BY DEF Typed, RunSound
      <3>2. \E i \in DOMAIN jobs' : jobs'[i].gen = run'.gen
        BY <2>2, <3>1 DEF RunSound
      <3> QED BY <1>2, <3>2
    <2> QED BY <2>1, <2>2
  <1>5. ASSUME NEW u \in uploads'
        PROVE  u.gen < nextGen'
    <2>1. ASSUME NEW v \in uploads PROVE v.gen < nextGen'
      <3>1. v.gen \in Nat /\ v.gen < nextGen BY DEF Typed, Upload, Gens, GensAllocated
      <3> QED BY <1>0, <3>1
    <2>2. run.gen < nextGen'
      <3>1. run.gen \in Nat /\ run.gen < nextGen BY DEF Typed, RunSound, RunRow, GensAllocated
      <3> QED BY <1>0, <3>1
    <2>3. CASE u \in uploads BY <2>1, <2>3
    <2>4. CASE \E v \in uploads : v.gen = u.gen BY <2>1, <2>4
    <2>5. CASE u = [gen |-> run.gen, version |-> run.version, content |-> run.content,
                    fenced |-> FALSE, by |-> run.who]
      BY <2>2, <2>5
    <2> QED BY <2>3, <2>4, <2>5, UploadsStep
  <1>6. ASSUME NEW g \in Gens, snaps'[g].state # "none"
        PROVE  g < nextGen'
    <2>1. g \in Nat BY DEF Gens
    <2>2. CASE snaps[g].state # "none" BY <1>0, <2>1, <2>2 DEF GensAllocated
    <2>3. CASE g = run.gen \/ \E u \in uploads : u.gen = g
      BY <1>0, <2>1, <2>3 DEF GensAllocated
    <2> QED BY <1>6, <2>2, <2>3, RowsStep
  <1> QED BY <1>1, <1>2, <1>3, <1>4, <1>5, <1>6 DEF GensAllocated

\* What the watcher knows of the folder.
LEMMA FolderStep ==
  ASSUME Typed, [Next]_vars
  PROVE  \/ UNCHANGED <<disk, event, watcher, notified, missed>>
         \/ Edit \/ WatcherScan \/ WatcherClaim \/ DataPlaneRestart
         \/ /\ \E s \in Schedulers : NotifyDirty(s)
            /\ notified' = disk /\ UNCHANGED <<disk, event, watcher, missed>>
  <1>1. CASE UNCHANGED vars BY <1>1 DEF vars, tasks
  <1>2. ASSUME NEW s \in Schedulers, NotifyDirty(s)
        PROVE  notified' = disk /\ UNCHANGED <<disk, event, watcher, missed>>
    BY <1>2 DEF NotifyDirty
  <1>3. ASSUME NEW s \in Schedulers,
               \/ ScheduleAgain(s) \/ ScheduleBatch(s) \/ RequestSnapshot(s) \/ BackfillSnapshot(s)
               \/ SchedulerStep(s)
        PROVE  UNCHANGED <<disk, event, watcher, notified, missed>>
    BY <1>3 DEF ScheduleAgain, ScheduleBatch, RequestSnapshot, BackfillSnapshot,
                SchedulerStep, ReadRound, AllocateGeneration, CreateSnapshotJob, WritePayload
  <1>4. CASE \/ AcquireJob \/ FailExpiredJob \/ WorkerScan \/ ClaimSnapshot \/ UploadLands
             \/ UploadFails \/ WorkerClears \/ WatcherFails \/ LoseLease \/ ControlPlaneRestart
             \/ SweepStalled \/ BackoffExpires \/ PurgeTerminalJob
    BY <1>4 DEF AcquireJob, FailExpiredJob, WorkerScan, ClaimSnapshot, UploadLands, UploadFails,
                WorkerClears, WatcherFails, LoseLease, ControlPlaneRestart, SweepStalled,
                BackoffExpires, PurgeTerminalJob, tasks
  <1>5. CASE CompleteJob \/ WorkerFails
    BY <1>5 DEF CompleteJob, WorkerFails, Finish
  <1>6. CASE OtherJobs BY <1>6, OtherJobsStep
  <1> QED BY <1>1, <1>2, <1>3, <1>4, <1>5, <1>6 DEF Next, OtherJobs

\* A change that is with the watcher stays with it until the claim, or until a
\* scan finds that the READY snapshot has it.
LEMMA WatcherStep ==
  ASSUME Typed, WatcherSees, [Next]_vars
  PROVE  /\ WatcherSees'
         /\ \/ Watched => Watched'
            \/ WatcherScan /\ ~problem.dirty /\ Backed(disk)
            \/ WatcherClaim
  <1>0. disk \in Nat /\ notified \in Nat /\ notified <= disk
    BY DEF Typed, WatcherSees
  <1>1. CASE UNCHANGED <<disk, event, watcher, notified, missed>>
    BY <1>1 DEF WatcherSees, Watched
  <1>2. CASE Edit
    <2>1. disk' = disk + 1 /\ event' = WatcherOn /\ UNCHANGED <<watcher, notified, missed>>
      BY <1>2 DEF Edit, tasks
    <2> QED BY <1>0, <2>1 DEF WatcherSees, Watched
  <1>3. CASE WatcherScan
    <2>1. UNCHANGED <<disk, notified, missed>> /\ event' = FALSE /\ event /\ ~watcher.busy
      BY <1>3 DEF WatcherScan
    <2>2. CASE watcher' = [busy |-> TRUE, content |-> disk]
      BY <1>0, <2>1, <2>2 DEF WatcherSees, Watched
    <2>3. CASE /\ UNCHANGED watcher
               /\ ~problem.dirty
               /\ \E g \in Gens : snaps[g].state = "ready" /\ snaps[g].content = disk
      <3>1. Backed(disk) BY <1>0, <2>3 DEF Backed
      <3>2. WatcherSees' BY <1>0, <2>1, <2>3 DEF WatcherSees
      <3> QED BY <1>3, <2>3, <3>1, <3>2
    <2> QED BY <1>3, <2>2, <2>3 DEF WatcherScan
  <1>4. CASE WatcherClaim
    <2>1. watcher' = NotClaimed /\ UNCHANGED <<disk, event, notified, missed>> /\ watcher.busy
      BY <1>4 DEF WatcherClaim
    <2>2. WatcherSees' BY <1>0, <2>1 DEF WatcherSees, NotClaimed
    <2> QED BY <1>4, <2>2
  <1>5. CASE DataPlaneRestart
    <2>1. /\ event' = FALSE /\ watcher' = NotClaimed /\ UNCHANGED <<disk, notified>>
          /\ missed' = (missed \/ event \/ watcher.busy)
      BY <1>5 DEF DataPlaneRestart
    <2>2. WatcherSees' BY <1>0, <2>1 DEF WatcherSees, NotClaimed
    <2>3. Watched => Watched' BY <2>1 DEF Watched
    <2> QED BY <2>2, <2>3
  <1>6. CASE notified' = disk /\ UNCHANGED <<disk, event, watcher, missed>>
    BY <1>0, <1>6 DEF WatcherSees, Watched
  <1> QED BY <1>1, <1>2, <1>3, <1>4, <1>5, <1>6, FolderStep

\* Steps that bring no new scan and no new live upload: a holder of a lease is
\* the one that was, further along, or all uploads are fenced.
LeaseFollows ==
  /\ \A u \in uploads' : ~u.fenced => u \in uploads
  /\ run' # NoRun =>
       \/ /\ \A u \in uploads' : u.fenced
          /\ run'.phase # "scanned"
       \/ /\ run # NoRun /\ run'.gen = run.gen /\ run'.who = run.who
          /\ run'.phase \in {"start", "scanned"} =>
               run'.phase = run.phase /\ run'.content = run.content

LEMMA LeaseStep ==
  ASSUME Typed, [Next]_vars
  PROVE  \/ LeaseFollows
         \/ WatcherClaim
         \/ WorkerScan
         \/ ClaimSnapshot /\ Claimable(run.gen)
  <1>f. \A u \in Fenced : u.fenced BY FencedUploads
  <1>r. run \in RunRow BY DEF Typed, RunSound
  <1>1. CASE UNCHANGED <<run, uploads>> BY <1>1 DEF LeaseFollows
  <1>2. CASE AcquireJob
    <2>1. PICK i \in Active :
            /\ run' = [who |-> "worker", key |-> jobs[i].key, phase |-> "start", gen |-> jobs[i].gen,
                       version |-> jobs[i].payload, content |-> 0]
            /\ uploads' = Fenced
      BY <1>2 DEF AcquireJob
    <2> QED BY <1>f, <2>1 DEF LeaseFollows
  <1>3. CASE FailExpiredJob
    <2>1. uploads' = Fenced /\ run' = NoRun BY <1>3 DEF FailExpiredJob
    <2> QED BY <1>f, <2>1 DEF LeaseFollows
  <1>4. ASSUME NEW r, uploads' \subseteq uploads, run' = r,
               r = NoRun \/ r = run
               \/ /\ run # NoRun /\ r.gen = run.gen /\ r.who = run.who
                  /\ r.phase \notin {"start", "scanned"}
        PROVE  LeaseFollows
    BY <1>4 DEF LeaseFollows
  <1>p. ASSUME run # NoRun, NEW ph \in RunPhases \ {"start", "scanned"}
        PROVE  /\ [run EXCEPT !.phase = ph].gen = run.gen /\ [run EXCEPT !.phase = ph].who = run.who
               /\ [run EXCEPT !.phase = ph].phase \notin {"start", "scanned"}
               /\ [run EXCEPT !.phase = ph, !.content = 0].gen = run.gen
               /\ [run EXCEPT !.phase = ph, !.content = 0].who = run.who
               /\ [run EXCEPT !.phase = ph, !.content = 0].phase \notin {"start", "scanned"}
    <2> DEFINE q == [run EXCEPT !.phase = ph]
               r == [q EXCEPT !.content = 0]
    <2>1. q \in RunRow /\ q.gen = run.gen /\ q.who = run.who /\ q.phase = ph
      BY <1>r DEF RunRow
    <2>2. r.gen = run.gen /\ r.who = run.who /\ r.phase = ph
      <3> HIDE DEF q
      <3> QED BY <2>1 DEF RunRow
    <2> QED BY <1>p, <2>1, <2>2
  <1>5. CASE ClaimSnapshot
    <2>1. run # NoRun BY <1>5, LeaseHeld DEF ClaimSnapshot
    <2>2. CASE /\ run' = [run EXCEPT !.phase = IF run.who = "worker" THEN "waiting" ELSE "landed",
                                     !.content = 0]
               /\ UNCHANGED uploads
      <3> DEFINE ph == IF run.who = "worker" THEN "waiting" ELSE "landed"
      <3>1. ph \in RunPhases \ {"start", "scanned"} BY DEF RunPhases
      <3>2. run' = [run EXCEPT !.phase = ph, !.content = 0] BY <2>2
      <3> HIDE DEF ph
      <3> QED BY <1>4, <1>p, <2>1, <2>2, <3>1, <3>2
    <2> QED BY <1>5, <2>2 DEF ClaimSnapshot
  <1>6. CASE UploadLands \/ UploadFails
    <2>1. PICK u \in uploads, ph \in {"landed", "failed"} :
            uploads' = uploads \ {u} /\ run' = Ended(u, ph)
      BY <1>6 DEF UploadLands, UploadFails
    <2>2. CASE run.who = "watcher" /\ run' = [run EXCEPT !.phase = ph]
      <3>1. run # NoRun BY <2>2, LeaseHeld
      <3>2. ph \in RunPhases \ {"start", "scanned"} BY DEF RunPhases
      <3> QED BY <1>4, <1>p, <2>1, <2>2, <3>1, <3>2
    <2>3. CASE run' = run BY <1>4, <2>1, <2>3
    <2> QED BY <2>1, <2>2, <2>3 DEF Ended
  <1>7. CASE WorkerClears
    <2>1. run # NoRun /\ "cleared" \in RunPhases \ {"start", "scanned"}
      BY <1>7, LeaseHeld DEF WorkerClears, RunPhases
    <2>2. run' = [run EXCEPT !.phase = "cleared"] /\ UNCHANGED uploads
      BY <1>7 DEF WorkerClears
    <2> QED BY <1>4, <1>p, <2>1, <2>2
  <1>8. CASE DataPlaneRestart
    <2>1. uploads' = {} BY <1>8 DEF DataPlaneRestart
    <2>2. CASE run' = [run EXCEPT !.phase = "broken"] /\ run.phase = "scanned"
      <3>1. run # NoRun /\ "broken" \in RunPhases \ {"start", "scanned"}
        BY <2>2, LeaseHeld DEF RunPhases
      <3> QED BY <1>4, <1>p, <2>1, <2>2, <3>1
    <2>3. CASE run' = run \/ run' = NoRun BY <1>4, <2>1, <2>3
    <2> QED BY <1>8, <2>2, <2>3 DEF DataPlaneRestart
  <1>9. CASE /\ run' \in {run, NoRun} /\ uploads' \subseteq uploads
    BY <1>4, <1>9
  <1>10. CASE \/ CompleteJob \/ WorkerFails \/ WatcherFails \/ LoseLease \/ ControlPlaneRestart
    <2>1. CASE CompleteJob \/ WorkerFails
      BY <1>9, <2>1 DEF CompleteJob, WorkerFails, Finish
    <2>2. CASE WatcherFails \/ LoseLease \/ ControlPlaneRestart
      BY <1>9, <2>2 DEF WatcherFails, LoseLease, ControlPlaneRestart
    <2> QED BY <1>10, <2>1, <2>2
  <1>11. ASSUME NEW s \in Schedulers,
                \/ NotifyDirty(s) \/ ScheduleAgain(s) \/ ScheduleBatch(s)
                \/ RequestSnapshot(s) \/ BackfillSnapshot(s) \/ SchedulerStep(s)
         PROVE  UNCHANGED <<run, uploads>>
    BY <1>11 DEF NotifyDirty, ScheduleAgain, ScheduleBatch, RequestSnapshot, BackfillSnapshot,
                 SchedulerStep, ReadRound, AllocateGeneration, CreateSnapshotJob, WritePayload
  <1>12. CASE \/ Edit \/ WatcherScan \/ SweepStalled \/ BackoffExpires \/ PurgeTerminalJob
              \/ UNCHANGED vars
    BY <1>1, <1>12 DEF Edit, WatcherScan, SweepStalled, BackoffExpires, PurgeTerminalJob, tasks, vars
  <1>13. CASE OtherJobs
    <2>1. CASE UNCHANGED <<run, uploads>> BY <1>1, <2>1
    <2>2. CASE uploads' = Fenced /\ run' = NoRun BY <1>f, <2>2 DEF LeaseFollows
    <2> QED BY <1>13, <2>1, <2>2, OtherJobsStep
  <1> QED BY <1>1, <1>2, <1>3, <1>5, <1>6, <1>7, <1>8, <1>10, <1>11, <1>12, <1>13 DEF Next, OtherJobs

LEMMA LiveStep ==
  ASSUME Typed, OneLive, [Next]_vars
  PROVE  OneLive'
  <1>f. \A u \in Fenced : u.fenced BY FencedUploads
  <1>1. CASE UploadLands
    <2>1. PICK u \in uploads : CanLand(u) /\ uploads' = uploads \ {u}
      BY <1>1 DEF UploadLands
    <2>2. \A v \in uploads' : v.fenced BY <2>1 DEF OneLive, CanLand
    <2> QED BY <2>2 DEF OneLive
  <1>2. ASSUME ReadyKept, LeaseFollows
        PROVE  OneLive'
    <2>1. \A u \in uploads : u.gen \in Gens BY DEF Typed, Upload
    <2>2. ASSUME NEW u \in uploads', ~u.fenced
          PROVE  /\ snaps'[u.gen].state # "ready"
                 /\ run' # NoRun => /\ run'.phase \notin {"start", "scanned"}
                                    /\ u.gen = run'.gen /\ u.by = run'.who
      <3>1. u \in uploads BY <1>2, <2>2 DEF LeaseFollows
      <3>2. snaps'[u.gen].state # "ready" BY <1>2, <2>1, <2>2, <3>1 DEF ReadyKept, OneLive
      <3>3. CASE run' # NoRun
        <4>1. /\ run # NoRun /\ run'.gen = run.gen /\ run'.who = run.who
              /\ run'.phase \in {"start", "scanned"} => run'.phase = run.phase
          BY <1>2, <2>2, <3>3 DEF LeaseFollows
        <4> QED BY <2>2, <3>1, <3>2, <4>1 DEF OneLive
      <3> QED BY <3>2, <3>3
    <2>3. \A u, v \in uploads' : ~u.fenced /\ ~v.fenced => u = v
      BY <1>2 DEF LeaseFollows, OneLive
    <2> QED BY <2>2, <2>3 DEF OneLive
  <1>3. ASSUME ReadyKept, WatcherClaim
        PROVE  OneLive'
    <2>1. CASE UNCHANGED <<run, uploads>> BY <1>2, <1>3, <2>1 DEF LeaseFollows
    <2>2. CASE uploads' = Fenced BY <1>f, <2>2 DEF OneLive
    <2> QED BY <1>3, <2>1, <2>2 DEF WatcherClaim
  <1>4. CASE WorkerScan
    <2>1. run # NoRun /\ run.phase = "start" /\ uploads' = uploads
      BY <1>4, LeaseHeld DEF WorkerScan
    <2>2. \A u \in uploads' : u.fenced BY <2>1 DEF OneLive
    <2> QED BY <2>2 DEF OneLive
  <1>5. CASE ClaimSnapshot /\ Claimable(run.gen)
    <2>1. run # NoRun /\ run.phase = "scanned" BY <1>5, LeaseHeld DEF ClaimSnapshot
    <2>2. \A u \in uploads : u.fenced BY <2>1 DEF OneLive
    <2>3. CASE UNCHANGED uploads BY <2>2, <2>3 DEF OneLive
    <2>4. CASE /\ snaps' = [snaps EXCEPT ![run.gen] = Snap("active")]
               /\ uploads' = uploads \cup {[gen |-> run.gen, version |-> run.version,
                                            content |-> run.content, fenced |-> FALSE, by |-> run.who]}
               /\ run' = [run EXCEPT !.phase = "waiting", !.content = 0]
      <3> DEFINE n == [gen |-> run.gen, version |-> run.version, content |-> run.content,
                       fenced |-> FALSE, by |-> run.who]
                 q == [run EXCEPT !.phase = "waiting"]
      <3>1. \A u \in uploads' : ~u.fenced => u = n BY <2>2, <2>4
      <3>2. n.gen = run.gen /\ n.by = run.who OBVIOUS
      <3>3. snaps'[run.gen].state = "active"
        <4>1. run.gen \in Gens /\ snaps \in [Gens -> SnapRow] BY <2>1, RunTypes DEF Typed
        <4>2. Snap("active").state = "active" BY SnapTypes DEF SnapStates
        <4> QED BY <2>4, <4>1, <4>2
      <3>4. run'.gen = run.gen /\ run'.who = run.who /\ run'.phase = "waiting"
        <4>1. q \in RunRow /\ q.gen = run.gen /\ q.who = run.who /\ q.phase = "waiting"
          BY <2>1, RunTypes DEF RunRow, RunPhases
        <4>2. run' = [q EXCEPT !.content = 0] BY <2>4
        <4> HIDE DEF q
        <4> QED BY <4>1, <4>2 DEF RunRow
      <3> HIDE DEF n, q
      <3> QED BY <3>1, <3>2, <3>3, <3>4 DEF OneLive
    <2> QED BY <1>5, <2>3, <2>4 DEF ClaimSnapshot
  <1> QED BY <1>1, <1>2, <1>3, <1>4, <1>5, LeaseStep, ReadyStep

\* Current in the next state, of a scan g, c, by that this state has.
StillCurrent(g, c, by) ==
  /\ problem'.dirty /\ problem'.gen <= g => c >= notified' \/ Watched'
  /\ ~problem'.dirty => by = "worker" /\ c >= notified'

\* A mark takes a generation above all scans, but for the scan that the watcher
\* claims with it.
LEMMA MarkedStep ==
  ASSUME Typed, GensAllocated, WatcherSees, Marks, [Next]_vars
  PROVE  ScansCurrent' /\ NothingLost'
  <1>0. /\ nextGen \in Nat /\ problem'.dirty /\ problem'.gen = nextGen
        /\ disk \in Nat /\ notified \in Nat /\ notified <= disk
    BY DEF Marks, Typed, WatcherSees
  <1>1. ASSUME NEW g \in Nat, NEW c, NEW by, g < nextGen
        PROVE  StillCurrent(g, c, by)
    BY <1>0, <1>1 DEF StillCurrent
  <1>g. /\ run.gen \in Nat /\ run.gen < nextGen
        /\ \A u \in uploads : u.gen \in Nat /\ u.gen < nextGen
    <2>1. run.gen \in Nat BY DEF Typed, RunSound, RunRow
    <2>2. \A u \in uploads : u.gen \in Nat BY DEF Typed, Upload, Gens
    <2> QED BY <2>1, <2>2 DEF GensAllocated
  <1>2. NothingLost' BY <1>0 DEF NothingLost
  <1>n. ~UploadLands /\ ~WorkerClears /\ ~WorkerScan /\ ~ClaimSnapshot
    <2>1. nextGen' # nextGen BY <1>0 DEF Marks
    <2> QED BY <2>1 DEF UploadLands, WorkerClears, WorkerScan, ClaimSnapshot, rows
  <1>3. ASSUME NEW g \in Gens, snaps'[g].state = "ready"
        PROVE  ~(problem'.gen <= g)
    <2>1. snaps[g].state = "ready" BY <1>3, <1>n, ReadyStep DEF ReadyKept
    <2> QED BY <1>0, <2>1 DEF GensAllocated, Gens
  <1>4. ASSUME NEW u \in uploads', ~u.fenced
        PROVE  StillCurrent(u.gen, u.content, u.by)
    <2>1. u \in uploads BY <1>4, <1>n, UploadsStep
    <2> QED BY <1>1, <1>g, <2>1
  <1>5. ASSUME run'.phase = "scanned"
        PROVE  StillCurrent(run'.gen, run'.content, run'.who)
    <2>1. CASE LeaseFollows
      <3>1. run' # NoRun BY <1>5 DEF NoRun
      <3>2. run'.gen = run.gen BY <1>5, <2>1, <3>1 DEF LeaseFollows
      <3> QED BY <1>1, <1>g, <3>2
    <2>2. CASE WatcherClaim
      <3>0. /\ watcher.busy /\ watcher.content \in Nat
            /\ UNCHANGED <<disk, event, notified, missed>>
        BY <2>2 DEF WatcherClaim, Typed
      <3>1. CASE UNCHANGED run BY <1>1, <1>g, <3>1
      <3>2. CASE run'.content = watcher.content
        <4>1. watcher.content >= notified \/ event \/ missed
          BY <1>0, <3>0 DEF WatcherSees
        <4> QED BY <1>0, <3>0, <3>2, <4>1 DEF StillCurrent, Watched
      <3>3. ASSUME NEW k, NEW g,
                   run' = [who |-> "watcher", key |-> k, phase |-> "scanned", gen |-> g,
                           version |-> problem.version + 1, content |-> watcher.content]
            PROVE  run'.content = watcher.content
        BY <3>3
      <3>4. \/ UNCHANGED run
            \/ \E k, g : run' = [who |-> "watcher", key |-> k, phase |-> "scanned", gen |-> g,
                                 version |-> problem.version + 1, content |-> watcher.content]
        BY <2>2, Zenon DEF WatcherClaim
      <3> QED BY <3>1, <3>2, <3>3, <3>4
    <2> QED BY <1>n, <2>1, <2>2, LeaseStep
  <1> QED BY <1>2, <1>3, <1>4, <1>5 DEF ScansCurrent, Current, StillCurrent

\* The READY transaction withdraws the mark for the content it makes READY.
LEMMA LandedStep ==
  ASSUME Typed, OneLive, ScansCurrent, NothingLost, UploadLands
  PROVE  ScansCurrent' /\ NothingLost'
  <1>1. PICK u \in uploads :
           /\ CanLand(u) /\ u.gen \in Gens /\ u \in Upload
           /\ snaps'[u.gen].state = "ready" /\ snaps'[u.gen].content = u.content
           /\ \A g \in Gens \ {u.gen} :
                /\ g < u.gen => snaps'[g].state # "ready"
                /\ ~(g < u.gen) => snaps'[g] = snaps[g]
           /\ problem' = Cleared(problem, u.gen, u.version)
           /\ uploads' = uploads \ {u} /\ run' = Ended(u, "landed")
           /\ UNCHANGED <<disk, event, nextGen, jobs, sched, watcher, spent, notified, missed>>
    BY LandedRows
  <1>2. /\ \/ problem' = problem
           \/ ~problem'.dirty /\ problem.dirty /\ problem.gen <= u.gen
        /\ Watched' = Watched /\ notified' = notified
    BY <1>1, ClearedRow DEF Watched
  <1>3. \A v \in uploads' : v.fenced BY <1>1 DEF OneLive, CanLand
  <1>4. run'.phase # "scanned"
    <2>1. run.phase # "scanned"
      <3>1. run # NoRun => run.phase # "scanned" BY <1>1 DEF OneLive, CanLand
      <3>2. NoRun.phase # "scanned" BY DEF NoRun
      <3> QED BY <3>1, <3>2
    <2>2. run \in RunRow BY DEF Typed, RunSound
    <2> QED BY <1>1, <2>1, <2>2 DEF Ended, RunRow
  <1>5. Current(u.gen, u.content, u.by) BY <1>1 DEF ScansCurrent, CanLand
  <1>6. ASSUME NEW g \in Gens, snaps'[g].state = "ready", problem'.dirty, problem'.gen <= g
        PROVE  snaps'[g].content >= notified' \/ Watched'
    <2>1. problem' = problem BY <1>2, <1>6
    <2>2. CASE g = u.gen BY <1>1, <1>2, <1>5, <1>6, <2>1, <2>2 DEF Current
    <2>3. CASE g # u.gen
      <3>1. snaps'[g] = snaps[g] BY <1>1, <1>6, <2>3
      <3> QED BY <1>2, <1>6, <2>1, <3>1 DEF ScansCurrent
    <2> QED BY <2>2, <2>3
  <1>7. NothingLost'
    <2> SUFFICES ASSUME ~problem'.dirty PROVE Backed(notified)' \/ Watched'
      BY DEF NothingLost, Watched
    <2>1. u.content >= notified => Backed(notified)' BY <1>1, <1>2 DEF Backed
    <2>2. u.content >= notified \/ Watched
      <3>1. CASE problem.dirty /\ problem.gen <= u.gen BY <1>5, <3>1 DEF Current
      <3>2. CASE problem' = problem BY <1>5, <3>2 DEF Current
      <3> QED BY <1>2, <3>1, <3>2
    <2> QED BY <1>2, <2>1, <2>2
  <1> QED BY <1>3, <1>4, <1>6, <1>7 DEF ScansCurrent

\* The executor withdraws the mark for the content of the READY row.
LEMMA ClearsStep ==
  ASSUME Typed, OneLive, ScansCurrent, NothingLost, WorkerClears
  PROVE  ScansCurrent' /\ NothingLost'
  <1>1. /\ run.phase = "waiting" /\ snaps[run.gen].state = "ready"
        /\ problem' = Cleared(problem, run.gen, run.version)
        /\ run' = [run EXCEPT !.phase = "cleared"]
        /\ UNCHANGED <<event, snaps, uploads, watcher, notified, missed>>
    BY DEF WorkerClears
  <1>2. run # NoRun /\ run.gen \in Gens /\ run \in RunRow BY <1>1, LeaseHeld, RunTypes
  <1>3. /\ \/ problem' = problem
           \/ ~problem'.dirty /\ problem.dirty /\ problem.gen <= run.gen
        /\ Watched' = Watched
    BY <1>1, ClearedRow DEF Watched
  <1>4. \A u \in uploads' : u.fenced BY <1>1, <1>2 DEF OneLive
  <1>5. run'.phase # "scanned" BY <1>1, <1>2 DEF RunRow
  <1>6. ASSUME NEW g \in Gens, snaps'[g].state = "ready", problem'.dirty, problem'.gen <= g
        PROVE  snaps'[g].content >= notified' \/ Watched'
    BY <1>1, <1>3, <1>6 DEF ScansCurrent
  <1>7. NothingLost'
    <2>1. CASE problem' = problem
      BY <1>1, <1>3, <2>1 DEF NothingLost, Backed, Watched
    <2>2. CASE problem.dirty /\ problem.gen <= run.gen
      <3>1. snaps[run.gen].content >= notified \/ Watched
        BY <1>1, <1>2, <2>2 DEF ScansCurrent
      <3>2. snaps[run.gen].content >= notified => Backed(notified)'
        BY <1>1, <1>2 DEF Backed
      <3> QED BY <1>3, <3>1, <3>2 DEF NothingLost, Watched
    <2> QED BY <1>3, <2>1, <2>2
  <1> QED BY <1>4, <1>5, <1>6, <1>7 DEF ScansCurrent

\* The steps that leave the mark alone.
LEMMA UnmarkedStep ==
  ASSUME Typed, WatcherSees, OneLive, ScansCurrent, NothingLost,
         UNCHANGED problem, notified' = notified, ReadyKept, ~WatcherClaim, [Next]_vars
  PROVE  ScansCurrent' /\ NothingLost'
  <1>0. /\ disk \in Nat /\ notified \in Nat /\ notified <= disk
        /\ snaps \in [Gens -> SnapRow] /\ run \in RunRow
    BY DEF Typed, WatcherSees, RunSound
  <1>b. ASSUME NEW c \in Nat, Backed(c), c >= notified
        PROVE  Backed(notified)'
    <2>1. PICK g \in Gens : snaps[g].state = "ready" /\ snaps[g].content >= c
      BY <1>b DEF Backed
    <2>2. snaps[g].content \in Nat BY <1>0 DEF SnapRow
    <2>3. snaps'[g].state = "ready" /\ snaps'[g].content >= notified'
      BY <1>0, <1>b, <2>1, <2>2 DEF ReadyKept
    <2> QED BY <2>3 DEF Backed
  <1>w. \/ Watched => Watched'
        \/ ~problem.dirty /\ Backed(disk)
    BY WatcherStep
  <1>1. ASSUME NEW g, NEW c, NEW by, Current(g, c, by)
        PROVE  StillCurrent(g, c, by)
    BY <1>1, <1>w DEF Current, StillCurrent
  <1>2. ASSUME NEW g \in Gens, snaps'[g].state = "ready", problem'.dirty, problem'.gen <= g
        PROVE  snaps'[g].content >= notified' \/ Watched'
    <2>1. snaps[g].state = "ready" /\ snaps'[g] = snaps[g] BY <1>2 DEF ReadyKept
    <2> QED BY <1>2, <1>w, <2>1 DEF ScansCurrent
  <1>3. NothingLost'
    <2> SUFFICES ASSUME ~problem.dirty, notified # 0 PROVE Backed(notified)' \/ Watched'
      BY DEF NothingLost, Watched
    <2>1. Backed(notified) \/ Watched BY DEF NothingLost, Watched
    <2> QED BY <1>0, <1>b, <1>w, <2>1
  <1>c. ASSUME run.phase = "start", run.who = "worker"
        PROVE  StillCurrent(run.gen, disk, run.who)
    BY <1>0, <1>c DEF StillCurrent
  <1>4. ASSUME NEW u \in uploads', ~u.fenced
        PROVE  StillCurrent(u.gen, u.content, u.by)
    <2>1. CASE u \in uploads BY <1>1, <1>4, <2>1 DEF ScansCurrent
    <2>2. CASE /\ ClaimSnapshot
               /\ u = [gen |-> run.gen, version |-> run.version, content |-> run.content,
                       fenced |-> FALSE, by |-> run.who]
      <3>1. Current(run.gen, run.content, run.who) BY <2>2 DEF ClaimSnapshot, ScansCurrent
      <3>2. u.gen = run.gen /\ u.content = run.content /\ u.by = run.who BY <2>2
      <3> QED BY <1>1, <3>1, <3>2
    <2> QED BY <1>4, <2>1, <2>2, UploadsStep
  <1>5. ASSUME run'.phase = "scanned"
        PROVE  StillCurrent(run'.gen, run'.content, run'.who)
    <2>1. CASE WorkerScan
      <3> DEFINE q == [run EXCEPT !.phase = "scanned"]
      <3>1. q \in RunRow /\ q.gen = run.gen /\ q.who = run.who BY <1>0 DEF RunRow, RunPhases
      <3>2. run' = [q EXCEPT !.content = disk] /\ run.phase = "start" /\ run.who = "worker"
        BY <2>1 DEF WorkerScan
      <3> HIDE DEF q
      <3>3. run'.gen = run.gen /\ run'.who = run.who /\ run'.content = disk
        BY <3>1, <3>2 DEF RunRow
      <3> QED BY <1>c, <3>2, <3>3
    <2>2. CASE ClaimSnapshot
      <3> DEFINE ph == IF run.who = "worker" THEN "waiting" ELSE "landed"
                 q == [run EXCEPT !.phase = ph]
                 p == [run EXCEPT !.phase = "waiting"]
      <3>1. q \in RunRow /\ q.phase = ph /\ ph # "scanned" /\ p \in RunRow /\ p.phase = "waiting"
        BY <1>0 DEF RunRow, RunPhases
      <3>2. run' = [p EXCEPT !.content = 0] \/ run' = [q EXCEPT !.content = 0]
        BY <2>2 DEF ClaimSnapshot
      <3> HIDE DEF q, p, ph
      <3> QED BY <1>5, <3>1, <3>2 DEF RunRow
    <2>3. CASE LeaseFollows
      <3>1. run' # NoRun BY <1>5 DEF NoRun
      <3>2. /\ run'.gen = run.gen /\ run'.who = run.who
            /\ run'.phase = run.phase /\ run'.content = run.content
        BY <1>5, <2>3, <3>1 DEF LeaseFollows
      <3>3. Current(run.gen, run.content, run.who) BY <1>5, <3>2 DEF ScansCurrent
      <3> QED BY <1>1, <3>2, <3>3
    <2> QED BY <2>1, <2>2, <2>3, LeaseStep
  <1> QED BY <1>2, <1>3, <1>4, <1>5 DEF ScansCurrent, Current, StillCurrent

LEMMA BackupStep ==
  ASSUME NamedGens = {}, BackupInv, [Next]_vars
  PROVE  BackupInv'
  <1> USE DEF BackupInv
  <1>1. Typed' BY TypeStep
  <1>2. GensAllocated' BY <1>1, GensStep
  <1>3. WatcherSees' BY WatcherStep
  <1>4. OneLive' BY LiveStep
  <1>5. ScansCurrent' /\ NothingLost'
    <2>1. CASE Marks BY <2>1, MarkedStep
    <2>2. CASE UploadLands BY <2>2, LandedStep
    <2>3. CASE WorkerClears BY <2>3, ClearsStep
    <2>4. CASE ~Marks /\ ~UploadLands /\ ~WorkerClears
      <3>1. UNCHANGED problem BY <2>4, ProblemStep
      <3>2. ASSUME NEW s \in Schedulers, NotifyDirty(s) PROVE Marks
        <4>1. /\ problem' = [dirty |-> TRUE, version |-> problem.version + 1, gen |-> nextGen]
              /\ nextGen' = nextGen + 1
          BY <3>2 DEF NotifyDirty
        <4> QED BY <4>1 DEF Marks
      <3>3. WatcherClaim => Marks
        <4> SUFFICES ASSUME WatcherClaim PROVE Marks OBVIOUS
        <4>1. /\ problem' = [dirty |-> TRUE, version |-> problem.version + 1, gen |-> nextGen]
              /\ nextGen' = nextGen + 1
          BY DEF WatcherClaim
        <4> QED BY <4>1 DEF Marks
      <3>4. notified' = notified
        <4>1. Edit \/ WatcherScan \/ DataPlaneRestart => notified' = notified
          BY DEF Edit, WatcherScan, DataPlaneRestart
        <4> QED BY <2>4, <3>2, <3>3, <4>1, FolderStep
      <3>5. ReadyKept BY <2>4, ReadyStep
      <3> QED BY <2>4, <3>1, <3>3, <3>4, <3>5, UnmarkedStep
    <2> QED BY <2>1, <2>2, <2>3, <2>4
  <1> QED BY <1>1, <1>2, <1>3, <1>4, <1>5

LEMMA InitBackup ==
  ASSUME Init
  PROVE  BackupInv
  <1>1. Typed BY InitTyped
  <1>2. /\ problem.gen = 0 /\ ~problem.dirty /\ nextGen = 1 /\ jobs = <<>> /\ uploads = {}
        /\ run.gen = 0 /\ run.phase = "none" /\ event = FALSE /\ ~watcher.busy /\ notified = 0
        /\ disk = 0
    BY DEF Init, NoRun, NotClaimed
  <1>3. \A g \in Gens : snaps[g].state = "none" BY SnapTypes DEF Init, SnapStates
  <1>4. \A s \in Schedulers : sched[s].gen = 0 BY DEF Init, Idle
  <1>5. GensAllocated BY <1>2, <1>3, <1>4 DEF GensAllocated
  <1>6. WatcherSees BY <1>2 DEF WatcherSees
  <1>7. OneLive BY <1>2 DEF OneLive
  <1>8. ScansCurrent /\ NothingLost BY <1>2, <1>3 DEF ScansCurrent, NothingLost
  <1> QED BY <1>1, <1>5, <1>6, <1>7, <1>8 DEF BackupInv

\* NotificationsSurvive: as long as no manual request names a generation
\* itself, a problem reads clean only when a READY snapshot holds what the OJ
\* last notified, or the watcher still has the change: however many schedulers,
\* retries, lost leases, restarts, slow uploads and claims of the watcher
\* interleave (finalize_snapshot_cas and clearDirtyAfterSnapshotForJob against
\* markProblemDirty).  A request that names one is the exception that the run
\* named_generation shows.
THEOREM NotificationsSurvive ==
  ASSUME NamedGens = {}
  PROVE  Spec => []NothingLost
  <1>1. BackupInv /\ [Next]_vars => BackupInv' BY BackupStep
  <1>2. BackupInv => NothingLost BY DEF BackupInv
  <1> QED BY <1>1, <1>2, InitBackup, PTL DEF Spec

=============================================================================
