------------------------ MODULE LocalLifecycleProofs ------------------------
(***************************************************************************)
(* Proofs about LocalLifecycle, for any number of folder versions and of   *)
(* faults: what takes a folder away, what a restore publishes, and whom an *)
(* eviction spares.  First TypeOK, operation by operation; then Safe, which *)
(* says what each operation may rely on between its steps.                 *)
(***************************************************************************)
EXTENDS LocalLifecycle, TLAPS

USE LifecycleAssumption

-----------------------------------------------------------------------------
(* The sets TypeOK is made of *)

JobStates == {"none", "pending", "running"}
UploadPc == {"idle", "sending"}
EvictionPc == {"idle", "started", "locked", "claimed", "moved"}
RestorePc == {"idle", "started", "staged", "locked", "claimed", "moved", "published",
              "committed", "reporting"}
ScanPc == {"idle", "scanned", "recorded", "reporting"}

Uploads == [pc: UploadPc, newest: BOOLEAN, content: Folders, fresh: BOOLEAN]
Evictions == [pc: EvictionPc, newest: BOOLEAN, same: BOOLEAN]
Restores == [pc: RestorePc, newest: BOOLEAN, same: BOOLEAN, content: Folders]
Scans == [pc: ScanPc, newest: BOOLEAN, late: BOOLEAN]

OneRunning(j) == \A t, s \in Types : j[t] = "running" /\ j[s] = "running" => s = t

-----------------------------------------------------------------------------
(* Updates of records and jobs *)

\* What the actions make of an upload of run_snapshot_upload is an upload.
LEMMA UploadUpdates ==
  ASSUME NEW u \in Uploads
  PROVE  /\ [u EXCEPT !.newest = FALSE] \in Uploads
         /\ [u EXCEPT !.pc = "idle", !.newest = FALSE, !.fresh = FALSE] \in Uploads
         /\ \A b \in BOOLEAN : [u EXCEPT !.fresh = b] \in Uploads
         /\ \A c \in Folders, b \in BOOLEAN :
              [pc |-> "sending", newest |-> TRUE, content |-> c, fresh |-> b] \in Uploads
  BY Zenon DEF Uploads, UploadPc

\* What the steps of evict_local make of its state keeps its type.
LEMMA EvictionUpdates ==
  ASSUME NEW e \in Evictions
  PROVE  /\ NoEviction \in Evictions
         /\ [e EXCEPT !.newest = FALSE] \in Evictions
         /\ [e EXCEPT !.same = FALSE] \in Evictions
         /\ \A pc \in EvictionPc : [e EXCEPT !.pc = pc] \in Evictions
         /\ \A pc \in EvictionPc, b \in BOOLEAN : [e EXCEPT !.pc = pc, !.newest = b] \in Evictions
         /\ \A pc \in EvictionPc, b, d \in BOOLEAN :
              [e EXCEPT !.pc = pc, !.newest = b, !.same = d] \in Evictions
  BY Zenon DEF Evictions, EvictionPc, NoEviction

\* What the steps of restore_snapshot and requests for it make of its state.
LEMMA RestoreUpdates ==
  ASSUME NEW r \in Restores
  PROVE  /\ [r EXCEPT !.newest = FALSE] \in Restores
         /\ [r EXCEPT !.same = FALSE] \in Restores
         /\ \A pc \in RestorePc : [r EXCEPT !.pc = pc] \in Restores
         /\ \A pc \in RestorePc, b \in BOOLEAN : [r EXCEPT !.pc = pc, !.newest = b] \in Restores
         /\ \A c \in Folders : [r EXCEPT !.same = TRUE, !.content = c] \in Restores
  BY Zenon DEF Restores

\* What the steps of a scan job make of its state.
LEMMA ScanUpdates ==
  ASSUME NEW s \in Scans
  PROVE  /\ NoScan \in Scans
         /\ [s EXCEPT !.newest = FALSE] \in Scans
         /\ [s EXCEPT !.late = FALSE] \in Scans
         /\ \A pc \in ScanPc : [s EXCEPT !.pc = pc] \in Scans
         /\ \A pc \in ScanPc, b \in BOOLEAN : [s EXCEPT !.pc = pc, !.newest = b] \in Scans
         /\ [pc |-> "scanned", newest |-> TRUE, late |-> TRUE] \in Scans
  BY Zenon DEF Scans, ScanPc, NoScan

\* Every statement that writes problem_usage writes a row.
LEMMA UsageUpdates ==
  ASSUME NEW u \in Usage
  PROVE  /\ SeenPresent(u) \in Usage
         /\ \A b \in BOOLEAN : [u EXCEPT !.accessed = b] \in Usage
         /\ [u EXCEPT !.newer = FALSE] \in Usage
         /\ [u EXCEPT !.local = "missing"] \in Usage
         /\ [u EXCEPT !.local = "missing", !.newer = TRUE] \in Usage
         /\ [u EXCEPT !.r2 = "ready", !.gen = "ready", !.newer = TRUE] \in Usage
         /\ \A b \in BOOLEAN :
              [u EXCEPT !.local = "present", !.r2 = "none", !.gen = "null", !.newer = b] \in Usage
         /\ \A g \in {"old", "ready"} : [u EXCEPT !.gen = g] \in Usage
         /\ \A g \in {"old", "ready"} : [u EXCEPT !.accessed = TRUE, !.gen = g] \in Usage
  BY Zenon DEF Usage, SeenPresent

\* A job that ends, is queued, or is leased while none runs, leaves at most one
\* running (idx_jobs_one_running_problem_operation).
LEMMA JobUpdates ==
  ASSUME NEW j \in [Types -> JobStates], OneRunning(j), NEW t \in Types
  PROVE  /\ \A s \in {"none", "pending"} :
              /\ [j EXCEPT ![t] = s] \in [Types -> JobStates]
              /\ OneRunning([j EXCEPT ![t] = s])
         /\ (\A s \in Types : j[s] # "running") =>
              /\ [j EXCEPT ![t] = "running"] \in [Types -> JobStates]
              /\ OneRunning([j EXCEPT ![t] = "running"])
  BY DEF OneRunning, JobStates

\* cancelPendingLocalJobsForRestore touches no running job.
LEMMA CancelledType ==
  ASSUME jobs \in [Types -> JobStates], OneRunning(jobs)
  PROVE  Cancelled \in [Types -> JobStates] /\ OneRunning(Cancelled)
  BY DEF Cancelled, OneRunning, JobStates

(* TypeOK over the sets above. *)
Typed ==
  /\ folder \in Folders /\ ready \in Folders /\ dirty \in BOOLEAN
  /\ usage \in Usage
  /\ jobs \in [Types -> JobStates] /\ OneRunning(jobs)
  /\ upload \in Uploads /\ eviction \in Evictions /\ restore \in Restores /\ scan \in Scans
  /\ sweep \in {"idle", "present", "missing"}
  /\ event \in BOOLEAN
  /\ ask \in {"idle", "touched", "missing", "served", "restoring"}
  /\ faults \in 0..MaxFaults

\* Typed is TypeOK, with its sets named.
LEMMA TypedIsTypeOK == TypeOK <=> Typed
  BY DEF TypeOK, Typed, Uploads, Evictions, Restores, Scans, UploadPc, EvictionPc, RestorePc,
         ScanPc, JobStates, OneRunning

\* The end of a job's run: completeJob, failJob, or a lease that nobody renews.
LEMMA EndedType ==
  ASSUME Typed, NEW t \in Types, NEW s \in {"none", "pending"}, Ended(t, s)
  PROVE  jobs' \in [Types -> JobStates] /\ OneRunning(jobs')
  <1> USE DEF Typed
  <1>1. CASE jobs[t] = "running"
    BY <1>1, JobUpdates DEF Ended
  <1>2. CASE jobs[t] # "running"
    <2>1. jobs' = [jobs EXCEPT ![t] = jobs[t]]
      BY <1>2 DEF Ended
    <2>2. jobs' = jobs
      BY <2>1
    <2> QED BY <2>2
  <1> QED BY <1>1, <1>2

\* The fields the actions copy.
LEMMA FieldTypes ==
  ASSUME Typed
  PROVE  /\ Absent \in Folders
         /\ upload.content \in Folders /\ upload.fresh \in BOOLEAN
         /\ restore.content \in Folders /\ restore.same \in BOOLEAN
         /\ scan.late \in BOOLEAN /\ usage.accessed \in BOOLEAN
  BY DEF Typed, Uploads, Restores, Scans, Usage, Folders, Absent

\* A fault is counted below its bound.
LEMMA FaultType ==
  ASSUME Typed, Fault
  PROVE  faults' \in 0..MaxFaults
  BY DEF Typed, Fault

\* A restore is queued for the READY generation (createRestoreJobIfMissing and
\* the restore route).
LEMMA RestoreQueued ==
  ASSUME Typed
  PROVE  /\ [Cancelled EXCEPT !["restore"] = "pending"] \in [Types -> JobStates]
         /\ OneRunning([Cancelled EXCEPT !["restore"] = "pending"])
         /\ [restore EXCEPT !.same = TRUE, !.content = ready] \in Restores
  <1>1. "restore" \in Types BY DEF Types
  <1>2. [restore EXCEPT !.same = TRUE, !.content = ready] \in Restores
    BY RestoreUpdates, Zenon DEF Typed
  <1> QED BY <1>1, <1>2, CancelledType, JobUpdates DEF Typed

\* A lease of another job draws a newer token.
LEMMA OutdatedType ==
  ASSUME Typed
  PROVE  /\ Outdated(upload) \in Uploads /\ Outdated(eviction) \in Evictions
         /\ Outdated(restore) \in Restores /\ Outdated(scan) \in Scans
  BY UploadUpdates, EvictionUpdates, RestoreUpdates, ScanUpdates DEF Outdated, Typed

\* Every step keeps the types, one operation at a time.
LEMMA TypeStep == Typed /\ [Next]_vars => Typed'
  <1> SUFFICES ASSUME Typed, [Next]_vars PROVE Typed'
    OBVIOUS
  <1> USE DEF Typed, ops
  <1>1. CASE RequestSnapshot
    BY <1>1, JobUpdates DEF RequestSnapshot, Request, Types
  <1>2. CASE RequestScan
    BY <1>2, JobUpdates DEF RequestScan, Request, Types
  <1>3. CASE RequestRestore
    <2>1. jobs' \in [Types -> JobStates] /\ OneRunning(jobs')
      <3>1. jobs' = [Cancelled EXCEPT !["restore"] = "pending"] \/ jobs' = Cancelled
        BY <1>3 DEF RequestRestore
      <3> QED BY <3>1, CancelledType, RestoreQueued
    <2>2. restore' \in Restores
      BY <1>3, RestoreQueued DEF RequestRestore
    <2> QED BY <1>3, <2>1, <2>2 DEF RequestRestore
  <1>4. CASE RequestEvict
    BY <1>4, UsageUpdates, JobUpdates DEF RequestEvict, Request, Types
  <1>5. CASE Edit
    BY <1>5 DEF Edit
  <1>6. CASE MarkDirty
    BY <1>6, UploadUpdates DEF MarkDirty, UploadPc
  <1>7. CASE WatchFolder
    BY <1>7, UsageUpdates DEF WatchFolder
  <1>8. CASE WatchChange
    <2>1. CASE upload.pc = "idle" /\ \A t \in Types : jobs[t] # "running"
      <3>1. jobs' \in [Types -> JobStates] /\ OneRunning(jobs')
        <4>1. jobs' = [jobs EXCEPT !["snapshot"] = "running"] /\ "snapshot" \in Types
          BY <1>8, <2>1 DEF WatchChange, Types
        <4> QED BY <4>1, <2>1, JobUpdates
      <3>2. upload' \in Uploads
        BY <1>8, <2>1, UploadUpdates DEF WatchChange
      <3>3. usage' \in Usage
        BY <1>8, <2>1, UsageUpdates DEF WatchChange
      <3> QED BY <1>8, <2>1, <3>1, <3>2, <3>3, OutdatedType DEF WatchChange
    <2>2. CASE ~(upload.pc = "idle" /\ \A t \in Types : jobs[t] # "running")
      <3>1. upload' \in Uploads
        BY <1>8, <2>2, UploadUpdates, FieldTypes DEF WatchChange
      <3>2. usage' \in Usage
        BY <1>8, <2>2, UsageUpdates DEF WatchChange
      <3> QED BY <1>8, <2>2, <3>1, <3>2 DEF WatchChange
    <2> QED BY <2>1, <2>2
  <1>9. CASE StartSnapshot
    <2>1. jobs' \in [Types -> JobStates] /\ OneRunning(jobs')
      BY <1>9, JobUpdates DEF StartSnapshot, Lease, Types
    <2>2. upload' \in Uploads
      BY <1>9, UploadUpdates DEF StartSnapshot
    <2> QED BY <1>9, <2>1, <2>2, OutdatedType DEF StartSnapshot
  <1>10. CASE PublishSnapshot
    <2>1. jobs' \in [Types -> JobStates] /\ OneRunning(jobs')
      BY <1>10, EndedType DEF PublishSnapshot, Types
    <2>2. upload' \in Uploads /\ ready' \in Folders
      BY <1>10, FieldTypes, UploadUpdates DEF PublishSnapshot
    <2>3. eviction' \in Evictions /\ restore' \in Restores
      BY <1>10, EvictionUpdates, RestoreUpdates DEF PublishSnapshot
    <2>4. usage' \in Usage
      BY <1>10, UsageUpdates DEF PublishSnapshot
    <2>5. dirty' \in BOOLEAN
      BY <1>10 DEF PublishSnapshot
    <2> QED BY <1>10, <2>1, <2>2, <2>3, <2>4, <2>5 DEF PublishSnapshot
  <1>11. CASE SnapshotFails
    <2>1. jobs' \in [Types -> JobStates] /\ OneRunning(jobs')
      BY <1>11, EndedType DEF SnapshotFails, Types
    <2>2. upload' \in Uploads
      BY <1>11, UploadUpdates DEF SnapshotFails, UploadPc
    <2> QED BY <1>11, <2>1, <2>2 DEF SnapshotFails
  <1>12. CASE StartEviction
    BY <1>12, UploadUpdates, EvictionUpdates, RestoreUpdates, ScanUpdates, JobUpdates
       DEF StartEviction, Lease, Outdated, UploadPc, EvictionPc, RestorePc, ScanPc,
           Types
  <1>13. CASE LockForEviction
    BY <1>13, EvictionUpdates DEF LockForEviction, EvictionPc
  <1>14. CASE ClaimEviction
    BY <1>14, EvictionUpdates DEF ClaimEviction, EvictionPc
  <1>15. CASE MoveAway
    BY <1>15, FieldTypes, EvictionUpdates DEF MoveAway, EvictionPc
  <1>16. CASE CommitEviction
    <2>1. jobs' \in [Types -> JobStates] /\ OneRunning(jobs')
      BY <1>16, EndedType DEF CommitEviction, Types
    <2>2. eviction' \in Evictions
      BY <1>16, EvictionUpdates DEF CommitEviction
    <2>3. usage' \in Usage
      BY <1>16, UsageUpdates DEF CommitEviction
    <2> QED BY <1>16, <2>1, <2>2, <2>3 DEF CommitEviction
  <1>17. CASE EvictionRefused
    <2>1. jobs' \in [Types -> JobStates] /\ OneRunning(jobs')
      BY <1>17, JobUpdates DEF EvictionRefused, Lease, Types
    <2>2. eviction' \in Evictions
      BY <1>17, EvictionUpdates DEF EvictionRefused
    <2> QED BY <1>17, <2>1, <2>2 DEF EvictionRefused
  <1>18. CASE StartRestore
    BY <1>18, UploadUpdates, EvictionUpdates, RestoreUpdates, ScanUpdates, JobUpdates
       DEF StartRestore, Lease, Outdated, UploadPc, EvictionPc, RestorePc, ScanPc, Types
  <1>19. CASE StageRestore
    BY <1>19, RestoreUpdates DEF StageRestore, RestorePc
  <1>20. CASE LockForRestore
    BY <1>20, RestoreUpdates DEF LockForRestore, RestorePc
  <1>21. CASE ClaimRestore
    BY <1>21, RestoreUpdates DEF ClaimRestore, RestorePc
  <1>22. CASE MoveOld
    BY <1>22, FieldTypes, RestoreUpdates DEF MoveOld, RestorePc
  <1>23. CASE PublishFolder
    BY <1>23, FieldTypes, RestoreUpdates DEF PublishFolder, RestorePc
  <1>24. CASE CommitRestore
    BY <1>24, RestoreUpdates, UsageUpdates DEF CommitRestore, RestorePc
  <1>25. CASE AssertRestoreLease
    BY <1>25, RestoreUpdates DEF AssertRestoreLease, RestorePc
  <1>26. CASE ReportRestore
    <2>1. jobs' \in [Types -> JobStates] /\ OneRunning(jobs')
      BY <1>26, EndedType DEF ReportRestore, Types
    <2>2. restore' \in Restores
      BY <1>26, RestoreUpdates DEF ReportRestore, RestorePc
    <2>3. usage' \in Usage
      <3>1. SeenPresent(usage) \in Usage
        BY UsageUpdates
      <3> QED BY <1>26, <3>1, UsageUpdates DEF ReportRestore
    <2> QED BY <1>26, <2>1, <2>2, <2>3 DEF ReportRestore
  <1>27. CASE RestoreRefused
    <2>1. jobs' \in [Types -> JobStates] /\ OneRunning(jobs')
      BY <1>27, EndedType DEF RestoreRefused, Types
    <2>2. restore' \in Restores
      BY <1>27, RestoreUpdates DEF RestoreRefused, RestorePc
    <2> QED BY <1>27, <2>1, <2>2 DEF RestoreRefused
  <1>28. CASE RunScan
    BY <1>28, UploadUpdates, EvictionUpdates, RestoreUpdates, ScanUpdates, JobUpdates
       DEF RunScan, Lease, Outdated, UploadPc, EvictionPc, RestorePc, ScanPc, Types
  <1>29. CASE ScanRecords
    BY <1>29, ScanUpdates, UsageUpdates DEF ScanRecords, ScanPc
  <1>30. CASE AssertScanLease
    BY <1>30, ScanUpdates DEF AssertScanLease, ScanPc
  <1>31. CASE ReportScan
    <2>1. usage' \in Usage
      BY <1>31, FieldTypes, UsageUpdates DEF ReportScan
    <2>2. scan' \in Scans
      BY <1>31, ScanUpdates DEF ReportScan
    <2>3. jobs' \in [Types -> JobStates] /\ OneRunning(jobs')
      BY <1>31, EndedType DEF ReportScan, Types
    <2> QED BY <1>31, <2>1, <2>2, <2>3 DEF ReportScan
  <1>32. CASE StartSweep
    BY <1>32, UsageUpdates DEF StartSweep, Healed
  <1>33. CASE RecordSweep
    BY <1>33, UsageUpdates DEF RecordSweep
  <1>34. CASE AbandonSweep
    BY <1>34 DEF AbandonSweep
  <1>35. CASE Touch
    <2>1. jobs' \in [Types -> JobStates] /\ OneRunning(jobs')
      <3>1. CASE jobs["evict"] = "pending"
        BY <1>35, <3>1, JobUpdates DEF Touch, Types
      <3>2. CASE jobs["evict"] # "pending"
        <4>1. jobs' = [jobs EXCEPT !["evict"] = jobs["evict"]]
          BY <1>35, <3>2 DEF Touch
        <4>2. jobs' = jobs
          BY <4>1
        <4> QED BY <4>2
      <3> QED BY <3>1, <3>2
    <2>2. usage' \in Usage
      BY <1>35, UsageUpdates DEF Touch
    <2> QED BY <1>35, <2>1, <2>2 DEF Touch
  <1>36. CASE CheckReady
    BY <1>36, ScanUpdates, UsageUpdates DEF CheckReady, ScanPc
  <1>37. CASE ClaimMissing
    <2>1. jobs' \in [Types -> JobStates] /\ OneRunning(jobs')
      <3>1. jobs' \in {[Cancelled EXCEPT !["restore"] = "pending"], Cancelled, jobs}
        BY <1>37 DEF ClaimMissing
      <3> QED BY <3>1, CancelledType, RestoreQueued
    <2>2. restore' \in Restores
      BY <1>37, RestoreQueued DEF ClaimMissing
    <2>3. usage' \in Usage
      BY <1>37, UsageUpdates DEF ClaimMissing
    <2> QED BY <1>37, <2>1, <2>2, <2>3 DEF ClaimMissing
  <1>38. CASE Leave
    BY <1>38 DEF Leave
  <1>39. CASE DropEviction
    <2>1. jobs' \in [Types -> JobStates] /\ OneRunning(jobs')
      BY <1>39, EndedType DEF DropEviction, Types
    <2>2. eviction' \in Evictions
      BY <1>39, EvictionUpdates DEF DropEviction, EvictionPc
    <2>3. faults' \in 0..MaxFaults
      BY <1>39, FaultType DEF DropEviction
    <2> QED BY <1>39, <2>1, <2>2, <2>3 DEF DropEviction
  <1>40. CASE DropRestore
    <2>1. jobs' \in [Types -> JobStates] /\ OneRunning(jobs')
      BY <1>40, EndedType DEF DropRestore, Types
    <2>2. restore' \in Restores
      BY <1>40, RestoreUpdates DEF DropRestore, RestorePc
    <2>3. faults' \in 0..MaxFaults
      BY <1>40, FaultType DEF DropRestore
    <2> QED BY <1>40, <2>1, <2>2, <2>3 DEF DropRestore
  <1>41. ASSUME NEW t \in Types, NothingThere(t) PROVE Typed'
    BY <1>41, JobUpdates DEF NothingThere
  <1>42. ASSUME NEW t \in Types, LoseLease(t) PROVE Typed'
    BY <1>42, JobUpdates, FaultType DEF LoseLease
  <1>43. CASE UNCHANGED vars
    BY <1>43 DEF vars
  <1> QED BY <1>1, <1>2, <1>3, <1>4, <1>5, <1>6, <1>7, <1>8, <1>9, <1>10, <1>11, <1>12,
             <1>13, <1>14, <1>15, <1>16, <1>17, <1>18, <1>19, <1>20, <1>21, <1>22, <1>23,
             <1>24, <1>25, <1>26, <1>27, <1>28, <1>29, <1>30, <1>31, <1>32, <1>33, <1>34,
             <1>35, <1>36, <1>37, <1>38, <1>39, <1>40, <1>41, <1>42, <1>43
         DEF Next, SnapshotStep, EvictionStep, RestoreStep, ScanStep, SweepStep, AskStep

-----------------------------------------------------------------------------
(* The inductive invariant *)

(* The file lock has one holder. *)
OneHolder ==
  ~ (/\ eviction.pc \in {"locked", "claimed", "moved"}
     /\ restore.pc \in {"locked", "claimed", "moved", "published"})

(* What an eviction compared under the file lock still holds, unless another   *)
(* generation became READY; from the claim on none can.                       *)
EvictionSafe ==
  /\ eviction.pc \in {"locked", "claimed"} /\ eviction.same => folder # Absent /\ folder = ready
  /\ eviction.pc = "claimed" => eviction.same

(* A restore has the content of its generation while that is READY, and the    *)
(* folder it replaces is that generation's.                                   *)
RestoreSafe ==
  /\ restore.same => restore.content = ready /\ ready # Absent
  /\ restore.pc \in {"claimed", "moved"} => restore.same
  /\ restore.pc = "claimed" /\ folder # Absent => folder = ready

(* A submission in progress has touched the problem, and none is in progress   *)
(* when an eviction finds the problem untouched.                              *)
AskSafe ==
  /\ ask # "idle" => usage.accessed
  /\ eviction.pc = "claimed" => ask = "idle"

(* A READY snapshot is of a folder that existed. *)
SnapshotSafe ==
  /\ upload.pc = "sending" => upload.content # Absent
  /\ ask = "missing" => ready # Absent

Safe == OneHolder /\ EvictionSafe /\ RestoreSafe /\ AskSafe /\ SnapshotSafe

IInv == TypeOK /\ Safe

\* Every step keeps what the operations rely on. The file lock keeps edits and the
\* other operation out; the advisory lock keeps READY transactions and touches out.
LEMMA SafeStep == Typed /\ Safe /\ [Next]_vars => Safe'
  <1> SUFFICES ASSUME Typed, Safe, [Next]_vars PROVE Safe'
    OBVIOUS
  <1> USE DEF Safe, SnapshotSafe, OneHolder, EvictionSafe, RestoreSafe, AskSafe, ops
  <1>1. CASE RequestSnapshot
    BY <1>1 DEF RequestSnapshot, Typed
  <1>2. CASE RequestScan
    BY <1>2 DEF RequestScan, Typed
  <1>3. CASE RequestRestore
    BY <1>3 DEF RequestRestore, Typed, Restores
  <1>4. CASE RequestEvict
    BY <1>4 DEF RequestEvict, Typed, Usage
  <1>5. CASE Edit
    BY <1>5 DEF Edit, Typed, FileLocked, Folders, Absent
  <1>6. CASE MarkDirty
    BY <1>6 DEF MarkDirty, Typed, Locked, Uploads
  <1>7. CASE WatchFolder
    BY <1>7 DEF WatchFolder, Typed, SeenPresent, Usage
  <1>8. CASE WatchChange
    <2>1. UNCHANGED <<folder, ready, ask>>
      BY <1>8 DEF WatchChange
    <2>2. \/ upload' = [pc |-> "sending", newest |-> TRUE, content |-> folder, fresh |-> TRUE]
          \/ \E b : upload' = [upload EXCEPT !.fresh = b]
      BY <1>8 DEF WatchChange
    <2>3. upload'.pc = "sending" => upload'.content # Absent
      BY <1>8, <2>2 DEF WatchChange, Typed, Uploads
    <2>4. eviction'.pc = eviction.pc /\ eviction'.same = eviction.same
      BY <1>8 DEF WatchChange, Outdated, Typed, Evictions
    <2>5. restore'.pc = restore.pc /\ restore'.same = restore.same /\ restore'.content = restore.content
      BY <1>8 DEF WatchChange, Outdated, Typed, Restores
    <2>6. usage'.accessed = usage.accessed
      BY <1>8 DEF WatchChange, SeenPresent, Typed, Usage
    <2> QED BY <2>1, <2>3, <2>4, <2>5, <2>6
  <1>9. CASE StartSnapshot
    BY <1>9 DEF StartSnapshot, Typed, Outdated, Evictions, Restores, Uploads
  <1>10. CASE PublishSnapshot
    BY <1>10 DEF PublishSnapshot, Typed, Locked, Evictions, Restores, Usage, Uploads
  <1>11. CASE SnapshotFails
    BY <1>11 DEF SnapshotFails, Typed, Uploads
  <1>12. CASE StartEviction
    BY <1>12 DEF StartEviction, Typed, Outdated, Evictions, Restores, Uploads
  <1>13. CASE LockForEviction
    BY <1>13 DEF LockForEviction, Typed, FileLocked, Matches, Evictions
  <1>14. CASE ClaimEviction
    BY <1>14 DEF ClaimEviction, Typed, MayEvict, Evictions
  <1>15. CASE MoveAway
    BY <1>15 DEF MoveAway, Typed, Evictions
  <1>16. CASE CommitEviction
    BY <1>16 DEF CommitEviction, Typed, NoEviction, Evictions, Usage
  <1>17. CASE EvictionRefused
    BY <1>17 DEF EvictionRefused, Typed, NoEviction, Evictions
  <1>18. CASE StartRestore
    BY <1>18 DEF StartRestore, Typed, Outdated, Evictions, Restores, Uploads
  <1>19. CASE StageRestore
    BY <1>19 DEF StageRestore, Typed, Restores
  <1>20. CASE LockForRestore
    BY <1>20 DEF LockForRestore, Typed, FileLocked, Restores
  <1>21. CASE ClaimRestore
    BY <1>21 DEF ClaimRestore, Typed, MayRestore, Matches, Restores
  <1>22. CASE MoveOld
    BY <1>22 DEF MoveOld, Typed, Restores
  <1>23. CASE PublishFolder
    BY <1>23 DEF PublishFolder, Typed, Restores
  <1>24. CASE CommitRestore
    BY <1>24 DEF CommitRestore, Typed, SeenPresent, Restores, Usage
  <1>25. CASE AssertRestoreLease
    BY <1>25 DEF AssertRestoreLease, Typed, Restores
  <1>26. CASE ReportRestore
    BY <1>26 DEF ReportRestore, Typed, SeenPresent, UsageLocked, Restores, Usage
  <1>27. CASE RestoreRefused
    BY <1>27 DEF RestoreRefused, Typed, Restores
  <1>28. CASE RunScan
    BY <1>28 DEF RunScan, Typed, Outdated, Evictions, Restores, Uploads
  <1>29. CASE ScanRecords
    BY <1>29 DEF ScanRecords, Typed, SeenPresent, Usage
  <1>30. CASE AssertScanLease
    BY <1>30 DEF AssertScanLease, Typed
  <1>31. CASE ReportScan
    BY <1>31 DEF ReportScan, Typed, Usage
  <1>32. CASE StartSweep
    BY <1>32 DEF StartSweep, Typed, Healed, Usage
  <1>33. CASE RecordSweep
    BY <1>33 DEF RecordSweep, Typed, SeenPresent, Usage
  <1>34. CASE AbandonSweep
    BY <1>34 DEF AbandonSweep, Typed
  <1>35. CASE Touch
    BY <1>35 DEF Touch, Typed, Locked, Usage
  <1>36. CASE CheckReady
    BY <1>36 DEF CheckReady, Typed, Usage
  <1>37. CASE ClaimMissing
    BY <1>37 DEF ClaimMissing, Typed, Restores, Usage
  <1>38. CASE Leave
    BY <1>38 DEF Leave, Typed
  <1>39. CASE DropEviction
    BY <1>39 DEF DropEviction, Typed, NoEviction, Evictions
  <1>40. CASE DropRestore
    BY <1>40 DEF DropRestore, Typed, Restores
  <1>41. ASSUME NEW t \in Types, NothingThere(t) PROVE Safe'
    BY <1>41 DEF NothingThere
  <1>42. ASSUME NEW t \in Types, LoseLease(t) PROVE Safe'
    BY <1>42 DEF LoseLease
  <1>43. CASE UNCHANGED vars
    BY <1>43 DEF vars
  <1> QED BY <1>1, <1>2, <1>3, <1>4, <1>5, <1>6, <1>7, <1>8, <1>9, <1>10, <1>11, <1>12,
             <1>13, <1>14, <1>15, <1>16, <1>17, <1>18, <1>19, <1>20, <1>21, <1>22, <1>23,
             <1>24, <1>25, <1>26, <1>27, <1>28, <1>29, <1>30, <1>31, <1>32, <1>33, <1>34,
             <1>35, <1>36, <1>37, <1>38, <1>39, <1>40, <1>41, <1>42, <1>43
         DEF Next, SnapshotStep, EvictionStep, RestoreStep, ScanStep, SweepStep, AskStep

-----------------------------------------------------------------------------
(* The theorems *)

\* The initial states have the types and nothing is in progress in them.
LEMMA InitInv == Init => IInv
  <1> SUFFICES ASSUME Init PROVE IInv
    OBVIOUS
  <1> 0 \in Folders /\ 1 \in Folders
    BY DEF Folders
  <1>1. Typed
    <2>1. folder \in Folders /\ ready \in Folders /\ faults \in 0..MaxFaults
      BY DEF Init, Absent
    <2>2. usage \in Usage
      BY Zenon DEF Init, Usage
    <2>3. jobs \in [Types -> JobStates] /\ OneRunning(jobs)
      BY DEF Init, JobStates, OneRunning
    <2>4. upload \in Uploads
      BY Zenon DEF Init, Uploads, UploadPc, Absent
    <2>5. eviction \in Evictions
      BY Zenon DEF Init, Evictions, EvictionPc, NoEviction
    <2>6. restore \in Restores
      BY Zenon DEF Init, Restores, RestorePc, Absent
    <2>7. scan \in Scans
      BY Zenon DEF Init, Scans, ScanPc, NoScan
    <2> QED BY <2>1, <2>2, <2>3, <2>4, <2>5, <2>6, <2>7 DEF Init, Typed
  <1>2. Safe
    BY DEF Init, Safe, NoEviction, OneHolder, EvictionSafe, RestoreSafe, AskSafe, SnapshotSafe
  <1> QED BY <1>1, <1>2, TypedIsTypeOK DEF IInv

\* The state of the folder, of the operations on it and of its projection keeps
\* its type (problems, problem_usage, jobs, and the calls in the data plane).
THEOREM TypeCorrect == Spec => []TypeOK
  <1>1. Init => TypeOK
    BY InitInv, Zenon DEF IInv
  <1>2. TypeOK <=> Typed
    BY TypedIsTypeOK
  <1>3. Typed /\ [Next]_vars => Typed'
    BY TypeStep
  <1> QED BY <1>1, <1>2, <1>3, PTL DEF Spec

\* What evict_local and restore_snapshot compared under the file lock holds until
\* their renames.
THEOREM FolderInvariant == Spec => []IInv
  <1>1. IInv /\ [Next]_vars => Safe' BY SafeStep, TypedIsTypeOK DEF IInv
  <1> QED BY <1>1, InitInv, TypeCorrect, PTL DEF Spec, IInv

\* The folder changes by an edit and three renames only.
LEMMA OthersKeepFolder ==
  Next => Edit \/ MoveAway \/ MoveOld \/ PublishFolder \/ UNCHANGED folder
  BY DEF Next, SnapshotStep, EvictionStep, RestoreStep, ScanStep, SweepStep, AskStep, ops,
         RequestSnapshot, RequestScan, RequestRestore, RequestEvict, MarkDirty,
           WatchFolder, WatchChange, StartSnapshot, PublishSnapshot, SnapshotFails,
           StartEviction, LockForEviction, ClaimEviction, CommitEviction, EvictionRefused,
           StartRestore, StageRestore, LockForRestore, ClaimRestore, CommitRestore,
           AssertRestoreLease, ReportRestore, RestoreRefused, RunScan, ScanRecords,
           AssertScanLease, ReportScan, StartSweep, RecordSweep, AbandonSweep, Touch,
           CheckReady, ClaimMissing, Leave, DropEviction, DropRestore, NothingThere,
           LoseLease

\* Only the rename of the staged folder publishes a restore.
LEMMA OnlyPublishes ==
  ASSUME TypeOK, Next, restore.pc = "moved", restore'.pc = "published"
  PROVE  PublishFolder
  BY DEF TypeOK, Next, SnapshotStep, EvictionStep, RestoreStep, ScanStep, SweepStep, AskStep, ops,
         Edit, MoveAway, MoveOld, RequestSnapshot, RequestScan, RequestRestore,
           RequestEvict, MarkDirty, WatchFolder, WatchChange, StartSnapshot,
           PublishSnapshot, SnapshotFails, StartEviction, LockForEviction, ClaimEviction,
           CommitEviction, EvictionRefused, StartRestore, StageRestore, LockForRestore,
           ClaimRestore, CommitRestore, AssertRestoreLease, ReportRestore, RestoreRefused,
           RunScan, ScanRecords, AssertScanLease, ReportScan, StartSweep, RecordSweep,
           AbandonSweep, Touch, CheckReady, ClaimMissing, Leave, DropEviction,
           DropRestore, NothingThere, LoseLease, Outdated

\* evict_local and restore_snapshot take away only what the READY snapshot holds.
THEOREM FilesAreNeverLost == Spec => NothingDestroyed
  <1> DEFINE Kept == folder # Absent /\ folder' = Absent => folder = ready
  <1>1. IInv /\ [Next]_vars => [Kept]_vars
    <2> SUFFICES ASSUME IInv, Next PROVE Kept
      BY DEF vars
    <2> USE DEF IInv, Safe, ops
    <2>1. CASE Edit
      <3>1. folder' > folder /\ folder \in Nat
        BY <2>1, LifecycleAssumption DEF Edit, TypeOK, Folders
      <3> QED BY <3>1 DEF Absent
    <2>2. CASE MoveAway
      BY <2>2 DEF MoveAway, EvictionSafe
    <2>3. CASE MoveOld
      BY <2>3 DEF MoveOld, RestoreSafe
    <2>4. CASE PublishFolder
      BY <2>4 DEF PublishFolder, RestoreSafe
    <2>5. CASE UNCHANGED folder
      BY <2>5
    <2> QED BY <2>1, <2>2, <2>3, <2>4, <2>5, OthersKeepFolder
  <1> QED BY <1>1, FolderInvariant, PTL DEF Spec, NothingDestroyed

\* What restore_snapshot renames into place is the READY generation at that moment,
\* although it was downloaded before any lock was taken.
THEOREM RestoresPublishReady == Spec => RestoresReady
  <1> DEFINE Published == restore.pc = "moved" /\ restore'.pc = "published" => folder' = ready
  <1>1. IInv /\ [Next]_vars => [Published]_vars
    <2> SUFFICES ASSUME IInv, Next, restore.pc = "moved", restore'.pc = "published"
                 PROVE  folder' = ready
      BY DEF vars
    <2>1. PublishFolder
      BY OnlyPublishes DEF IInv
    <2> QED BY <2>1 DEF PublishFolder, IInv, Safe, RestoreSafe
  <1> QED BY <1>1, FolderInvariant, PTL DEF Spec, RestoresReady

\* An eviction of an idle problem spares the folder of a submission that was told
\* the folder is ready: touchProblemAccess and the claim of evict_local exclude
\* each other.
THEOREM ServedFolderStays == Spec => ServedKeepsFolder
  <1> DEFINE Spared == eviction.pc = "claimed" /\ eviction'.pc = "moved" => ask # "served"
  <1>1. IInv /\ [Next]_vars => [Spared]_vars
    BY DEF IInv, Safe, AskSafe, vars
  <1> QED BY <1>1, FolderInvariant, PTL DEF Spec, ServedKeepsFolder
=============================================================================
