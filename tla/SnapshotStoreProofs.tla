------------------------- MODULE SnapshotStoreProofs -------------------------
(***************************************************************************)
(* Proofs about SnapshotStore, for any problems, generations, contents,     *)
(* objects and collectors and any bounds, however long uploads last: its    *)
(* types, that what the archive promises stays restorable, that marks tell  *)
(* the truth, that pruning leaves nothing behind, and that the tables and   *)
(* the object store implement Archive.                                      *)
(***************************************************************************)
EXTENDS SnapshotStore, TLAPS

USE StoreAssumption
-----------------------------------------------------------------------------
(* Types *)

\* A folder has keys of objects for its paths.
LEMMA FilesType ==
  ASSUME NEW c \in Contents
  PROVE  /\ Files[c] \in [Paths -> Objects \cup {NoKey}]
         /\ Listed(Files[c]) \subseteq Objects
         /\ \A f \in Paths : Files[c][f] # NoKey => Files[c][f] \in Listed(Files[c])
         /\ \A o \in Listed(Files[c]) : \E f \in Paths : Files[c][f] = o /\ o # NoKey
  <1>1. Files[c] \in [Paths -> Objects \cup {NoKey}]
    OBVIOUS
  <1> QED BY <1>1 DEF Listed

\* What the statements on the snapshots table make of a row is a row: a claim,
\* the change of state of a step, the references of prepare and finalize, the end
\* of a window.
LEMMA RowUpdates ==
  ASSUME NEW x \in Row
  PROVE  /\ [x EXCEPT !.expired = TRUE] \in Row
         /\ Forgotten(x) \in Row
         /\ \A f \in Paths, o \in Objects : [x EXCEPT !.refs[f] = o] \in Row
         /\ \A s \in Active \cup {"none", "ready", "superseded", "error"} :
              /\ [x EXCEPT !.state = s] \in Row
              /\ [x EXCEPT !.state = s, !.expired = FALSE] \in Row
              /\ [x EXCEPT !.state = s, !.named = FALSE, !.expired = FALSE] \in Row
         /\ \A c \in Contents : Referring(x, c) \in Row
  <1>1. \A c \in Contents : Referring(x, c) \in Row
    <2>1. \A g \in [Paths -> Objects \cup {NoKey}] : [x EXCEPT !.named = TRUE, !.refs = g] \in Row
      BY Zenon DEF Row
    <2>2. x.refs \in [Paths -> Objects \cup {NoKey}]
      BY DEF Row
    <2>3. \A c \in Contents : [f \in Paths |-> IF Files[c][f] # NoKey THEN Files[c][f] ELSE x.refs[f]]
                                \in [Paths -> Objects \cup {NoKey}]
      BY <2>2, FilesType
    <2> QED BY <2>1, <2>3 DEF Referring
  <1>2. Forgotten(x) \in Row
    <2>1. NoFile \in [Paths -> Objects \cup {NoKey}]
      BY DEF NoFile
    <2> QED BY <2>1, Zenon DEF Forgotten, Row
  <1>3. ASSUME NEW f \in Paths, NEW o \in Objects PROVE [x EXCEPT !.refs[f] = o] \in Row
    <2>1. x.refs \in [Paths -> Objects \cup {NoKey}]
      BY DEF Row
    <2>2. [x.refs EXCEPT ![f] = o] \in [Paths -> Objects \cup {NoKey}]
      BY <2>1
    <2>3. [x EXCEPT !.refs = [x.refs EXCEPT ![f] = o]] \in Row
      BY <2>2, Zenon DEF Row
    <2> QED BY <2>3
  <1> QED BY <1>1, <1>2, <1>3, Zenon DEF Row

\* A row nobody inserted.
LEMMA NoRowType == NoRow \in Row
  <1>1. NoFile \in [Paths -> Objects \cup {NoKey}]
    BY DEF NoFile
  <1> QED BY <1>1, Zenon DEF Row, NoRow, Active

\* What the steps of the background upload make of it is an upload, and the keys
\* of its content are objects.
LEMMA UploadUpdates ==
  ASSUME NEW u \in Upload
  PROVE  /\ [u EXCEPT !.current = FALSE] \in Upload
         /\ \A b : [u EXCEPT !.known = @ /\ b] \in Upload
         /\ \A ph \in {"hashing", "sending", "verifying", "published"} : [u EXCEPT !.phase = ph] \in Upload
         /\ \A d \in SUBSET Paths : [u EXCEPT !.phase = "sending", !.todo = d] \in Upload
         /\ \A f : [u EXCEPT !.todo = @ \ {f}] \in Upload
         /\ u.row \in Rows /\ u.content \in Contents /\ u.todo \subseteq Paths
  BY Zenon DEF Upload

\* And they change nothing else of it.
LEMMA UploadFields ==
  ASSUME NEW u \in Upload, NEW x
  PROVE  /\ [u EXCEPT !.current = x].row = u.row /\ [u EXCEPT !.current = x].content = u.content
         /\ [u EXCEPT !.current = x].todo = u.todo /\ [u EXCEPT !.current = x].phase = u.phase
         /\ [u EXCEPT !.current = x].known = u.known
         /\ [u EXCEPT !.known = @ /\ x].row = u.row /\ [u EXCEPT !.known = @ /\ x].content = u.content
         /\ [u EXCEPT !.known = @ /\ x].todo = u.todo /\ [u EXCEPT !.known = @ /\ x].phase = u.phase
         /\ [u EXCEPT !.known = @ /\ x].known = (u.known /\ x)
         /\ [u EXCEPT !.phase = x].row = u.row /\ [u EXCEPT !.phase = x].content = u.content
         /\ [u EXCEPT !.phase = x].todo = u.todo /\ [u EXCEPT !.phase = x].phase = x
         /\ [u EXCEPT !.phase = x].known = u.known
         /\ [u EXCEPT !.phase = "sending", !.todo = x].row = u.row /\ [u EXCEPT !.phase = "sending", !.todo = x].content = u.content
         /\ [u EXCEPT !.phase = "sending", !.todo = x].todo = x /\ [u EXCEPT !.phase = "sending", !.todo = x].phase = "sending"
         /\ [u EXCEPT !.phase = "sending", !.todo = x].known = u.known
         /\ [u EXCEPT !.todo = @ \ {x}].row = u.row /\ [u EXCEPT !.todo = @ \ {x}].content = u.content
         /\ [u EXCEPT !.todo = @ \ {x}].todo = u.todo \ {x} /\ [u EXCEPT !.todo = @ \ {x}].phase = u.phase
         /\ [u EXCEPT !.todo = @ \ {x}].known = u.known
  BY Zenon DEF Upload

\* A statement that names a row by its id touches that row or nothing.
LEMMA UpdatedRow ==
  ASSUME TypeOK, NEW u \in uploads, NEW x
  PROVE  /\ u.known => Updated(u, x) = [rows EXCEPT ![u.row] = x] /\ Updated(u, x)[u.row] = x
         /\ ~u.known => Updated(u, x) = rows
         /\ \A r \in Rows \ {u.row} : Updated(u, x)[r] = rows[r]
         /\ x \in Row => Updated(u, x) \in [Rows -> Row]
  <1>1. u.row \in Rows /\ rows \in [Rows -> Row]
    BY UploadUpdates DEF TypeOK
  <1> QED BY <1>1 DEF Updated

\* The paths an upload has still to send have keys.
TodoListed == \A u \in uploads : \A f \in u.todo : Files[u.content][f] # NoKey

\* They keep them while uploads only move on, end or lose their row.
LEMMA TodoKept ==
  ASSUME TodoListed, \A v \in uploads' : \E u \in uploads : v.content = u.content /\ v.todo \subseteq u.todo
  PROVE  TodoListed'
  BY DEF TodoListed

\* So they do when one upload is replaced by one that has no more to send.
LEMMA TodoAdvances ==
  ASSUME TodoListed, NEW u \in uploads, NEW v, Advance(u, v),
         v.content = u.content, v.todo \subseteq u.todo
  PROVE  TodoListed'
  BY DEF TodoListed, Advance

\* What the steps of gc_collect and delete_object make of a collector is one.
LEMMA CollectorUpdates ==
  ASSUME NEW x \in Collector
  PROVE  /\ [x EXCEPT !.current = FALSE] \in Collector
         /\ \A b : [x EXCEPT !.valid = @ /\ b] \in Collector
         /\ \A ph \in {"locked", "cleared", "deleted"} : [x EXCEPT !.phase = ph] \in Collector
         /\ Resting \in Collector
         /\ \A k \in Keys : [phase |-> "listed", current |-> TRUE, key |-> k, valid |-> TRUE] \in Collector
  BY Zenon DEF Collector, Resting

\* Every statement, transaction and request keeps the tables, the store and the
\* locks well-typed, and a held key lock belongs to the call that holds it.
LEMMA TypeStep == TypeOK /\ [Next]_vars => TypeOK'
  <1> SUFFICES ASSUME TypeOK, [Next]_vars PROVE TypeOK'
    OBVIOUS
  <1> USE DEF TypeOK
  <1>1. ASSUME NEW p \in Problems, LeaseSnapshot(p) PROVE TypeOK'
    <2>1. \A u \in uploads : u \in Upload /\ [u EXCEPT !.current = FALSE] \in Upload
      BY UploadUpdates
    <2>2. uploads' \subseteq Upload
      <3> SUFFICES ASSUME NEW v \in uploads' PROVE v \in Upload
        OBVIOUS
      <3>1. PICK u \in uploads : v = IF u.row[1] = p THEN [u EXCEPT !.current = FALSE] ELSE u
        BY <1>1, Zenon DEF LeaseSnapshot
      <3> QED BY <3>1, <2>1
    <2>3. TodoListed'
      <3> SUFFICES ASSUME NEW v \in uploads'
                   PROVE  \E u \in uploads : v.content = u.content /\ v.todo \subseteq u.todo
        BY TodoKept DEF TodoListed
      <3>1. PICK u \in uploads : v = IF u.row[1] = p THEN [u EXCEPT !.current = FALSE] ELSE u
        BY <1>1, Zenon DEF LeaseSnapshot
      <3> QED BY <3>1, UploadFields
    <2> QED BY <1>1, <2>2, <2>3 DEF LeaseSnapshot, TodoListed
  <1>2. ASSUME NEW r \in Rows, NEW c \in Contents, ClaimSnapshot(r, c) PROVE TypeOK'
    <2>1. rows' \in [Rows -> Row]
      BY <1>2, RowUpdates DEF ClaimSnapshot, Active
    <2>2. [row |-> r, content |-> c, todo |-> {}, current |-> TRUE, known |-> TRUE,
           phase |-> "claimed"] \in Upload
      BY Zenon DEF Upload
    <2>3. uploads' \subseteq Upload
      BY <1>2, <2>2 DEF ClaimSnapshot
    <2>4. claims' \in 0..MaxClaims
      BY <1>2 DEF ClaimSnapshot
    <2>5. TodoListed'
      BY <1>2 DEF ClaimSnapshot, TodoListed
    <2> QED BY <1>2, <2>1, <2>3, <2>4, <2>5 DEF ClaimSnapshot, TodoListed
  <1>3. ASSUME NEW u \in uploads, BeginHashing(u) PROVE TypeOK'
    <2>1. rows' \in [Rows -> Row]
      <3>1. u.row \in Rows /\ rows[u.row] \in Row
        BY UploadUpdates
      <3>2. [Forgotten(rows[u.row]) EXCEPT !.state = "hashing"] \in Row
        BY <3>1, RowUpdates DEF Active
      <3> QED BY <1>3, <3>2, UpdatedRow DEF BeginHashing
    <2>7. u \in Upload
      OBVIOUS
    <2>8. uploads' \subseteq Upload
      <3>1. [u EXCEPT !.phase = "hashing"] \in Upload
        BY <2>7, UploadUpdates
      <3> QED BY <1>3, <3>1 DEF BeginHashing, Advance
    <2>9. TodoListed'
      <3> DEFINE v == [u EXCEPT !.phase = "hashing"]
      <3>1. v.content = u.content /\ v.todo = u.todo
        BY <2>7, UploadFields
      <3>2. Advance(u, v)
        BY <1>3 DEF BeginHashing
      <3> HIDE DEF v
      <3> QED BY <3>1, <3>2, TodoAdvances DEF TodoListed
    <2> QED BY <1>3, <2>1, <2>8, <2>9 DEF BeginHashing, TodoListed
  <1>4. ASSUME NEW u \in uploads, PrepareUpload(u) PROVE TypeOK'
    <2> DEFINE todo == {f \in Paths : Files[u.content][f] # NoKey}
    <2> u \in Upload /\ u.row \in Rows
      BY UploadUpdates
    <2>1. rows' \in [Rows -> Row]
      <3>1. [Referring(rows[u.row], u.content) EXCEPT !.state = "uploading"] \in Row
        BY RowUpdates, UploadUpdates DEF Active
      <3> QED BY <1>4, <3>1 DEF PrepareUpload
    <2>2. marks' \in [Keys -> Mark]
      BY <1>4 DEF PrepareUpload, NoMark, Mark
    <2>3. gc' \in [Collectors -> Collector]
      BY <1>4, CollectorUpdates DEF PrepareUpload
    <2>4. \A w \in Collectors : gc'[w].key = gc[w].key /\ gc'[w].phase = gc[w].phase
      BY <1>4 DEF PrepareUpload, Collector
    <2>7. u \in Upload
      OBVIOUS
    <2>8. uploads' \subseteq Upload
      <3>1. [u EXCEPT !.phase = "sending", !.todo = todo] \in Upload
        BY <2>7, UploadUpdates
      <3> QED BY <1>4, <3>1 DEF PrepareUpload, Advance
    <2>9. \A k \in Keys : holder[k] # "free" =>
            gc'[holder[k]].key = k /\ gc'[holder[k]].phase \in {"locked", "cleared"}
      BY <2>4
    <2>10. TodoListed'
      <3> DEFINE v == [u EXCEPT !.phase = "sending", !.todo = todo]
      <3>1. v.todo = todo /\ v.content = u.content
        BY <2>7, UploadFields
      <3>2. uploads' = (uploads \ {u}) \cup {v}
        BY <1>4 DEF PrepareUpload, Advance
      <3> HIDE DEF v
      <3> QED BY <3>1, <3>2 DEF TodoListed
    <2> QED BY <1>4, <2>1, <2>2, <2>3, <2>8, <2>9, <2>10 DEF PrepareUpload, TodoListed
  <1>5. ASSUME NEW u \in uploads, NEW f \in Paths, SendFile(u, f) PROVE TypeOK'
    <2> DEFINE o == Files[u.content][f]
    <2>1. u \in Upload /\ u.row \in Rows /\ u.content \in Contents /\ rows[u.row] \in Row
      BY UploadUpdates
    <2>2. store' \in [Objects -> {"absent", "good", "bad"}]
      BY <1>5, <2>1, FilesType DEF SendFile
    <2>3. strays' \subseteq Keys
      <3>1. o \in Keys
        BY <1>5, <2>1, FilesType DEF SendFile, Keys
      <3> QED BY <1>5, <3>1 DEF SendFile, Straying
    <2>4. CASE ~(u.known /\ rows[u.row].refs[f] # NoKey)
      BY <1>5, <2>2, <2>3, <2>4 DEF SendFile
    <2>5. CASE u.known /\ rows[u.row].refs[f] # NoKey
      <3>1. [u EXCEPT !.todo = @ \ {f}] \in Upload
        BY <2>1, UploadUpdates
      <3>4. /\ f \in u.todo /\ rows' = [rows EXCEPT ![u.row].refs[f] = o]
            /\ Advance(u, [u EXCEPT !.todo = @ \ {f}])
        BY <1>5, <2>5, Zenon DEF SendFile
      <3>2. uploads' \subseteq Upload
        BY <3>1, <3>4 DEF Advance
      <3>3. rows' \in [Rows -> Row]
        <4>1. o \in Objects
          BY <2>1, <3>4, FilesType
        <4>2. [rows[u.row] EXCEPT !.refs[f] = o] \in Row
          BY <2>1, <4>1, RowUpdates
        <4>3. rows' = [rows EXCEPT ![u.row] = [rows[u.row] EXCEPT !.refs[f] = o]]
          BY <3>4
        <4> HIDE DEF o
        <4> QED BY <2>1, <4>2, <4>3
      <3>5. TodoListed'
        <4> DEFINE v == [u EXCEPT !.todo = @ \ {f}]
        <4>1. v.content = u.content /\ v.todo = u.todo \ {f}
          BY <2>1, UploadFields
        <4>2. Advance(u, v)
          BY <3>4
        <4> HIDE DEF v
        <4> QED BY <4>1, <4>2, TodoAdvances DEF TodoListed
      <3> QED BY <1>5, <2>2, <2>3, <3>2, <3>3, <3>5 DEF SendFile, TodoListed
    <2> QED BY <2>4, <2>5
  <1>6. ASSUME NEW u \in uploads, NEW f \in Paths, SendChangedFile(u, f) PROVE TypeOK'
    <2> DEFINE o == Files[u.content][f]
    <2>1. u \in Upload /\ u.row \in Rows /\ u.content \in Contents /\ store[o] = "absent"
      BY <1>6, UploadUpdates DEF SendChangedFile
    <2>2. store' \in [Objects -> {"absent", "good", "bad"}]
      BY <1>6, <2>1 DEF SendChangedFile
    <2>3. strays' \subseteq Keys
      BY <1>6, <2>1, FilesType DEF SendChangedFile, Straying, Keys
    <2> QED BY <1>6, <2>2, <2>3 DEF SendChangedFile
  <1>7. ASSUME NEW u \in uploads, BeginVerifying(u) PROVE TypeOK'
    <2>1. rows' \in [Rows -> Row]
      <3>1. u.row \in Rows /\ rows[u.row] \in Row
        BY UploadUpdates
      <3>2. rows[u.row].state \in Active \cup {"none", "ready", "superseded", "error"}
        BY <3>1 DEF Row
      <3>3. [rows[u.row] EXCEPT !.state = IF @ = "uploading" THEN "verifying" ELSE @] \in Row
        BY <3>1, <3>2, RowUpdates DEF Active
      <3> QED BY <1>7, <3>3, UpdatedRow DEF BeginVerifying
    <2>7. u \in Upload
      OBVIOUS
    <2>8. uploads' \subseteq Upload
      <3>1. [u EXCEPT !.phase = "verifying"] \in Upload
        BY <2>7, UploadUpdates
      <3> QED BY <1>7, <3>1 DEF BeginVerifying, Advance
    <2>9. TodoListed'
      <3> DEFINE v == [u EXCEPT !.phase = "verifying"]
      <3>1. v.content = u.content /\ v.todo = u.todo
        BY <2>7, UploadFields
      <3>2. Advance(u, v)
        BY <1>7 DEF BeginVerifying
      <3> HIDE DEF v
      <3> QED BY <3>1, <3>2, TodoAdvances DEF TodoListed
    <2> QED BY <1>7, <2>1, <2>8, <2>9 DEF BeginVerifying, TodoListed
  <1>8. ASSUME NEW u \in uploads, PutManifest(u) PROVE TypeOK'
    <2>7. u \in Upload
      OBVIOUS
    <2>8. uploads' \subseteq Upload
      <3>1. [u EXCEPT !.phase = "published"] \in Upload
        BY <2>7, UploadUpdates
      <3> QED BY <1>8, <3>1 DEF PutManifest, Advance
    <2>9. manifests' \in [Rows -> Contents \cup {NoContent}]
      BY <1>8, <2>7, UploadUpdates DEF PutManifest
    <2>10. strays' \subseteq Keys
      BY <1>8, UploadUpdates DEF PutManifest, Straying, Keys
    <2>11. TodoListed'
      <3> DEFINE v == [u EXCEPT !.phase = "published"]
      <3>1. v.content = u.content /\ v.todo = u.todo
        BY <2>7, UploadFields
      <3>2. Advance(u, v)
        BY <1>8 DEF PutManifest
      <3> HIDE DEF v
      <3> QED BY <3>1, <3>2, TodoAdvances DEF TodoListed
    <2> QED BY <1>8, <2>8, <2>9, <2>10, <2>11 DEF PutManifest, TodoListed
  <1>9. ASSUME NEW u \in uploads, FinalizeSnapshot(u) PROVE TypeOK'
    <2>1. rows' \in [Rows -> Row]
      <3>1. u.row \in Rows /\ u.content \in Contents /\ \A r \in Rows : rows[r] \in Row
        BY UploadUpdates
      <3>2. \A r \in Rows : /\ [Referring(rows[r], u.content) EXCEPT !.state = "ready"] \in Row
                             /\ [rows[r] EXCEPT !.state = "superseded", !.expired = FALSE] \in Row
        BY <3>1, RowUpdates
      <3> QED BY <1>9, <3>1, <3>2 DEF FinalizeSnapshot
    <2> QED BY <1>9, <2>1 DEF FinalizeSnapshot
  <1>10. ASSUME NEW u \in uploads, FailUpload(u) PROVE TypeOK'
    <2>1. rows' \in [Rows -> Row]
      <3>1. u.row \in Rows /\ rows[u.row] \in Row
        BY UploadUpdates
      <3>2. [rows[u.row] EXCEPT !.state = "error", !.expired = FALSE] \in Row
        BY <3>1, RowUpdates
      <3> QED BY <1>10, <3>2, UpdatedRow DEF FailUpload
    <2> QED BY <1>10, <2>1 DEF FailUpload
  <1>11. ASSUME NEW u \in uploads, LoseUpload(u) PROVE TypeOK'
    BY <1>11 DEF LoseUpload
  <1>12. ASSUME NEW r \in Rows, FailStalled(r) PROVE TypeOK'
    <2>1. rows' \in [Rows -> Row]
      BY <1>12, RowUpdates DEF FailStalled
    <2> QED BY <1>12, <2>1 DEF FailStalled
  <1>13. ASSUME NEW r \in Rows, WindowPasses(r) PROVE TypeOK'
    <2>1. rows' \in [Rows -> Row]
      BY <1>13, RowUpdates DEF WindowPasses
    <2> QED BY <1>13, <2>1 DEF WindowPasses
  <1>14. CASE ApplyRetention
    <2>1. rows' \in [Rows -> Row]
      BY <1>14, NoRowType DEF ApplyRetention
    <2>2. marks' \in [Keys -> Mark]
      <3> DEFINE pruned == {r \in Rows : Prunable(r)}
                 kept == [k \in Keys |-> IF marks[k].row \in pruned
                                         THEN [marks[k] EXCEPT !.row = NoKey] ELSE marks[k]]
      <3>1. \E named \in SUBSET Keys : \E name \in [named -> Rows] :
              marks' = [k \in Keys |-> IF k \in named /\ NeedsMark(kept, k, name[k])
                                       THEN [state |-> "marked", row |-> name[k]] ELSE kept[k]]
        <4> DEFINE N == {k \in Keys : {r \in Rows \ pruned : Expired(r) /\ r \in References(k)} # {}}
        <4>1. \E name \in [N -> Rows] :
              marks' = [k \in Keys |-> IF k \in N /\ NeedsMark(kept, k, name[k])
                                       THEN [state |-> "marked", row |-> name[k]] ELSE kept[k]]
          BY <1>14, ZenonT(60) DEF ApplyRetention
        <4>2. N \in SUBSET Keys
          OBVIOUS
        <4> HIDE DEF N, kept
        <4> QED BY <4>1, <4>2, Zenon
      <3>2. kept \in [Keys -> Mark]
        BY DEF Mark
      <3>3. \A r \in Rows : [state |-> "marked", row |-> r] \in Mark
        BY DEF Mark
      <3> HIDE DEF kept
      <3> QED BY <3>1, <3>2, <3>3
    <2>3. uploads' \subseteq Upload
      <3> SUFFICES ASSUME NEW v \in uploads' PROVE v \in Upload
        OBVIOUS
      <3>1. PICK u \in uploads : v = [u EXCEPT !.known = @ /\ u.row \notin {r \in Rows : Prunable(r)}]
        BY <1>14, Zenon DEF ApplyRetention
      <3> QED BY <3>1, UploadUpdates
    <2>4. TodoListed'
      <3> SUFFICES ASSUME NEW v \in uploads'
                   PROVE  \E u \in uploads : v.content = u.content /\ v.todo \subseteq u.todo
        BY TodoKept DEF TodoListed
      <3>1. PICK u \in uploads : v = [u EXCEPT !.known = @ /\ u.row \notin {r \in Rows : Prunable(r)}]
        BY <1>14, Zenon DEF ApplyRetention
      <3> QED BY <3>1, UploadFields
    <2> QED BY <1>14, <2>1, <2>2, <2>3, <2>4 DEF ApplyRetention, TodoListed
  <1>15. ASSUME NEW w \in Collectors, NEW k \in Keys, StartCollection(w, k) PROVE TypeOK'
    <2>1. gc' \in [Collectors -> Collector]
      BY <1>15, CollectorUpdates DEF StartCollection
    <2>2. \A v \in Collectors \ {w} : gc'[v].key = gc[v].key /\ gc'[v].phase = gc[v].phase
      BY <1>15 DEF StartCollection, Collector
    <2>3. \A k1 \in Keys : holder[k1] # w
      BY <1>15 DEF StartCollection
    <2>4. \A k1 \in Keys : holder'[k1] # "free" =>
            gc'[holder'[k1]].key = k1 /\ gc'[holder'[k1]].phase \in {"locked", "cleared"}
      BY <1>15, <2>2, <2>3 DEF StartCollection
    <2> QED BY <1>15, <2>1, <2>4 DEF StartCollection
  <1>16. ASSUME NEW w \in Collectors, LockKey(w) PROVE TypeOK'
    <2>1. gc' \in [Collectors -> Collector]
      BY <1>16, CollectorUpdates DEF LockKey
    <2>2. /\ \A v \in Collectors \ {w} : gc'[v] = gc[v]
          /\ gc'[w].key = gc[w].key /\ gc'[w].phase = "locked"
      BY <1>16 DEF LockKey, Collector
    <2>3. \A k \in Keys : holder'[k] # "free" =>
            gc'[holder'[k]].key = k /\ gc'[holder'[k]].phase \in {"locked", "cleared"}
      BY <1>16, <2>2 DEF LockKey
    <2>4. holder' \in [Keys -> Collectors \cup {"free"}]
      BY <1>16 DEF LockKey
    <2> QED BY <1>16, <2>1, <2>3, <2>4 DEF LockKey
  <1>17. ASSUME NEW w \in Collectors, CheckKey(w) PROVE TypeOK'
    <2>1. gc' \in [Collectors -> Collector]
      <3>1. gc[w] \in Collector
        OBVIOUS
      <3>2. \A ph \in {"cleared", "deleted"} : [gc[w] EXCEPT !.phase = ph] \in Collector
        BY <3>1, CollectorUpdates
      <3>3. PICK ph \in {"cleared", "deleted"} : gc' = [gc EXCEPT ![w].phase = ph]
        BY <1>17, Zenon DEF CheckKey
      <3> QED BY <3>2, <3>3
    <2>2. /\ \A v \in Collectors \ {w} : gc'[v] = gc[v]
          /\ gc'[w].key = gc[w].key /\ gc'[w].phase \in {"cleared", "deleted"}
          /\ gc'[w].phase = "deleted" => holder' = [holder EXCEPT ![gc[w].key] = "free"]
          /\ gc'[w].phase = "cleared" => holder' = holder
      BY <1>17 DEF CheckKey, Collector
    <2> QED BY <1>17, <2>1, <2>2 DEF CheckKey
  <1>18. ASSUME NEW w \in Collectors, DeleteObject(w) PROVE TypeOK'
    <2>1. gc' \in [Collectors -> Collector]
      BY <1>18, CollectorUpdates DEF DeleteObject
    <2>2. \A v \in Collectors \ {w} : gc'[v] = gc[v]
      BY <1>18 DEF DeleteObject
    <2>3. /\ store' \in [Objects -> {"absent", "good", "bad"}]
          /\ manifests' \in [Rows -> Contents \cup {NoContent}]
      BY <1>18 DEF DeleteObject, Without
    <2>4. \A k \in Keys : holder'[k] # "free" =>
            gc'[holder'[k]].key = k /\ gc'[holder'[k]].phase \in {"locked", "cleared"}
      BY <1>18, <2>2 DEF DeleteObject
    <2>5. holder' \in [Keys -> Collectors \cup {"free"}]
      BY <1>18 DEF DeleteObject
    <2> QED BY <1>18, <2>1, <2>3, <2>4, <2>5 DEF DeleteObject
  <1>19. ASSUME NEW w \in Collectors, RecordCollected(w) PROVE TypeOK'
    <2>1. gc' \in [Collectors -> Collector]
      BY <1>19, CollectorUpdates DEF RecordCollected
    <2>2. marks' \in [Keys -> Mark]
      <3> DEFINE k == gc[w].key
      <3>1. CASE k \in Keys
        <4>0. marks[k] \in Mark
          BY <3>1
        <4>1. \A s \in {"none", "marked", "collected"} : [marks[k] EXCEPT !.state = s] \in Mark
          BY <4>0, Zenon DEF Mark
        <4>2. marks[k].state \in {"none", "marked", "collected"}
          BY <3>1 DEF Mark
        <4> QED BY <1>19, <4>1, <4>2 DEF RecordCollected
      <3>2. CASE k \notin Keys
        BY <1>19, <3>2 DEF RecordCollected
      <3> QED BY <3>1, <3>2
    <2>3. \A v \in Collectors \ {w} : gc'[v] = gc[v]
      BY <1>19 DEF RecordCollected
    <2> QED BY <1>19, <2>1, <2>2, <2>3 DEF RecordCollected
  <1>20. ASSUME NEW w \in Collectors, LeaveKey(w) PROVE TypeOK'
    <2>1. gc' \in [Collectors -> Collector]
      BY <1>20, CollectorUpdates DEF LeaveKey
    <2>2. \A v \in Collectors \ {w} : gc'[v] = gc[v]
      BY <1>20 DEF LeaveKey
    <2> QED BY <1>20, <2>1, <2>2 DEF LeaveKey, Unlocked
  <1>21. CASE UNCHANGED vars
    BY <1>21 DEF vars
  <1> QED BY <1>1, <1>2, <1>3, <1>4, <1>5, <1>6, <1>7, <1>8, <1>9, <1>10, <1>11, <1>12, <1>13,
             <1>14, <1>15, <1>16, <1>17, <1>18, <1>19, <1>20, <1>21
         DEF Next, UploadStep, CollectorStep

\* Empty tables and an empty store are well-typed.
LEMMA InitType == Init => TypeOK
  <1> SUFFICES ASSUME Init PROVE TypeOK
    OBVIOUS
  <1>1. rows \in [Rows -> Row]
    BY NoRowType DEF Init
  <1>2. marks \in [Keys -> Mark]
    BY DEF Init, Mark, NoMark
  <1>3. gc \in [Collectors -> Collector]
    BY CollectorUpdates DEF Init, Resting, Collector
  <1> QED BY <1>1, <1>2, <1>3 DEF Init, TypeOK

\* The tables, the store and the locks stay well-typed.
THEOREM TypeCorrect == Spec => []TypeOK
  BY InitType, TypeStep, PTL DEF Spec

-----------------------------------------------------------------------------
(* What uploads, retention and collectors rely on *)

\* A row whose objects and manifest must not be deleted: its one upload is filling
\* it, or a restore of it is promised.
Solid(r) == r \notin contested /\ (rows[r].state \in {"uploading", "verifying"} \/ Window(r))

\* A key some such row refers to.
Needed(k) == \E r \in References(k) : Solid(r)

\* A key without an object, up to what late uploads write.
Gone(k) == Present(k) => k \in strays

\* prepare has locked the keys of the upload and recorded the references.
Prepared(u) == u.phase \in {"sending", "verifying", "published"}

\* Two uploads work on one row only if it was claimed again, or swept, under one.
UploadsDistinct == \A u, v \in uploads : u.row = v.row /\ u.row \notin contested => u = v

\* Otherwise the state column of a row tells the stage of the upload that works on
\* it, and after prepare its references are the keys of that upload.
UploadStage ==
  \A u \in uploads : u.row \notin contested =>
    /\ u.known
    /\ u.phase = "claimed" => rows[u.row].state = "discovered"
    /\ u.phase = "hashing" => rows[u.row].state = "hashing" /\ rows[u.row].refs = NoFile
    /\ u.phase = "sending" => rows[u.row].state = "uploading"
    /\ u.phase \in {"verifying", "published"} => rows[u.row].state = "verifying" /\ u.todo = {}
    /\ Prepared(u) => rows[u.row].named /\ rows[u.row].refs = Files[u.content]

\* What the files of such an upload are, once sent.
Sent(u) == \A f \in Paths \ u.todo : Files[u.content][f] # NoKey => store[Files[u.content][f]] = "good"

\* What it has sent and verified is in the store; after put its manifest is.
UploadStored ==
  \A u \in uploads : u.row \notin contested =>
    /\ Prepared(u) => Sent(u)
    /\ u.phase = "published" => manifests[u.row] = u.content

\* A row that a restore is promised of refers to every object its manifest lists,
\* and they are in the store.
WindowStored ==
  \A r \in Rows : Promised(r) =>
    /\ rows[r].named
    /\ manifests[r] \in Contents
    /\ Listed(Files[manifests[r]]) \subseteq Listed(rows[r].refs)
    /\ \A o \in Listed(Files[manifests[r]]) : store[o] = "good"

\* A delete_object call between its checks and its unlock holds the lock of its key.
LocksHeld ==
  \A w \in Collectors :
    /\ gc[w].phase # "idle" => gc[w].key \in Keys
    /\ gc[w].phase \in {"locked", "cleared"} => holder[gc[w].key] = w

\* A key that passed the re-check, or whose object was found absent under a mark
\* that still stands, is needed by no row: prepare takes the same lock and deletes
\* the mark.
ClearedKeys ==
  \A w \in Collectors :
    /\ gc[w].phase = "cleared" => ~Needed(gc[w].key)
    /\ gc[w].phase = "deleted" /\ gc[w].valid => ~Needed(gc[w].key) /\ Gone(gc[w].key)

\* A collected mark names a key that no row needs and no object has.
MarksTrue == \A k \in Keys : marks[k].state = "collected" => ~Needed(k) /\ Gone(k)

\* What uploads rely on.
UploadsSafe == UploadsDistinct /\ UploadStage /\ UploadStored
\* What collectors rely on.
CollectionSafe == LocksHeld /\ ClearedKeys /\ MarksTrue

\* What holds of all of them between two steps.
Safe == UploadsSafe /\ WindowStored /\ CollectionSafe

-----------------------------------------------------------------------------
\* A key names a content object or a manifest, never both (key_for_hash and
\* the manifest key of a generation have different prefixes).
LEMMA KeySplit == ASSUME NEW k \in Keys PROVE k \in Objects <=> k \notin Rows
  BY DEF Keys

\* Generations can be compared.
LEMMA RowOrder == \A r \in Rows : r[2] \in Int
  <1> SUFFICES ASSUME NEW p \in Problems, NEW g \in Generations PROVE <<p, g>>[2] \in Int
    BY DEF Rows
  <1> QED BY g \in Nat

\* snapshot_is_gc_protected covers every row whose objects must stay.
LEMMA SolidIsProtected ==
  ASSUME TypeOK, NEW r \in Rows, Solid(r) PROVE Protected(r)
  BY DEF Solid, Window, Protected, Active

\* The DELETE request removes the object of one key and creates none.
LEMMA WithoutOne ==
  ASSUME TypeOK, NEW k \in Keys, Without(k)
  PROVE  ~Present(k)' /\ \A x \in Keys : Present(x)' => Present(x)
  <1>1. CASE k \in Objects
    <2>1. /\ manifests' = manifests /\ store'[k] = "absent"
          /\ \A o \in Objects \ {k} : store'[o] = store[o]
      BY <1>1 DEF Without, TypeOK
    <2> QED BY <1>1, <2>1 DEF Present
  <1>2. CASE k \notin Objects
    <2>1. /\ store' = store /\ manifests'[k] = NoContent /\ k \in Rows
          /\ \A r \in Rows \ {k} : manifests'[r] = manifests[r]
      BY <1>2, KeySplit DEF Without, TypeOK
    <2>2. \A x \in Keys \ {k} : x \in Objects \/ x \in Rows \ {k}
      BY DEF Keys
    <2> QED BY <1>2, <2>1, <2>2 DEF Present
  <1> QED BY <1>1, <1>2

\* prepare and finalize make a row refer to the files of the upload, and to
\* nothing else where it had no references or these.
LEMMA ReferringRow ==
  ASSUME NEW x \in Row, NEW c \in Contents, NEW s
  PROVE  LET y == [Referring(x, c) EXCEPT !.state = s] IN
         /\ y.state = s /\ y.named
         /\ x.refs \in {NoFile, Files[c]} => y.refs = Files[c]
  <1> DEFINE g == [f \in Paths |-> IF Files[c][f] # NoKey THEN Files[c][f] ELSE x.refs[f]]
             y == [Referring(x, c) EXCEPT !.state = s]
  <1>1. Referring(x, c) = [x EXCEPT !.named = TRUE, !.refs = g]
    BY DEF Referring
  <1>2. x.refs \in {NoFile, Files[c]} => g = Files[c]
    BY FilesType DEF NoFile
  <1> HIDE DEF g
  <1>3. y.state = s /\ y.named /\ y.refs = g
    BY <1>1, Zenon DEF Row
  <1> QED BY <1>2, <1>3

\* The generation the READY transaction of u demotes.
Replaced(u, r) == r[1] = u.row[1] /\ r[2] < u.row[2] /\ rows[r].state = "ready"

\* The READY transaction touches its own row and the rows it demotes, and takes
\* no object away from the latter.
LEMMA FinalizeRows ==
  ASSUME TypeOK, NEW u \in uploads, FinalizeSnapshot(u)
  PROVE  /\ rows'[u.row].state = "ready" /\ rows'[u.row].named
         /\ rows[u.row].refs = Files[u.content] => rows'[u.row].refs = Files[u.content]
         /\ \A r \in Rows : Replaced(u, r) =>
              /\ rows'[r].state = "superseded" /\ ~rows'[r].expired
              /\ rows'[r].refs = rows[r].refs /\ rows'[r].named = rows[r].named
         /\ \A r \in Rows \ {u.row} : ~Replaced(u, r) => rows'[r] = rows[r]
  <1>1. rows' = [r \in Rows |->
          CASE r = u.row -> [Referring(rows[r], u.content) EXCEPT !.state = "ready"]
            [] Replaced(u, r) -> [rows[r] EXCEPT !.state = "superseded", !.expired = FALSE]
            [] OTHER -> rows[r]]
    BY DEF FinalizeSnapshot, Replaced
  <1>2. u.row \in Rows /\ u.content \in Contents /\ ~Replaced(u, u.row)
    BY UploadUpdates DEF TypeOK, FinalizeSnapshot, MayFinalize, Replaced
  <1>3. \A r \in Rows : rows[r] \in Row
    BY DEF TypeOK
  <1> HIDE DEF Replaced
  <1>4. rows'[u.row] = [Referring(rows[u.row], u.content) EXCEPT !.state = "ready"]
    BY <1>1, <1>2
  <1>5. ASSUME NEW r \in Rows, Replaced(u, r)
        PROVE  rows'[r] = [rows[r] EXCEPT !.state = "superseded", !.expired = FALSE]
    BY <1>1, <1>2, <1>5
  <1>6. /\ rows'[u.row].state = "ready" /\ rows'[u.row].named
        /\ rows[u.row].refs = Files[u.content] => rows'[u.row].refs = Files[u.content]
    <2>1. rows[u.row] \in Row
      BY <1>2, <1>3
    <2> QED BY <1>2, <1>4, <2>1, ReferringRow
  <1>7. ASSUME NEW r \in Rows, Replaced(u, r)
        PROVE  /\ rows'[r].state = "superseded" /\ ~rows'[r].expired
               /\ rows'[r].refs = rows[r].refs /\ rows'[r].named = rows[r].named
    <2>1. rows[r] \in Row
      BY <1>3
    <2>2. rows'[r] = [rows[r] EXCEPT !.state = "superseded", !.expired = FALSE]
      BY <1>5, <1>7
    <2> QED BY <2>1, <2>2 DEF Row
  <1>8. \A r \in Rows \ {u.row} : ~Replaced(u, r) => rows'[r] = rows[r]
    BY <1>1
  <1> QED BY <1>6, <1>7, <1>8

\* A step after which no row needs a key that it did not need.
Lasting ==
  \A r \in Rows : Solid(r)' =>
     Solid(r) /\ rows'[r].refs = rows[r].refs /\ rows'[r].named = rows[r].named

\* A key comes to be needed only by a row that starts to need it.
LEMMA NeededShrinks ==
  ASSUME Lasting
  PROVE  \A k \in Keys : Needed(k)' => Needed(k)
  BY DEF Lasting, Needed, References

\* A step that leaves the marks and the collectors alone, lets no row need a key it
\* did not need, and writes only needed or stray keys, keeps what collectors rely on.
LEMMA CollectionKept ==
  ASSUME CollectionSafe, Lasting, UNCHANGED <<marks, holder, gc>>,
         \A k \in Keys : Gone(k) => Gone(k)' \/ Needed(k)
  PROVE  CollectionSafe'
  <1>1. \A k \in Keys : Needed(k)' => Needed(k)
    BY NeededShrinks
  <1> QED BY <1>1 DEF CollectionSafe, LocksHeld, ClearedKeys, MarksTrue

\* In particular a step that leaves the store alone.
LEMMA StoreKept ==
  ASSUME CollectionSafe, Lasting, UNCHANGED <<store, manifests, strays, marks, holder, gc>>
  PROVE  CollectionSafe'
  <1>1. \A k \in Keys : Gone(k)' = Gone(k)
    BY DEF Gone, Present
  <1> QED BY <1>1, CollectionKept

\* Objects that are as their keys say stay so.
GoodKept == \A o \in Objects : store[o] = "good" => store'[o] = "good"

\* What an upload has sent is of the objects.
LEMMA SentKept ==
  ASSUME TypeOK, GoodKept, NEW u \in uploads, Sent(u)
  PROVE  Sent(u)'
  <1>1. u.content \in Contents
    BY UploadUpdates DEF TypeOK
  <1> QED BY <1>1, FilesType DEF Sent, GoodKept

\* Where uploads end and the rows of the others stay, the uploads stay consistent.
LEMMA UploadsKept ==
  ASSUME TypeOK, UploadsSafe, uploads' \subseteq uploads, GoodKept, contested \subseteq contested',
         \A u \in uploads' : u.row \notin contested' =>
            rows'[u.row] = rows[u.row] /\ manifests'[u.row] = manifests[u.row]
  PROVE  UploadsSafe'
  <1>1. UploadsDistinct'
    BY DEF UploadsSafe, UploadsDistinct
  <1>2. UploadStage'
    BY DEF UploadsSafe, UploadStage, Prepared
  <1>3. UploadStored'
    BY SentKept DEF UploadsSafe, UploadStored, Prepared
  <1> QED BY <1>1, <1>2, <1>3 DEF UploadsSafe

\* One upload moves on within its own row: the stages of all uploads still agree
\* with their rows.
LEMMA UploadMoves ==
  ASSUME UploadsSafe, TypeOK, NEW u \in uploads, NEW v, v.row = u.row, Advance(u, v),
         contested' = contested, GoodKept,
         \A r \in Rows \ {u.row} : rows'[r] = rows[r] /\ manifests'[r] = manifests[r],
         u.row \notin contested =>
            /\ v.known
            /\ v.phase = "claimed" => rows'[v.row].state = "discovered"
            /\ v.phase = "hashing" => rows'[v.row].state = "hashing" /\ rows'[v.row].refs = NoFile
            /\ v.phase = "sending" => rows'[v.row].state = "uploading"
            /\ v.phase \in {"verifying", "published"} => rows'[v.row].state = "verifying" /\ v.todo = {}
            /\ Prepared(v) => /\ rows'[v.row].named /\ rows'[v.row].refs = Files[v.content]
                              /\ \A f \in Paths \ v.todo : Files[v.content][f] # NoKey =>
                                   store'[Files[v.content][f]] = "good"
            /\ v.phase = "published" => manifests'[v.row] = v.content
  PROVE  UploadsSafe'
  <1>1. \A x \in uploads' : x.row \notin contested' =>
          x = v \/ (x \in uploads /\ x.row \notin contested /\ x.row \in Rows \ {u.row} /\ x # u)
    BY UploadUpdates DEF Advance, UploadsSafe, UploadsDistinct, TypeOK
  <1>2. UploadsDistinct'
    BY <1>1 DEF UploadsSafe, UploadsDistinct
  <1>3. UploadStage'
    BY <1>1 DEF UploadsSafe, UploadStage, Prepared
  <1>4. UploadStored'
    <2> SUFFICES ASSUME NEW x \in uploads', x.row \notin contested'
                 PROVE  /\ Prepared(x) => Sent(x)'
                        /\ x.phase = "published" => manifests'[x.row] = x.content
      BY DEF UploadStored, Prepared
    <2>1. CASE x = v
      BY <2>1 DEF Sent
    <2>2. CASE x # v
      BY <1>1, <2>2, SentKept DEF UploadsSafe, UploadStored
    <2> QED BY <2>1, <2>2
  <1> QED BY <1>2, <1>3, <1>4 DEF UploadsSafe

\* A lease, or the end of a row, changes uploads one by one and leaves what the
\* others rely on.
LEMMA UploadsMapped ==
  ASSUME UploadsSafe, NEW F, uploads' = {F[u] : u \in uploads},
         UNCHANGED <<store, manifests, contested>>,
         \A u \in uploads :
            /\ F[u].row = u.row /\ F[u].content = u.content /\ F[u].todo = u.todo /\ F[u].phase = u.phase
            /\ u.row \notin contested => rows'[u.row] = rows[u.row] /\ (u.known => F[u].known)
  PROVE  UploadsSafe'
  <1>1. UploadsDistinct'
    BY DEF UploadsSafe, UploadsDistinct
  <1>2. UploadStage'
    BY DEF UploadsSafe, UploadStage, Prepared
  <1>3. UploadStored'
    BY DEF UploadsSafe, UploadStored, Prepared, Sent
  <1> QED BY <1>1, <1>2, <1>3 DEF UploadsSafe

\* Rows outside the window, and contested ones, may change at will.
LEMMA WindowsKept ==
  ASSUME TypeOK, WindowStored, GoodKept,
         \A r \in Rows : Promised(r)' =>
            r \notin contested /\ rows'[r] = rows[r] /\ manifests'[r] = manifests[r]
  PROVE  WindowStored'
  <1> SUFFICES ASSUME NEW r \in Rows, Promised(r)'
               PROVE  /\ rows'[r].named
                      /\ manifests'[r] \in Contents
                      /\ Listed(Files[manifests'[r]]) \subseteq Listed(rows'[r].refs)
                      /\ \A o \in Listed(Files[manifests'[r]]) : store'[o] = "good"
    BY DEF WindowStored, Listed
  <1>1. Promised(r) /\ rows'[r] = rows[r] /\ manifests'[r] = manifests[r]
    BY DEF Promised, Window
  <1>2. Listed(Files[manifests[r]]) \subseteq Objects
    BY <1>1, FilesType DEF WindowStored
  <1> QED BY <1>1, <1>2 DEF WindowStored, GoodKept

\* Unless its row is contested, the row an upload works on is active.
LEMMA UploadActive ==
  ASSUME TypeOK, UploadsSafe, NEW u \in uploads
  PROVE  /\ u \in Upload /\ u.row \in Rows /\ u.content \in Contents
         /\ u.row \notin contested => u.known /\ rows[u.row].state \in Active
         /\ ~Promised(u.row)
  <1>1. u \in Upload
    BY DEF TypeOK
  <1>2. u.phase \in {"claimed", "hashing", "sending", "verifying", "published"}
    BY <1>1 DEF Upload
  <1>3. u.row \in Rows /\ u.content \in Contents
    BY <1>1, UploadUpdates
  <1>4. u.row \notin contested => u.known /\ rows[u.row].state \in Active
    BY <1>2 DEF UploadsSafe, UploadStage, Active
  <1>5. ~Promised(u.row)
    BY <1>4 DEF Promised, Window, Active
  <1> QED BY <1>1, <1>3, <1>4, <1>5

\* What an upload does to its own row takes no promise away.
LEMMA OwnRow ==
  ASSUME TypeOK, UploadsSafe, WindowStored, GoodKept, NEW u \in uploads, contested' = contested,
         \A s \in Rows \ {u.row} : rows'[s] = rows[s] /\ manifests'[s] = manifests[s],
         u.row \notin contested => rows'[u.row].state \in Active \cup {"error"}
  PROVE  WindowStored'
  <1>1. \A r \in Rows : Promised(r)' => r \in Rows \ {u.row} /\ r \notin contested
    BY DEF Promised, Window, Active
  <1> QED BY <1>1, WindowsKept

\* Nor does it need keys that it did not need, where its references stay.
LEMMA OwnKeys ==
  ASSUME NEW u \in uploads, contested' = contested,
         \A s \in Rows \ {u.row} : rows'[s] = rows[s],
         u.row \notin contested /\ Solid(u.row)' =>
           Solid(u.row) /\ rows'[u.row].refs = rows[u.row].refs /\ rows'[u.row].named = rows[u.row].named
  PROVE  Lasting
  BY DEF Lasting, Solid, Window

-----------------------------------------------------------------------------
(* Every step keeps the invariant *)

\* Every step keeps what uploads, retention and collectors rely on.
LEMMA SafeStep ==
  ASSUME TypeOK, Safe, [Next]_vars
  PROVE  Safe'
  <1> USE DEF Safe
  <1>1. ASSUME NEW p \in Problems, LeaseSnapshot(p) PROVE Safe'
    <2> DEFINE F == [u \in uploads |-> IF u.row[1] = p THEN [u EXCEPT !.current = FALSE] ELSE u]
    <2>0. /\ UNCHANGED <<rows, store, manifests, marks, holder, gc, contested, strays>>
          /\ uploads' = {IF u.row[1] = p THEN [u EXCEPT !.current = FALSE] ELSE u : u \in uploads}
      BY <1>1 DEF LeaseSnapshot
    <2>1. uploads' = {F[u] : u \in uploads}
      BY <2>0, Zenon
    <2>2. ASSUME NEW u \in uploads
          PROVE  /\ F[u].row = u.row /\ F[u].content = u.content /\ F[u].todo = u.todo
                 /\ F[u].phase = u.phase /\ F[u].known = u.known
      <3>1. u \in Upload
        BY DEF TypeOK
      <3>2. CASE u.row[1] = p
        <4>1. F[u] = [u EXCEPT !.current = FALSE]
          BY <3>2
        <4> QED BY <3>1, <4>1, UploadFields
      <3>3. CASE u.row[1] # p
        BY <3>3
      <3> QED BY <3>2, <3>3
    <2> HIDE DEF F
    <2>3. UploadsSafe'
      BY <2>0, <2>1, <2>2, UploadActive, UploadsMapped
    <2>4. WindowStored'
      BY <2>0, WindowsKept DEF Promised, Window, GoodKept
    <2>5. Lasting
      BY <2>0 DEF Lasting, Solid, Window
    <2> QED BY <2>0, <2>3, <2>4, <2>5, StoreKept
  <1>2. ASSUME NEW r \in Rows, NEW c \in Contents, ClaimSnapshot(r, c) PROVE Safe'
    <2> DEFINE new == [row |-> r, content |-> c, todo |-> {},
                        current |-> TRUE, known |-> TRUE, phase |-> "claimed"]
    <2>1. /\ new.row = r /\ new.known /\ new.phase = "claimed"
          /\ uploads' = uploads \cup {new}
          /\ UNCHANGED <<store, manifests, marks, holder, gc, strays>>
      BY <1>2 DEF ClaimSnapshot
    <2> HIDE DEF new
    <2>2. /\ rows'[r].state = "discovered" /\ \A s \in Rows \ {r} : rows'[s] = rows[s]
      BY <1>2 DEF ClaimSnapshot, TypeOK, Row
    <2>3. /\ \A s \in Rows \ {r} : s \in contested' <=> s \in contested
          /\ Live(r) => r \in contested'
      BY <1>2 DEF ClaimSnapshot
    <2>4. \A x \in uploads' : x.row \notin contested' =>
            x = new \/ (x \in uploads /\ x.row \in Rows \ {r} /\ x.row \notin contested)
      BY <2>1, <2>3, UploadActive DEF Live
    <2>5. UploadsDistinct'
      BY <2>1, <2>4 DEF UploadsSafe, UploadsDistinct
    <2>6. UploadStage'
      BY <2>1, <2>2, <2>4 DEF UploadsSafe, UploadStage, Prepared
    <2>7. UploadStored'
      BY <2>1, <2>4 DEF UploadsSafe, UploadStored, Prepared, Sent
    <2>8. WindowStored'
      <3>1. \A s \in Rows : Promised(s)' => s \in Rows \ {r} /\ s \notin contested
        BY <2>2, <2>3 DEF Promised, Window
      <3> QED BY <2>1, <2>2, <3>1, WindowsKept DEF GoodKept
    <2>9. Lasting
      BY <2>2, <2>3 DEF Lasting, Solid, Window
    <2> QED BY <2>1, <2>5, <2>6, <2>7, <2>8, <2>9, StoreKept DEF UploadsSafe
  <1>3. ASSUME NEW u \in uploads, BeginHashing(u) PROVE Safe'
    <2> DEFINE v == [u EXCEPT !.phase = "hashing"]
               x == [Forgotten(rows[u.row]) EXCEPT !.state = "hashing"]
    <2>0. v.row = u.row /\ v.phase = "hashing" /\ v.known = u.known
      BY UploadActive, UploadFields
    <2>1. /\ rows' = Updated(u, x)
          /\ Advance(u, v)
          /\ UNCHANGED <<store, manifests, marks, holder, gc, contested, strays>>
      BY <1>3 DEF BeginHashing
    <2>2. x.state = "hashing" /\ x.refs = NoFile
      <3>1. rows[u.row] \in Row
        BY UploadActive DEF TypeOK
      <3> QED BY <3>1, Zenon DEF Row, Forgotten
    <2> HIDE DEF v, x
    <2>3. /\ u.row \notin contested => u.known /\ rows'[u.row] = x
          /\ \A s \in Rows \ {u.row} : rows'[s] = rows[s]
      BY <2>1, UpdatedRow, UploadActive
    <2>4. UploadsSafe'
      BY <2>0, <2>1, <2>2, <2>3, UploadMoves DEF Prepared, GoodKept
    <2>5. WindowStored'
      BY <2>1, <2>2, <2>3, OwnRow DEF Active, GoodKept
    <2>6. Lasting
      BY <2>1, <2>2, <2>3, OwnKeys DEF Solid, Window
    <2> QED BY <2>1, <2>4, <2>5, <2>6, StoreKept
  <1>4. ASSUME NEW u \in uploads, PrepareUpload(u) PROVE Safe'
    <2> DEFINE files == {f \in Paths : Files[u.content][f] # NoKey}
               v == [u EXCEPT !.phase = "sending", !.todo = files]
               x == [Referring(rows[u.row], u.content) EXCEPT !.state = "uploading"]
               keys == PreparedKeys(u)
    <2>0. /\ v.row = u.row /\ v.phase = "sending" /\ v.known = u.known
          /\ v.content = u.content /\ v.todo = files
      <3> HIDE DEF files
      <3> QED BY UploadActive, UploadFields
    <2>1. /\ rows' = [rows EXCEPT ![u.row] = x]
          /\ Advance(u, v)
          /\ u.phase = "hashing" /\ \A k \in keys : holder[k] = "free"
          /\ marks' = [k \in Keys |-> IF k \in keys THEN NoMark ELSE marks[k]]
          /\ gc' = [w \in Collectors |-> [gc[w] EXCEPT !.valid = @ /\ gc[w].key \notin keys]]
          /\ UNCHANGED <<store, manifests, holder, contested, strays>>
      BY <1>4 DEF PrepareUpload
    <2>2. u \in Upload /\ u.row \in Rows /\ u.content \in Contents /\ rows[u.row] \in Row
      BY UploadActive DEF TypeOK
    <2>3. /\ x.state = "uploading" /\ x.named
          /\ u.row \notin contested => x.refs = Files[u.content]
      <3>1. u.row \notin contested => rows[u.row].refs = NoFile
        BY <2>1 DEF UploadsSafe, UploadStage
      <3> QED BY <2>2, <3>1, ReferringRow
    <2> HIDE DEF v, x, files
    <2>4. rows'[u.row] = x /\ \A s \in Rows \ {u.row} : rows'[s] = rows[s]
      BY <2>1, <2>2 DEF TypeOK
    <2>5. UploadsSafe'
      <3>1. \A f \in Paths \ v.todo : Files[v.content][f] = NoKey
        BY <2>0 DEF files
      <3>2. u.row \notin contested => u.known
        BY UploadActive
      <3> QED BY <2>0, <2>1, <2>3, <2>4, <3>1, <3>2, UploadMoves DEF Prepared, GoodKept
    <2>6. WindowStored'
      BY <2>1, <2>3, <2>4, OwnRow DEF Active, GoodKept
    <2>7. \A k \in Keys \ keys : Needed(k)' => Needed(k)
      BY <2>1, <2>2, <2>3, <2>4 DEF Needed, References, Solid, Window, PreparedKeys
    <2>8. \A w \in Collectors : gc'[w].phase = gc[w].phase /\ gc'[w].key = gc[w].key
                                /\ (gc'[w].valid => gc[w].valid /\ gc[w].key \notin keys)
      <3> HIDE DEF keys
      <3> TAKE w \in Collectors
      <3>1. gc[w] \in Collector /\ gc'[w] = [gc[w] EXCEPT !.valid = @ /\ gc[w].key \notin keys]
        BY <2>1 DEF TypeOK
      <3> QED BY <3>1, Zenon DEF Collector
    <2> HIDE DEF keys
    <2>9. \A w \in Collectors : gc[w].phase = "cleared" => gc[w].key \in Keys \ keys
      BY <2>1 DEF CollectionSafe, LocksHeld, TypeOK
    <2>10. \A k \in Keys : Gone(k)' = Gone(k)
      BY <2>1 DEF Gone, Present
    <2>11. CollectionSafe'
      <3>1. LocksHeld'
        BY <2>1, <2>8 DEF CollectionSafe, LocksHeld
      <3>2. ClearedKeys'
        BY <2>7, <2>8, <2>9, <2>10 DEF CollectionSafe, ClearedKeys, LocksHeld
      <3>3. MarksTrue'
        BY <2>1, <2>7, <2>10 DEF CollectionSafe, MarksTrue, NoMark
      <3> QED BY <3>1, <3>2, <3>3 DEF CollectionSafe
    <2> QED BY <2>5, <2>6, <2>11
  <1>5. ASSUME NEW u \in uploads, NEW f \in Paths, SendFile(u, f) PROVE Safe'
    <2> DEFINE o == Files[u.content][f]
               v == [u EXCEPT !.todo = @ \ {f}]
    <2>0. /\ v.row = u.row /\ v.phase = u.phase /\ v.known = u.known
          /\ v.content = u.content /\ v.todo = u.todo \ {f}
      BY UploadActive, UploadFields
    <2>1. /\ u.phase = "sending" /\ f \in u.todo
          /\ store' = [store EXCEPT ![o] = "good"]
          /\ strays' = IF store[o] = "absent" THEN Straying(u, o) ELSE strays
          /\ \/ /\ rows' = [rows EXCEPT ![u.row].refs[f] = o]
                /\ Advance(u, v)
             \/ /\ UNCHANGED <<rows, uploads>>
                /\ ~(u.known /\ rows[u.row].refs[f] # NoKey)
          /\ UNCHANGED <<manifests, marks, holder, gc, contested>>
      BY <1>5, Zenon DEF SendFile
    <2>2. /\ u \in Upload /\ u.row \in Rows /\ u.content \in Contents
          /\ o \in Listed(Files[u.content]) /\ o \in Objects /\ o # NoKey
      <3>1. Files[u.content][f] # NoKey
        BY <2>1 DEF TypeOK
      <3> QED BY <3>1, UploadActive, FilesType
    <2>3. u.row \notin contested =>
            /\ u.known /\ rows[u.row].state = "uploading" /\ rows[u.row].named
            /\ rows[u.row].refs = Files[u.content] /\ Sent(u)
      BY <2>1 DEF UploadsSafe, UploadStage, UploadStored, Prepared
    <2> HIDE DEF v
    <2>4. GoodKept /\ store'[o] = "good" /\ \A y \in Objects \ {o} : store'[y] = store[y]
      BY <2>1, <2>2 DEF GoodKept, TypeOK
    <2>5. /\ \A s \in Rows \ {u.row} : rows'[s] = rows[s]
          /\ u.row \notin contested =>
               rows'[u.row].state = "uploading" /\ rows'[u.row].named /\ rows'[u.row].refs = Files[u.content]
      <3>1. CASE UNCHANGED rows
        BY <2>3, <3>1
      <3>2. CASE rows' = [rows EXCEPT ![u.row].refs[f] = o]
        <4>1. rows[u.row] \in Row
          BY <2>2 DEF TypeOK
        <4>2. /\ rows'[u.row].state = rows[u.row].state /\ rows'[u.row].named = rows[u.row].named
              /\ rows'[u.row].refs = [rows[u.row].refs EXCEPT ![f] = o]
              /\ \A s \in Rows \ {u.row} : rows'[s] = rows[s]
          BY <2>2, <3>2, <4>1 DEF TypeOK, Row
        <4>3. Files[u.content] \in [Paths -> Objects \cup {NoKey}]
          BY <2>2, FilesType
        <4>4. [Files[u.content] EXCEPT ![f] = o] = Files[u.content]
          BY <4>3
        <4> QED BY <2>3, <4>2, <4>4
      <3> QED BY <2>1, <3>1, <3>2
    <2>6. u.row \notin contested => Advance(u, v)
      BY <2>1, <2>2, <2>3
    <2>7. UploadsSafe'
      <3>1. CASE Advance(u, v)
        <4>1. u.row \notin contested =>
                 \A y \in Paths \ v.todo : Files[v.content][y] # NoKey => store'[Files[v.content][y]] = "good"
          <5> SUFFICES ASSUME u.row \notin contested, NEW y \in Paths \ v.todo, Files[v.content][y] # NoKey
                       PROVE  store'[Files[v.content][y]] = "good"
            OBVIOUS
          <5>1. CASE y = f
            BY <2>0, <2>4, <5>1
          <5>2. CASE y # f
            BY <2>0, <2>2, <2>3, <2>4, <5>2, FilesType DEF Sent, GoodKept
          <5> QED BY <5>1, <5>2
        <4> QED BY <2>0, <2>1, <2>3, <2>4, <2>5, <3>1, <4>1, UploadMoves DEF Prepared
      <3>2. CASE UNCHANGED <<rows, uploads>>
        BY <2>1, <2>4, <3>2, UploadsKept
      <3> QED BY <2>1, <3>1, <3>2
    <2>8. WindowStored'
      BY <2>1, <2>4, <2>5, OwnRow DEF Active
    <2>9. Lasting
      BY <2>1, <2>3, <2>5, OwnKeys DEF Solid
    <2>10. u.row \notin contested => Needed(o)
      BY <2>2, <2>3 DEF Needed, References, Solid
    <2>11. \A k \in Keys : Gone(k) => Gone(k)' \/ Needed(k)
      <3>1. \A k \in Keys \ {o} : Present(k)' = Present(k)
        BY <2>1, <2>4, KeySplit DEF Present
      <3>2. strays \subseteq strays' /\ (u.row \in contested /\ store[o] = "absent" => o \in strays')
        BY <2>1 DEF Straying
      <3>3. store[o] # "absent" => Present(o)
        BY <2>2 DEF Present
      <3> HIDE DEF o
      <3> QED BY <2>10, <3>1, <3>2, <3>3 DEF Gone
    <2> QED BY <2>1, <2>7, <2>8, <2>9, <2>11, CollectionKept
  <1>6. ASSUME NEW u \in uploads, NEW f \in Paths, SendChangedFile(u, f) PROVE Safe'
    <2> DEFINE o == Files[u.content][f]
    <2>1. /\ u.phase = "sending" /\ f \in u.todo /\ store[o] = "absent"
          /\ store' = [store EXCEPT ![o] = "bad"]
          /\ strays' = Straying(u, o)
          /\ UNCHANGED <<rows, manifests, uploads, marks, holder, gc, contested>>
      BY <1>6 DEF SendChangedFile
    <2>2. u.row \in Rows /\ o \in Listed(Files[u.content]) /\ o \in Objects /\ o # NoKey
      <3>1. Files[u.content][f] # NoKey
        BY <2>1 DEF TypeOK
      <3> QED BY <3>1, UploadActive, FilesType
    <2>3. GoodKept /\ \A y \in Objects \ {o} : store'[y] = store[y]
      BY <2>1, <2>2 DEF GoodKept, TypeOK
    <2>4. UploadsSafe'
      BY <2>1, <2>3, UploadsKept
    <2>5. WindowStored'
      BY <2>1, <2>3, WindowsKept DEF Promised, Window
    <2>6. Lasting
      BY <2>1 DEF Lasting, Solid, Window
    <2>7. u.row \notin contested => Needed(o)
      BY <2>1, <2>2 DEF Needed, References, Solid, UploadsSafe, UploadStage, Prepared
    <2>8. \A k \in Keys : Gone(k) => Gone(k)' \/ Needed(k)
      <3>1. \A k \in Keys \ {o} : Present(k)' = Present(k)
        BY <2>1, <2>3, KeySplit DEF Present
      <3>2. strays \subseteq strays' /\ (u.row \in contested => o \in strays')
        BY <2>1 DEF Straying
      <3> HIDE DEF o
      <3> QED BY <2>7, <3>1, <3>2 DEF Gone
    <2> QED BY <2>1, <2>4, <2>5, <2>6, <2>8, CollectionKept
  <1>7. ASSUME NEW u \in uploads, BeginVerifying(u) PROVE Safe'
    <2> DEFINE v == [u EXCEPT !.phase = "verifying"]
               x == [rows[u.row] EXCEPT !.state = IF @ = "uploading" THEN "verifying" ELSE @]
    <2>0. /\ v.row = u.row /\ v.phase = "verifying" /\ v.known = u.known
          /\ v.content = u.content /\ v.todo = u.todo
      BY UploadActive, UploadFields
    <2>1. /\ rows' = Updated(u, x)
          /\ Advance(u, v)
          /\ u.phase = "sending" /\ u.todo = {}
          /\ UNCHANGED <<store, manifests, marks, holder, gc, contested, strays>>
      BY <1>7 DEF BeginVerifying
    <2>2. u.row \notin contested =>
            /\ u.known /\ rows[u.row].state = "uploading" /\ rows[u.row].named
            /\ rows[u.row].refs = Files[u.content] /\ Sent(u)
      BY <2>1 DEF UploadsSafe, UploadStage, UploadStored, Prepared
    <2>3. /\ x.refs = rows[u.row].refs /\ x.named = rows[u.row].named
          /\ u.row \notin contested => x.state = "verifying"
      <3>1. rows[u.row] \in Row
        BY UploadActive DEF TypeOK
      <3> QED BY <2>2, <3>1 DEF Row
    <2> HIDE DEF v, x
    <2>4. /\ u.row \notin contested => rows'[u.row] = x
          /\ \A s \in Rows \ {u.row} : rows'[s] = rows[s]
      BY <2>1, <2>2, UpdatedRow
    <2>5. UploadsSafe'
      <3>1. u.row \notin contested =>
              \A y \in Paths \ v.todo : Files[v.content][y] # NoKey => store'[Files[v.content][y]] = "good"
        BY <2>0, <2>1, <2>2 DEF Sent
      <3> QED BY <2>0, <2>1, <2>2, <2>3, <2>4, <3>1, UploadMoves DEF Prepared, GoodKept
    <2>6. WindowStored'
      BY <2>1, <2>3, <2>4, OwnRow DEF Active, GoodKept
    <2>7. Lasting
      BY <2>1, <2>2, <2>3, <2>4, OwnKeys DEF Solid
    <2> QED BY <2>1, <2>5, <2>6, <2>7, StoreKept
  <1>8. ASSUME NEW u \in uploads, PutManifest(u) PROVE Safe'
    <2> DEFINE v == [u EXCEPT !.phase = "published"]
    <2>0. /\ v.row = u.row /\ v.phase = "published" /\ v.known = u.known
          /\ v.content = u.content /\ v.todo = u.todo
      BY UploadActive, UploadFields
    <2>1. /\ manifests' = [manifests EXCEPT ![u.row] = u.content]
          /\ strays' = Straying(u, u.row)
          /\ Advance(u, v)
          /\ u.phase = "verifying"
          /\ UNCHANGED <<rows, store, marks, holder, gc, contested>>
      BY <1>8 DEF PutManifest
    <2>2. u.row \notin contested =>
            /\ u.known /\ rows[u.row].state = "verifying" /\ u.todo = {} /\ rows[u.row].named
            /\ rows[u.row].refs = Files[u.content] /\ Sent(u)
      BY <2>1 DEF UploadsSafe, UploadStage, UploadStored, Prepared
    <2>3. /\ u.row \in Rows /\ manifests'[u.row] = u.content
          /\ \A s \in Rows \ {u.row} : manifests'[s] = manifests[s]
      BY <2>1, UploadActive DEF TypeOK
    <2> HIDE DEF v
    <2>4. UploadsSafe'
      <3>1. u.row \notin contested =>
              \A y \in Paths \ v.todo : Files[v.content][y] # NoKey => store'[Files[v.content][y]] = "good"
        BY <2>0, <2>1, <2>2 DEF Sent
      <3> QED BY <2>0, <2>1, <2>2, <2>3, <3>1, UploadMoves DEF Prepared, GoodKept
    <2>5. WindowStored'
      BY <2>1, <2>2, <2>3, OwnRow DEF Active, GoodKept
    <2>6. Lasting
      BY <2>1 DEF Lasting, Solid, Window
    <2>7. u.row \notin contested => Needed(u.row)
      BY <2>2, <2>3 DEF Needed, References, Solid
    <2>8. \A k \in Keys : Gone(k) => Gone(k)' \/ Needed(k)
      <3>1. \A k \in Keys \ {u.row} : Present(k)' = Present(k)
        BY <2>1, <2>3, KeySplit DEF Present
      <3>2. strays \subseteq strays' /\ (u.row \in contested => u.row \in strays')
        BY <2>1 DEF Straying
      <3> QED BY <2>7, <3>1, <3>2 DEF Gone
    <2> QED BY <2>1, <2>4, <2>5, <2>6, <2>8, CollectionKept
  <1>9. ASSUME NEW u \in uploads, FinalizeSnapshot(u) PROVE Safe'
    <2>0. u \in Upload /\ u.row \in Rows /\ u.content \in Contents
      BY UploadActive
    <2>1. /\ u.phase = "published" /\ rows[u.row].state = "verifying"
          /\ uploads' = uploads \ {u}
          /\ UNCHANGED <<store, manifests, marks, holder, gc, contested, strays>>
      BY <1>9 DEF FinalizeSnapshot, MayFinalize
    <2>2. u.row \notin contested =>
            /\ rows[u.row].refs = Files[u.content] /\ rows[u.row].named
            /\ manifests[u.row] = u.content
            /\ \A o \in Listed(Files[u.content]) : store[o] = "good"
      <3> HAVE u.row \notin contested
      <3>1. /\ rows[u.row].refs = Files[u.content] /\ rows[u.row].named
            /\ manifests[u.row] = u.content /\ u.todo = {} /\ Sent(u)
        BY <2>1 DEF UploadsSafe, UploadStage, UploadStored, Prepared
      <3>2. \A o \in Listed(Files[u.content]) : \E f \in Paths : Files[u.content][f] = o /\ o # NoKey
        BY <2>0, FilesType
      <3> QED BY <3>1, <3>2 DEF Sent
    <2>3. /\ rows'[u.row].state = "ready" /\ rows'[u.row].named
          /\ u.row \notin contested => rows'[u.row].refs = Files[u.content]
      BY <1>9, <2>2, FinalizeRows
    <2>4. \A r \in Rows : Replaced(u, r) =>
            /\ rows'[r].state = "superseded" /\ ~rows'[r].expired
            /\ rows'[r].refs = rows[r].refs /\ rows'[r].named = rows[r].named
      BY <1>9, FinalizeRows
    <2>5. \A r \in Rows \ {u.row} : ~Replaced(u, r) => rows'[r] = rows[r]
      BY <1>9, FinalizeRows
    <2>6. UploadsSafe'
      <3>1. \A x \in uploads' : x.row \notin contested' => rows'[x.row] = rows[x.row]
        <4> SUFFICES ASSUME NEW x \in uploads \ {u}, x.row \notin contested
                     PROVE  rows'[x.row] = rows[x.row]
          BY <2>1
        <4>1. x.row \in Rows \ {u.row} /\ rows[x.row].state # "ready"
          BY UploadActive DEF UploadsSafe, UploadsDistinct, Active
        <4> QED BY <2>5, <4>1 DEF Replaced
      <3> QED BY <2>1, <3>1, UploadsKept DEF GoodKept
    <2>7. WindowStored'
      <3> SUFFICES ASSUME NEW r \in Rows, Promised(r)'
                   PROVE  /\ rows'[r].named
                          /\ manifests'[r] \in Contents
                          /\ Listed(Files[manifests'[r]]) \subseteq Listed(rows'[r].refs)
                          /\ \A o \in Listed(Files[manifests'[r]]) : store'[o] = "good"
        BY DEF WindowStored, Listed
      <3>1. r \notin contested
        BY <2>1 DEF Promised
      <3>2. CASE r = u.row
        BY <2>0, <2>1, <2>2, <2>3, <3>1, <3>2
      <3>3. CASE r # u.row
        <4>1. Promised(r) /\ rows'[r].refs = rows[r].refs /\ rows'[r].named = rows[r].named
          <5>1. CASE Replaced(u, r)
            BY <2>4, <3>1, <5>1 DEF Promised, Window, Replaced
          <5>2. CASE ~Replaced(u, r)
            BY <2>1, <2>5, <3>3, <5>2 DEF Promised, Window
          <5> QED BY <5>1, <5>2
        <4>2. manifests' = manifests /\ store' = store
          BY <2>1
        <4> QED BY <4>1, <4>2 DEF WindowStored
      <3> QED BY <3>2, <3>3
    <2>8. Lasting
      <3> SUFFICES ASSUME NEW r \in Rows, Solid(r)'
                   PROVE  Solid(r) /\ rows'[r].refs = rows[r].refs /\ rows'[r].named = rows[r].named
        BY DEF Lasting
      <3>1. r \notin contested
        BY <2>1 DEF Solid
      <3>2. CASE r = u.row
        BY <2>1, <2>2, <2>3, <3>1, <3>2 DEF Solid
      <3>3. CASE Replaced(u, r)
        BY <2>4, <3>1, <3>3 DEF Solid, Window, Replaced
      <3>4. CASE r # u.row /\ ~Replaced(u, r)
        BY <2>1, <2>5, <3>4 DEF Solid, Window
      <3> QED BY <3>2, <3>3, <3>4
    <2> QED BY <2>1, <2>6, <2>7, <2>8, StoreKept
  <1>10. ASSUME NEW u \in uploads, FailUpload(u) PROVE Safe'
    <2> DEFINE x == [rows[u.row] EXCEPT !.state = "error", !.expired = FALSE]
    <2>1. /\ rows' = IF rows[u.row].state = "ready" THEN rows ELSE Updated(u, x)
          /\ uploads' = uploads \ {u}
          /\ UNCHANGED <<store, manifests, marks, holder, gc, contested, strays>>
      BY <1>10 DEF FailUpload
    <2>2. x.state = "error"
      BY UploadActive DEF TypeOK, Row
    <2> HIDE DEF x
    <2>3. /\ u.row \notin contested => rows'[u.row] = x
          /\ \A s \in Rows \ {u.row} : rows'[s] = rows[s]
      BY <2>1, UpdatedRow, UploadActive DEF Active
    <2>4. UploadsSafe'
      <3>1. \A y \in uploads' : y.row \notin contested' => y.row \in Rows \ {u.row}
        BY <2>1, UploadActive DEF UploadsSafe, UploadsDistinct
      <3> QED BY <2>1, <2>3, <3>1, UploadsKept DEF GoodKept
    <2>5. WindowStored'
      BY <2>1, <2>2, <2>3, OwnRow DEF GoodKept
    <2>6. Lasting
      BY <2>1, <2>2, <2>3, OwnKeys DEF Solid, Window
    <2> QED BY <2>1, <2>4, <2>5, <2>6, StoreKept
  <1>11. ASSUME NEW u \in uploads, LoseUpload(u) PROVE Safe'
    <2>1. /\ uploads' \subseteq uploads
          /\ UNCHANGED <<rows, store, manifests, marks, holder, gc, contested, strays>>
      BY <1>11 DEF LoseUpload
    <2>2. UploadsSafe' /\ WindowStored'
      <3>1. GoodKept
        BY <2>1 DEF GoodKept
      <3>2. UploadsSafe'
        BY <2>1, <3>1, UploadsKept
      <3>3. WindowStored'
        BY <2>1, <3>1, WindowsKept DEF Promised, Window
      <3> QED BY <3>2, <3>3
    <2>3. Lasting
      BY <2>1 DEF Lasting, Solid, Window
    <2> QED BY <2>1, <2>2, <2>3, StoreKept
  <1>12. ASSUME NEW r \in Rows, FailStalled(r) PROVE Safe'
    <2>1. /\ \A s \in Rows \ {r} : rows'[s] = rows[s]
          /\ rows'[r].state = "error" /\ rows[r].state \in Active
          /\ UNCHANGED <<uploads, store, manifests, marks, holder, gc, strays>>
          /\ contested \subseteq contested' /\ (Live(r) => r \in contested')
      BY <1>12 DEF FailStalled, TypeOK, Row
    <2>2. GoodKept
      BY <2>1 DEF GoodKept
    <2>3. UploadsSafe'
      <3>1. \A y \in uploads' : y.row \notin contested' => y.row \in Rows \ {r}
        BY <2>1, UploadActive DEF Live
      <3> QED BY <2>1, <2>2, <3>1, UploadsKept
    <2>4. WindowStored'
      BY <2>1, <2>2, WindowsKept DEF Promised, Window
    <2>5. Lasting
      BY <2>1 DEF Lasting, Solid, Window
    <2> QED BY <2>1, <2>3, <2>4, <2>5, StoreKept
  <1>13. ASSUME NEW r \in Rows, WindowPasses(r) PROVE Safe'
    <2>1. /\ \A s \in Rows \ {r} : rows'[s] = rows[s]
          /\ rows'[r].state = rows[r].state /\ rows'[r].expired
          /\ rows[r].state \in {"superseded", "error"}
          /\ UNCHANGED <<uploads, store, manifests, marks, holder, gc, contested, strays>>
      BY <1>13 DEF WindowPasses, TypeOK, Row
    <2>2. GoodKept
      BY <2>1 DEF GoodKept
    <2>3. UploadsSafe'
      <3>1. \A y \in uploads' : y.row \notin contested' => y.row \in Rows \ {r}
        BY <2>1, UploadActive DEF Active
      <3> QED BY <2>1, <2>2, <3>1, UploadsKept
    <2>4. WindowStored'
      BY <2>1, <2>2, WindowsKept DEF Promised, Window
    <2>5. Lasting
      BY <2>1 DEF Lasting, Solid, Window
    <2> QED BY <2>1, <2>3, <2>4, <2>5, StoreKept
  <1>14. CASE ApplyRetention
    <2> DEFINE pruned == {r \in Rows : Prunable(r)}
               F == [u \in uploads |-> [u EXCEPT !.known = @ /\ u.row \notin pruned]]
    <2>1. /\ rows' = [r \in Rows |-> IF r \in pruned THEN NoRow ELSE rows[r]]
          /\ uploads' = {[u EXCEPT !.known = @ /\ u.row \notin pruned] : u \in uploads}
          /\ UNCHANGED <<store, manifests, holder, gc, contested, strays>>
      BY <1>14, Zenon DEF ApplyRetention
    <2>2. \A k \in Keys : marks'[k].state = "collected" => marks[k].state = "collected"
      BY <1>14 DEF ApplyRetention, TypeOK, Mark
    <2>3. \A r \in pruned : rows[r].state \in {"superseded", "error"} /\ rows[r].expired
                            /\ rows'[r].state = "none"
      BY <2>1 DEF Prunable, Expired, NoRow
    <2>4. \A r \in Rows \ pruned : rows'[r] = rows[r]
      BY <2>1
    <2>5. \A u \in uploads : u.row \notin contested => u.row \in Rows \ pruned
      BY <2>3, UploadActive DEF Active
    <2>6. uploads' = {F[u] : u \in uploads}
      BY <2>1, Zenon
    <2> HIDE DEF pruned
    <2>7. ASSUME NEW u \in uploads
          PROVE  /\ F[u].row = u.row /\ F[u].content = u.content /\ F[u].todo = u.todo
                 /\ F[u].phase = u.phase /\ F[u].known = (u.known /\ u.row \notin pruned)
      <3> DEFINE lasts == u.row \notin pruned
                 v == [u EXCEPT !.known = @ /\ lasts]
      <3>1. u \in Upload /\ F[u] = v
        BY DEF TypeOK
      <3> HIDE DEF lasts
      <3>2. /\ v.row = u.row /\ v.content = u.content /\ v.todo = u.todo
            /\ v.phase = u.phase /\ v.known = (u.known /\ lasts)
        BY <3>1, Zenon DEF Upload
      <3> HIDE DEF v, F
      <3> QED BY <3>1, <3>2, Zenon DEF lasts
    <2> HIDE DEF F
    <2>8. UploadsSafe'
      <3>1. \A u \in uploads :
              /\ F[u].row = u.row /\ F[u].content = u.content /\ F[u].todo = u.todo
              /\ F[u].phase = u.phase
              /\ u.row \notin contested => rows'[u.row] = rows[u.row] /\ (u.known => F[u].known)
        BY <2>4, <2>5, <2>7
      <3> QED BY <2>1, <2>6, <3>1, UploadsMapped
    <2>9. \A r \in Rows : Promised(r)' \/ Solid(r)' => r \in Rows \ pruned /\ r \notin contested
      BY <2>1, <2>3 DEF Promised, Solid, Window
    <2>10. WindowStored'
      BY <2>1, <2>4, <2>9, WindowsKept DEF GoodKept
    <2>11. Lasting
      BY <2>4, <2>9 DEF Lasting, Solid, Window
    <2>12. CollectionSafe'
      <3>1. \A k \in Keys : Needed(k)' => Needed(k)
        BY <2>11, NeededShrinks
      <3>2. \A k \in Keys : Gone(k)' = Gone(k)
        BY <2>1 DEF Gone, Present
      <3> QED BY <2>1, <2>2, <3>1, <3>2 DEF CollectionSafe, LocksHeld, ClearedKeys, MarksTrue
    <2> QED BY <2>8, <2>10, <2>12
  <1>a. ASSUME UNCHANGED <<rows, store, manifests, uploads, contested>>
        PROVE  UploadsSafe' /\ WindowStored' /\ \A k \in Keys : Needed(k)' = Needed(k)
    <2>1. GoodKept
      BY <1>a DEF GoodKept
    <2>2. UploadsSafe'
      BY <1>a, <2>1, UploadsKept
    <2>3. WindowStored'
      BY <1>a, <2>1, WindowsKept DEF Promised, Window
    <2> QED BY <1>a, <2>2, <2>3 DEF Needed, References, Solid, Window
  <1>b. ASSUME UNCHANGED <<store, manifests, strays>>
        PROVE  \A k \in Keys : Gone(k)' = Gone(k)
    BY <1>b DEF Gone, Present
  <1>15. ASSUME NEW w \in Collectors, NEW k \in Keys, StartCollection(w, k) PROVE Safe'
    <2>1. /\ UNCHANGED <<rows, store, manifests, uploads, marks, holder, contested, strays>>
          /\ gc'[w].phase = "listed" /\ gc'[w].key = k
      BY <1>15 DEF StartCollection
    <2>2. \A v \in Collectors \ {w} : gc'[v].phase = gc[v].phase /\ gc'[v].key = gc[v].key
                                      /\ gc'[v].valid = gc[v].valid
      BY <1>15 DEF StartCollection, TypeOK, Collector
    <2>3. CollectionSafe'
      BY <1>a, <1>b, <2>1, <2>2 DEF CollectionSafe, LocksHeld, ClearedKeys, MarksTrue
    <2> QED BY <1>a, <2>1, <2>3
  <1>16. ASSUME NEW w \in Collectors, LockKey(w) PROVE Safe'
    <2>1. /\ UNCHANGED <<rows, store, manifests, uploads, marks, contested, strays>>
          /\ gc[w].phase = "listed" /\ holder[gc[w].key] = "free"
          /\ holder' = [holder EXCEPT ![gc[w].key] = w]
          /\ gc' = [gc EXCEPT ![w].phase = "locked"]
      BY <1>16 DEF LockKey
    <2>2. /\ gc'[w].phase = "locked" /\ gc'[w].key = gc[w].key
          /\ \A v \in Collectors \ {w} : gc'[v] = gc[v]
      BY <2>1 DEF TypeOK, Collector
    <2>3. LocksHeld'
      BY <2>1, <2>2 DEF CollectionSafe, LocksHeld, TypeOK
    <2>4. ClearedKeys' /\ MarksTrue'
      BY <1>a, <1>b, <2>1, <2>2 DEF CollectionSafe, LocksHeld, ClearedKeys, MarksTrue
    <2> QED BY <1>a, <2>1, <2>3, <2>4 DEF CollectionSafe
  <1>17. ASSUME NEW w \in Collectors, CheckKey(w) PROVE Safe'
    <2> DEFINE k == gc[w].key
    <2>1. /\ UNCHANGED <<rows, store, manifests, uploads, marks, contested, strays>>
          /\ gc[w].phase = "locked" /\ ~LiveReference(k) /\ k \in Keys
          /\ \/ gc' = [gc EXCEPT ![w].phase = "cleared"] /\ UNCHANGED holder
             \/ /\ gc' = [gc EXCEPT ![w].phase = "deleted"] /\ holder' = [holder EXCEPT ![k] = "free"]
                /\ ~Present(k)
      BY <1>17 DEF CheckKey, MayDelete, CollectionSafe, LocksHeld
    <2>2. /\ gc'[w].phase \in {"cleared", "deleted"} /\ gc'[w].key = k
          /\ gc'[w].phase = "cleared" => UNCHANGED holder
          /\ gc'[w].phase = "deleted" => Gone(k)
          /\ \A v \in Collectors \ {w} : gc'[v] = gc[v]
          /\ \A x \in Keys \ {k} : holder'[x] = holder[x]
      BY <2>1 DEF TypeOK, Collector, Gone
    <2>3. ~Needed(k)
      BY <2>1, SolidIsProtected DEF Needed, LiveReference, References
    <2>4. LocksHeld'
      <3>1. \A v \in Collectors \ {w} : gc[v].phase \in {"locked", "cleared"} => gc[v].key \in Keys \ {k}
        BY <2>1 DEF CollectionSafe, LocksHeld
      <3> QED BY <2>1, <2>2, <3>1 DEF CollectionSafe, LocksHeld
    <2>5. ClearedKeys' /\ MarksTrue'
      BY <1>a, <1>b, <2>1, <2>2, <2>3 DEF CollectionSafe, LocksHeld, ClearedKeys, MarksTrue
    <2> QED BY <1>a, <2>1, <2>4, <2>5 DEF CollectionSafe
  <1>18. ASSUME NEW w \in Collectors, DeleteObject(w) PROVE Safe'
    <2>0. PICK k \in Keys : gc[w].key = k
      BY <1>18 DEF DeleteObject, CollectionSafe, LocksHeld
    <2>1. /\ UNCHANGED <<rows, uploads, marks, contested>>
          /\ gc[w].phase = "cleared" /\ Without(k) /\ strays' = strays \ {k}
          /\ holder' = [holder EXCEPT ![k] = "free"]
          /\ \/ gc' = [gc EXCEPT ![w] = [@ EXCEPT !.phase = "deleted"]]
             \/ gc' = [gc EXCEPT ![w] = Resting]
      BY <1>18, <2>0 DEF DeleteObject
    <2>2. k \in Keys /\ ~Needed(k)
      BY <2>0, <2>1 DEF CollectionSafe, LocksHeld, ClearedKeys
    <2>3. /\ gc'[w].phase \in {"idle", "deleted"} /\ (gc'[w].phase = "deleted" => gc'[w].key = k)
          /\ \A v \in Collectors \ {w} : gc'[v] = gc[v]
          /\ \A x \in Keys \ {k} : holder'[x] = holder[x]
      BY <2>0, <2>1 DEF TypeOK, Collector, Resting
    <2>4. /\ \A o \in Objects \ {k} : store'[o] = store[o]
          /\ \A r \in Rows \ {k} : manifests'[r] = manifests[r]
      BY <2>1, <2>2, KeySplit DEF Without, TypeOK
    <2>5. \A x \in Keys : Gone(x) \/ x = k => Gone(x)'
      BY <2>1, <2>2, WithoutOne DEF Gone
    <2>6. \A x \in Keys : Needed(x)' <=> Needed(x)
      BY <2>1 DEF Needed, References, Solid, Window
    <2>7. \A r \in Rows : Solid(r) => k \notin Listed(rows[r].refs) /\ (rows[r].named => k # r)
      BY <2>2 DEF Needed, References
    <2>8. UploadsSafe'
      <3>1. ASSUME NEW u \in uploads, u.row \notin contested, Prepared(u)
            PROVE  k \notin Listed(Files[u.content]) /\ u.row \in Rows \ {k} /\ u.content \in Contents
        <4>1. u.row \in Rows /\ u.content \in Contents
          BY UploadActive
        <4>2. Solid(u.row) /\ rows[u.row].named /\ rows[u.row].refs = Files[u.content]
          BY <3>1 DEF UploadsSafe, UploadStage, Prepared, Solid
        <4> QED BY <2>7, <4>1, <4>2
      <3>2. UploadStored'
        <4> SUFFICES ASSUME NEW u \in uploads, u.row \notin contested, Prepared(u)
                     PROVE  /\ \A f \in Paths \ u.todo : Files[u.content][f] # NoKey =>
                                 store'[Files[u.content][f]] = "good"
                            /\ u.phase = "published" => manifests'[u.row] = u.content
          BY <2>1 DEF UploadStored, Prepared, Sent
        <4>1. Sent(u) /\ (u.phase = "published" => manifests[u.row] = u.content)
          BY DEF UploadsSafe, UploadStored
        <4>2. \A f \in Paths : Files[u.content][f] # NoKey => Files[u.content][f] \in Objects \ {k}
          BY <3>1, FilesType
        <4> QED BY <2>4, <3>1, <4>1, <4>2 DEF Sent
      <3>3. UploadsDistinct' /\ UploadStage'
        BY <2>1 DEF UploadsSafe, UploadsDistinct, UploadStage, Prepared
      <3> QED BY <3>2, <3>3 DEF UploadsSafe
    <2>9. WindowStored'
      <3> SUFFICES ASSUME NEW r \in Rows, Promised(r)'
                   PROVE  /\ rows'[r].named
                          /\ manifests'[r] \in Contents
                          /\ Listed(Files[manifests'[r]]) \subseteq Listed(rows'[r].refs)
                          /\ \A o \in Listed(Files[manifests'[r]]) : store'[o] = "good"
        BY DEF WindowStored, Listed
      <3>0. Promised(r) /\ rows' = rows
        BY <2>1 DEF Promised, Window
      <3>1. /\ rows[r].named /\ manifests[r] \in Contents
            /\ Listed(Files[manifests[r]]) \subseteq Listed(rows[r].refs)
            /\ \A o \in Listed(Files[manifests[r]]) : store[o] = "good"
        BY <3>0 DEF WindowStored
      <3>2. k # r /\ k \notin Listed(rows[r].refs)
        BY <2>7, <3>0, <3>1 DEF Promised, Solid
      <3>3. Listed(Files[manifests[r]]) \subseteq Objects
        BY <3>1, FilesType
      <3>4. manifests'[r] = manifests[r]
        BY <2>4, <3>2
      <3> QED BY <2>4, <3>0, <3>1, <3>2, <3>3, <3>4
    <2>10. LocksHeld'
      <3>1. \A v \in Collectors \ {w} : gc[v].phase \in {"locked", "cleared"} => gc[v].key \in Keys \ {k}
        BY <2>0, <2>1 DEF CollectionSafe, LocksHeld
      <3> QED BY <2>2, <2>3, <3>1 DEF CollectionSafe, LocksHeld
    <2>11. ClearedKeys' /\ MarksTrue'
      BY <2>1, <2>2, <2>3, <2>5, <2>6 DEF CollectionSafe, LocksHeld, ClearedKeys, MarksTrue
    <2> QED BY <2>8, <2>9, <2>10, <2>11 DEF CollectionSafe
  <1>19. ASSUME NEW w \in Collectors, RecordCollected(w) PROVE Safe'
    <2> DEFINE k == gc[w].key
    <2>1. /\ UNCHANGED <<rows, store, manifests, uploads, holder, contested, strays>>
          /\ gc[w].phase = "deleted"
          /\ marks' = [marks EXCEPT ![k].state = IF gc[w].valid /\ @ = "marked" THEN "collected" ELSE @]
          /\ gc' = [gc EXCEPT ![w] = Resting]
      BY <1>19 DEF RecordCollected
    <2>2. /\ gc'[w].phase = "idle" /\ \A v \in Collectors \ {w} : gc'[v] = gc[v]
          /\ \A x \in Keys : marks'[x].state = "collected" =>
               marks[x].state = "collected" \/ (x = k /\ gc[w].valid)
      BY <2>1 DEF TypeOK, Mark, Resting
    <2> QED BY <1>a, <1>b, <2>1, <2>2 DEF CollectionSafe, LocksHeld, ClearedKeys, MarksTrue
  <1>20. ASSUME NEW w \in Collectors, LeaveKey(w) PROVE Safe'
    <2>1. /\ UNCHANGED <<rows, store, manifests, uploads, marks, contested, strays>>
          /\ gc'[w].phase = "idle" /\ \A v \in Collectors \ {w} : gc'[v] = gc[v]
          /\ \A x \in Keys : holder[x] = w \/ holder'[x] = holder[x]
      BY <1>20 DEF LeaveKey, Resting, Unlocked, TypeOK
    <2> QED BY <1>a, <1>b, <2>1 DEF CollectionSafe, LocksHeld, ClearedKeys, MarksTrue
  <1>21. CASE UNCHANGED vars
    <2>1. UNCHANGED <<rows, store, manifests, uploads, marks, holder, gc, contested, strays>>
      BY <1>21 DEF vars
    <2> QED BY <1>a, <1>b, <2>1 DEF CollectionSafe, LocksHeld, ClearedKeys, MarksTrue
  <1> QED BY <1>1, <1>2, <1>3, <1>4, <1>5, <1>6, <1>7, <1>8, <1>9, <1>10, <1>11, <1>12, <1>13,
             <1>14, <1>15, <1>16, <1>17, <1>18, <1>19, <1>20, <1>21
         DEF Next, UploadStep, CollectorStep

-----------------------------------------------------------------------------
\* The inductive invariant.
IInv == TypeOK /\ Safe

\* Empty tables and an empty store satisfy the invariant.
LEMMA InitInv == Init => IInv
  <1> SUFFICES ASSUME Init PROVE TypeOK /\ Safe
    BY DEF IInv
  <1>1. TypeOK
    BY InitType
  <1>2. \A r \in Rows : ~Solid(r) /\ ~Promised(r)
    BY DEF Init, Solid, Promised, Window, NoRow
  <1> QED BY <1>1, <1>2 DEF Init, Safe, UploadsSafe, UploadsDistinct, UploadStage, UploadStored,
        WindowStored, CollectionSafe, LocksHeld, ClearedKeys, MarksTrue, Resting, NoMark

\* The inductive invariant holds, however long uploads last.
THEOREM StoreInvariant == Spec => []IInv
  <1>1. IInv /\ [Next]_vars => IInv'
    BY TypeStep, SafeStep DEF IInv
  <1> QED BY <1>1, InitInv, PTL DEF Spec

\* The READY generation and the superseded ones in their rollback window can be
\* restored, whatever uploads, retention and collectors do: finalize publishes only
\* what prepare locked and verified, and delete_object re-checks the references
\* under the lock that prepare takes.  Uploads may last for ever; only a row that
\* was claimed again, or swept, under a live attempt is excepted.
THEOREM WindowsStayRestorable == Spec => []WindowRestorable
  <1>1. IInv => WindowRestorable
    <2> SUFFICES ASSUME IInv, NEW r \in Rows, Promised(r) PROVE Restorable(r)
      BY DEF WindowRestorable
    <2>1. manifests[r] \in Contents /\ \A o \in Listed(Files[manifests[r]]) : store[o] = "good"
      BY DEF IInv, Safe, WindowStored
    <2> QED BY <2>1 DEF Restorable
  <1> QED BY <1>1, StoreInvariant, PTL

\* markGcCollected records "collected" only for an object that is gone, and prepare
\* deletes the mark before it may come back; only a late attempt of a row claimed
\* again, or swept, may write it under a collected mark.
THEOREM CollectedObjectsAreGone == Spec => []CollectedIsGone
  <1>1. IInv => CollectedIsGone
    BY DEF IInv, Safe, CollectionSafe, MarksTrue, Gone, CollectedIsGone
  <1> QED BY <1>1, StoreInvariant, PTL

-----------------------------------------------------------------------------
(* What disappears, and what a restore shows *)

\* applyRetention alone deletes rows of the snapshots table.
LEMMA OnlyRetentionForgets ==
  ASSUME TypeOK, [Next]_vars, ~ApplyRetention,
         NEW r \in Rows, rows[r].state # "none"
  PROVE  rows'[r].state # "none"
  <1>0. \A u \in uploads : u.row \in Rows /\ rows[u.row] \in Row
    BY UploadUpdates DEF TypeOK
  <1>u. ASSUME NEW u \in uploads, NEW x, rows' = Updated(u, x), u.row = r => x.state # "none"
        PROVE  rows'[r].state # "none"
    <2>1. CASE u.known /\ u.row = r
      BY <1>u, <2>1, UpdatedRow
    <2>2. CASE ~u.known \/ u.row # r
      BY <1>u, <2>2, UpdatedRow
    <2> QED BY <2>1, <2>2
  <1>1. CASE UNCHANGED rows
    BY <1>1
  <1>2. ASSUME NEW x \in Rows, NEW c \in Contents, ClaimSnapshot(x, c) PROVE rows'[r].state # "none"
    BY <1>2 DEF ClaimSnapshot, TypeOK, Row
  <1>3. ASSUME NEW u \in uploads, BeginHashing(u) PROVE rows'[r].state # "none"
    <2>1. [Forgotten(rows[u.row]) EXCEPT !.state = "hashing"].state = "hashing"
      BY <1>0, Zenon DEF Row, Forgotten
    <2> QED BY <1>3, <1>u, <2>1 DEF BeginHashing
  <1>4. ASSUME NEW u \in uploads, PrepareUpload(u) PROVE rows'[r].state # "none"
    <2>1. [Referring(rows[u.row], u.content) EXCEPT !.state = "uploading"].state = "uploading"
      BY <1>0, Zenon DEF Row, Referring
    <2>2. rows' = [rows EXCEPT ![u.row] = [Referring(rows[u.row], u.content) EXCEPT !.state = "uploading"]]
      BY <1>4 DEF PrepareUpload
    <2> HIDE DEF Referring
    <2> QED BY <1>0, <2>1, <2>2 DEF TypeOK
  <1>5. ASSUME NEW u \in uploads, BeginVerifying(u) PROVE rows'[r].state # "none"
    <2> DEFINE x == [rows[u.row] EXCEPT !.state = IF @ = "uploading" THEN "verifying" ELSE @]
    <2>1. u.row = r => x.state # "none"
      BY <1>0 DEF Row
    <2>2. rows' = Updated(u, x)
      BY <1>5 DEF BeginVerifying
    <2> HIDE DEF x
    <2> QED BY <1>u, <2>1, <2>2
  <1>6. ASSUME NEW u \in uploads, FinalizeSnapshot(u) PROVE rows'[r].state # "none"
    BY <1>6, FinalizeRows
  <1>7. ASSUME NEW u \in uploads, FailUpload(u) PROVE rows'[r].state # "none"
    <2> DEFINE x == [rows[u.row] EXCEPT !.state = "error", !.expired = FALSE]
    <2>1. x.state = "error"
      BY <1>0 DEF Row
    <2>2. rows' = rows \/ rows' = Updated(u, x)
      BY <1>7 DEF FailUpload
    <2> HIDE DEF x
    <2> QED BY <1>1, <1>u, <2>1, <2>2
  <1>8. ASSUME NEW u \in uploads, NEW f \in Paths, SendFile(u, f) PROVE rows'[r].state # "none"
    <2>1. rows' = rows \/ rows' = [rows EXCEPT ![u.row].refs[f] = Files[u.content][f]]
      BY <1>8 DEF SendFile
    <2> QED BY <1>0, <2>1 DEF TypeOK, Row
  <1>9. ASSUME NEW x \in Rows, FailStalled(x) PROVE rows'[r].state # "none"
    BY <1>9 DEF FailStalled, TypeOK, Row
  <1>10. ASSUME NEW x \in Rows, WindowPasses(x) PROVE rows'[r].state # "none"
    BY <1>10 DEF WindowPasses, TypeOK, Row
  <1>11. ASSUME UNCHANGED vars \/ (\E p \in Problems : LeaseSnapshot(p))
                \/ (\E w \in Collectors : CollectorStep(w))
                \/ (\E u \in uploads : PutManifest(u) \/ LoseUpload(u)
                      \/ \E f \in Paths : SendChangedFile(u, f))
        PROVE  UNCHANGED rows
    BY <1>11 DEF vars, LeaseSnapshot, CollectorStep, StartCollection, LockKey, CheckKey,
         DeleteObject, RecordCollected, LeaveKey, PutManifest, LoseUpload, SendChangedFile
  <1> QED BY <1>1, <1>2, <1>3, <1>4, <1>5, <1>6, <1>7, <1>8, <1>9, <1>10, <1>11
         DEF Next, UploadStep

\* applyRetention forgets a row only after every object that it alone refers to
\* was collected (the comment at db.ts:1528), or was written by a late attempt.
THEOREM PruningLeavesNothing == Spec => PrunedLeavesNothing
  <1> DEFINE Left == \A r \in Rows : rows[r].state # "none" /\ rows'[r].state = "none" =>
                       \A k \in Keys \ strays : r \in References(k) /\ Present(k) =>
                         \E s \in Rows \ {r} : s \in References(k) /\ Protected(s)
  <1>1. ASSUME IInv, [Next]_vars PROVE Left
    <2> SUFFICES ASSUME NEW r \in Rows, rows[r].state # "none", rows'[r].state = "none",
                        NEW k \in Keys \ strays, r \in References(k), Present(k)
                 PROVE  \E s \in Rows \ {r} : s \in References(k) /\ Protected(s)
      OBVIOUS
    <2>1. ApplyRetention
      BY <1>1, OnlyRetentionForgets DEF IInv
    <2>2. Prunable(r)
      BY <2>1, Zenon DEF ApplyRetention
    <2>3. k \in Listed(rows[r].refs) \cup (IF rows[r].named THEN {r} ELSE {})
      BY DEF References
    <2>4. marks[k].state # "collected"
      BY <1>1 DEF IInv, Safe, CollectionSafe, MarksTrue, Gone
    <2>5. \E s \in References(k) \ {r} : Protected(s)
      BY <2>2, <2>3, <2>4 DEF Prunable
    <2> QED BY <2>5 DEF References
  <1>2. IInv /\ [Next]_vars => [Left]_vars
    BY <1>1
  <1> QED BY <1>2, StoreInvariant, PTL DEF Spec, PrunedLeavesNothing

-----------------------------------------------------------------------------
\* A restore of every generation yields what it did if no promise begins or ends,
\* and no promised row changes its rank or has its manifest rewritten.
LEMMA ArchiveKept ==
  ASSUME \A r \in Rows : (Promised(r)' <=> Promised(r)) /\
           (Promised(r) => rows'[r].state = rows[r].state /\ manifests'[r] = manifests[r])
  PROVE  Archived' = Archived
  BY DEF Archived

\* In particular if the rows and the manifests stay.
LEMMA WindowKept ==
  ASSUME UNCHANGED <<rows, manifests, contested>>
  PROVE  Archived' = Archived
  BY DEF Archived, Promised, Window

\* What the abstract archive keeps is exactly the rows that a restore is promised of.
LEMMA KeptIsPromised ==
  ASSUME IInv, NEW r \in Rows
  PROVE  /\ Archived[r] # Abstract!Nothing <=> Promised(r)
         /\ Promised(r) => Archived[r] = [rank |-> IF rows[r].state = "ready" THEN "latest" ELSE "rollback",
                                          content |-> manifests[r]]
         /\ ~Promised(r) => Archived[r] = Abstract!Nothing
  BY DEF IInv, Safe, WindowStored, Archived, Abstract!Nothing

\* The READY transaction demotes the generations of its problem, all of them below.
LEMMA FinalizeDemotes ==
  ASSUME IInv, NEW u \in uploads, FinalizeSnapshot(u), NEW s \in Rows, s # u.row
  PROVE  Archived'[s] = IF s[1] = u.row[1] /\ Archived[s] # Abstract!Nothing
                        THEN [Archived[s] EXCEPT !.rank = "rollback"] ELSE Archived[s]
  <1>1. manifests' = manifests /\ contested' = contested
    BY DEF FinalizeSnapshot
  <1>2. CASE s \in contested
    BY <1>1, <1>2, KeptIsPromised DEF Archived, Promised
  <1>3. CASE s \notin contested /\ s[1] = u.row[1] /\ rows[s].state = "ready"
    <2>1. s[2] < u.row[2]
      BY <1>3 DEF FinalizeSnapshot, MayFinalize, RowsOf
    <2>2. rows'[s].state = "superseded" /\ ~rows'[s].expired
      BY <1>3, <2>1, FinalizeRows DEF IInv, Replaced
    <2>3. Promised(s) /\ manifests[s] # NoContent
      BY <1>3 DEF Promised, Window, IInv, Safe, WindowStored
    <2>4. Archived'[s] = [rank |-> "rollback", content |-> manifests[s]]
      BY <1>1, <1>3, <2>2, <2>3 DEF Archived, Promised, Window
    <2>5. Archived[s] = [rank |-> "latest", content |-> manifests[s]]
      BY <1>3, <2>3 DEF Archived
    <2>6. [Archived[s] EXCEPT !.rank = "rollback"] = [rank |-> "rollback", content |-> manifests[s]]
      BY <2>5
    <2>7. Archived[s] # Abstract!Nothing
      BY <2>3, KeptIsPromised
    <2> QED BY <1>3, <2>4, <2>6, <2>7
  <1>4. CASE ~(s[1] = u.row[1] /\ rows[s].state = "ready")
    <2>1. rows'[s] = rows[s]
      BY <1>4, FinalizeRows DEF IInv, Replaced
    <2>2. Archived'[s] = Archived[s]
      BY <1>1, <2>1 DEF Archived, Promised, Window
    <2>3. Archived[s] # Abstract!Nothing /\ s[1] = u.row[1] =>
            [Archived[s] EXCEPT !.rank = "rollback"] = Archived[s]
      <3> HAVE Archived[s] # Abstract!Nothing /\ s[1] = u.row[1]
      <3>1. Archived[s] = [rank |-> "rollback", content |-> manifests[s]]
        BY <1>4, KeptIsPromised
      <3> QED BY <3>1
    <2> QED BY <2>2, <2>3
  <1> QED BY <1>2, <1>3, <1>4

\* The READY transaction publishes a generation above the newest one, which it
\* demotes; of a contested row nothing is promised, and it only demotes.
LEMMA FinalizePublishes ==
  ASSUME IInv, IInv', NEW u \in uploads, FinalizeSnapshot(u)
  PROVE  Abstract!Next \/ Archived' = Archived
  <1> DEFINE p == u.row[1]
             g == u.row[2]
  <1>1. u \in Upload /\ u.row \in Rows /\ u.content \in Contents /\ ~Promised(u.row)
    BY UploadActive DEF IInv, Safe
  <1>2. p \in Problems /\ g \in Generations /\ u.row = <<p, g>>
    BY <1>1 DEF Rows
  <1>3. manifests' = manifests /\ contested' = contested
    BY DEF FinalizeSnapshot
  <1>4. Archived[u.row] = Abstract!Nothing
    BY <1>1, KeptIsPromised DEF IInv
  <1>5. DOMAIN Archived = Rows /\ DOMAIN Archived' = Rows /\ Abstract!Slots = Rows
    BY DEF Archived, Abstract!Slots, Rows
  <1>6. \A s \in Rows \ {u.row} : Archived'[s] = Abstract!Demoted(p)[s]
    BY <1>5, FinalizeDemotes DEF Abstract!Demoted
  <1>7. CASE u.row \notin contested
    <2>1. manifests[u.row] = u.content
      BY <1>7 DEF FinalizeSnapshot, IInv, Safe, UploadsSafe, UploadStored
    <2>2. rows'[u.row].state = "ready"
      BY FinalizeRows DEF IInv
    <2>3. Archived'[u.row] = [rank |-> "latest", content |-> u.content]
      BY <1>1, <1>3, <1>7, <2>1, <2>2 DEF Archived, Promised, Window
    <2>4. \A h \in Abstract!Kept(p) : Archived[<<p, h>>].rank = "latest" => h < g
      <3> SUFFICES ASSUME NEW h \in Generations, Promised(<<p, h>>), Archived[<<p, h>>].rank = "latest"
                   PROVE  h < g
        BY <1>2, KeptIsPromised DEF Abstract!Kept, Rows
      <3>1. <<p, h>> \in Rows /\ <<p, h>> \in RowsOf(p) /\ <<p, h>>[2] = h
        BY <1>2 DEF RowsOf, Rows
      <3>2. Archived[<<p, h>>] = [rank |-> IF rows[<<p, h>>].state = "ready" THEN "latest" ELSE "rollback",
                                  content |-> manifests[<<p, h>>]]
        BY <3>1, KeptIsPromised
      <3>3. rows[<<p, h>>].state = "ready"
        BY <3>2
      <3> QED BY <3>1, <3>3 DEF FinalizeSnapshot, MayFinalize
    <2>5. Archived' = [Abstract!Demoted(p) EXCEPT ![<<p, g>>] = [rank |-> "latest", content |-> u.content]]
      <3> DEFINE x == [rank |-> "latest", content |-> u.content]
                 A == [Abstract!Demoted(p) EXCEPT ![<<p, g>>] = x]
      <3>1. DOMAIN A = Rows
        BY <1>5 DEF Abstract!Demoted
      <3>2. Abstract!Demoted(p) = [s \in Rows |-> Abstract!Demoted(p)[s]]
        BY <1>5 DEF Abstract!Demoted
      <3>3. A[u.row] = x /\ \A s \in Rows \ {u.row} : A[s] = Abstract!Demoted(p)[s]
        BY <1>1, <1>2, <3>2
      <3>4. \A s \in Rows : Archived'[s] = A[s]
        BY <1>6, <2>3, <3>3
      <3>5. A = [s \in Rows |-> A[s]]
        BY <3>2
      <3>6. Archived' = [s \in Rows |-> Archived'[s]]
        BY DEF Archived
      <3> HIDE DEF A
      <3> QED BY <3>4, <3>5, <3>6 DEF A
    <2>6. Abstract!Publish(p, g, u.content)
      BY <1>2, <1>4, <2>4, <2>5 DEF Abstract!Publish
    <2> QED BY <1>1, <1>2, <2>6 DEF Abstract!Next
  <1>8. CASE u.row \in contested
    <2>1. Archived'[u.row] = Abstract!Nothing
      BY <1>1, <1>3, <1>8 DEF Archived, Promised, Abstract!Nothing
    <2>2. \A s \in Rows : Archived'[s] = Abstract!Demoted(p)[s]
      BY <1>1, <1>4, <1>5, <1>6, <2>1 DEF Abstract!Demoted
    <2>3. Abstract!Demoted(p) = [s \in Rows |-> Abstract!Demoted(p)[s]]
      BY <1>5 DEF Abstract!Demoted
    <2>4. Archived' = [s \in Rows |-> Archived'[s]]
      BY DEF Archived
    <2>5. Abstract!Replace(p)
      BY <2>2, <2>3, <2>4 DEF Abstract!Replace
    <2> QED BY <1>2, <2>5 DEF Abstract!Next
  <1> QED BY <1>7, <1>8

\* A step within a row that no restore is promised of shows in no restore.
LEMMA OwnRowOnly ==
  ASSUME NEW r \in Rows, ~Promised(r), ~Promised(r)',
         \A s \in Rows \ {r} :
            rows'[s] = rows[s] /\ manifests'[s] = manifests[s] /\ (s \in contested' <=> s \in contested)
  PROVE  Archived' = Archived
  <1>1. \A s \in Rows : Promised(s)' <=> Promised(s)
    BY DEF Promised, Window
  <1>2. \A s \in Rows : Promised(s) => rows'[s].state = rows[s].state /\ manifests'[s] = manifests[s]
    OBVIOUS
  <1> QED BY <1>1, <1>2, ArchiveKept

\* An upload before or instead of its READY transaction leaves its row in an active
\* state or failed, unless the row is contested.
LEMMA OwnRowStep ==
  ASSUME IInv, NEW u \in uploads, contested' = contested,
         \A s \in Rows \ {u.row} : rows'[s] = rows[s] /\ manifests'[s] = manifests[s],
         u.row \notin contested => rows'[u.row].state \in Active \cup {"error"}
  PROVE  Archived' = Archived
  <1>1. u.row \in Rows /\ ~Promised(u.row)
    BY UploadActive DEF IInv, Safe
  <1>2. ~Promised(u.row)'
    BY DEF Promised, Window, Active
  <1> QED BY <1>1, <1>2, OwnRowOnly

\* Nothing an upload does before or instead of its READY transaction shows in a
\* restore, the manifest it puts under the key of its generation included.
LEMMA UploadStepArchive ==
  ASSUME IInv, IInv', NEW u \in uploads, UploadStep(u), ~FinalizeSnapshot(u)
  PROVE  Archived' = Archived
  <1>0. /\ TypeOK /\ u.row \in Rows /\ rows[u.row] \in Row
        /\ u.row \notin contested => u.known /\ rows[u.row].state \in Active
    BY UploadActive DEF IInv, Safe, TypeOK
  <1>u. ASSUME NEW x, rows' = Updated(u, x), x.state \in Active \cup {"error"},
               manifests' = manifests, contested' = contested
        PROVE  Archived' = Archived
    <2>1. /\ u.row \notin contested => rows'[u.row] = x
          /\ \A s \in Rows \ {u.row} : rows'[s] = rows[s]
      BY <1>0, <1>u, UpdatedRow
    <2> QED BY <1>u, <2>1, OwnRowStep
  <1>1. CASE BeginHashing(u)
    <2> DEFINE x == [Forgotten(rows[u.row]) EXCEPT !.state = "hashing"]
    <2>1. x.state = "hashing"
      BY <1>0, Zenon DEF Row, Forgotten
    <2>2. rows' = Updated(u, x) /\ manifests' = manifests /\ contested' = contested
      BY <1>1 DEF BeginHashing
    <2> HIDE DEF x
    <2> QED BY <1>u, <2>1, <2>2 DEF Active
  <1>2. CASE PrepareUpload(u)
    <2> DEFINE x == [Referring(rows[u.row], u.content) EXCEPT !.state = "uploading"]
    <2>1. x.state = "uploading"
      BY <1>0, Zenon DEF Row, Referring
    <2>2. rows' = [rows EXCEPT ![u.row] = x] /\ manifests' = manifests /\ contested' = contested /\ u.known
      BY <1>2 DEF PrepareUpload
    <2> HIDE DEF x
    <2> QED BY <1>u, <2>1, <2>2 DEF Active, Updated
  <1>3. CASE \E f \in Paths : SendFile(u, f)
    <2>1. PICK f \in Paths : SendFile(u, f)
      BY <1>3
    <2>2. /\ rows' = rows \/ rows' = [rows EXCEPT ![u.row].refs[f] = Files[u.content][f]]
          /\ manifests' = manifests /\ contested' = contested
      BY <2>1 DEF SendFile
    <2>3. rows'[u.row].state = rows[u.row].state /\ \A s \in Rows \ {u.row} : rows'[s] = rows[s]
      BY <1>0, <2>2 DEF TypeOK, Row
    <2> QED BY <1>0, <2>2, <2>3, OwnRowStep
  <1>4. CASE \E f \in Paths : SendChangedFile(u, f)
    BY <1>4, WindowKept DEF SendChangedFile
  <1>5. CASE BeginVerifying(u)
    <2> DEFINE x == [rows[u.row] EXCEPT !.state = IF @ = "uploading" THEN "verifying" ELSE @]
    <2>1. u.row \notin contested => x.state \in Active
      BY <1>0 DEF Row, Active
    <2>2. rows' = Updated(u, x) /\ manifests' = manifests /\ contested' = contested
      BY <1>5 DEF BeginVerifying
    <2> HIDE DEF x
    <2>3. /\ u.row \notin contested => rows'[u.row] = x
          /\ \A s \in Rows \ {u.row} : rows'[s] = rows[s]
      BY <1>0, <2>2, UpdatedRow
    <2> QED BY <2>1, <2>2, <2>3, OwnRowStep
  <1>6. CASE PutManifest(u)
    <2>1. /\ rows' = rows /\ contested' = contested
          /\ \A s \in Rows \ {u.row} : manifests'[s] = manifests[s]
      BY <1>0, <1>6 DEF PutManifest, TypeOK
    <2> QED BY <1>0, <2>1, OwnRowStep
  <1>7. CASE FailUpload(u)
    <2> DEFINE x == [rows[u.row] EXCEPT !.state = "error", !.expired = FALSE]
    <2>1. x.state = "error"
      BY <1>0 DEF Row
    <2>2. (rows' = rows \/ rows' = Updated(u, x)) /\ manifests' = manifests /\ contested' = contested
      BY <1>7 DEF FailUpload
    <2> HIDE DEF x
    <2> QED BY <1>u, <2>1, <2>2, WindowKept
  <1>8. CASE LoseUpload(u)
    BY <1>8, WindowKept DEF LoseUpload
  <1> QED BY <1>1, <1>2, <1>3, <1>4, <1>5, <1>6, <1>7, <1>8 DEF UploadStep

\* Nothing a collector does shows in a restore.
LEMMA CollectorStepArchive ==
  ASSUME IInv, NEW w \in Collectors, CollectorStep(w)
  PROVE  Archived' = Archived
  <1>1. rows' = rows /\ contested' = contested
    BY DEF CollectorStep, StartCollection, LockKey, CheckKey, DeleteObject, RecordCollected, LeaveKey
  <1>2. CASE DeleteObject(w)
    <2>0. PICK k \in Keys : gc[w].key = k
      BY <1>2 DEF DeleteObject, IInv, Safe, CollectionSafe, LocksHeld
    <2>1. ~Needed(k) /\ Without(k)
      BY <1>2, <2>0 DEF DeleteObject, IInv, Safe, CollectionSafe, ClearedKeys
    <2>2. CASE k \in Objects
      BY <1>1, <2>1, <2>2, WindowKept DEF Without
    <2>3. CASE k \notin Objects
      <3>1. k \in Rows /\ \A s \in Rows \ {k} : manifests'[s] = manifests[s]
        BY <2>1, <2>3, KeySplit DEF Without, IInv, TypeOK
      <3>2. ~Promised(k)
        <4>1. Promised(k) => rows[k].named /\ Solid(k)
          BY <3>1 DEF IInv, Safe, WindowStored, Promised, Solid
        <4>2. rows[k].named => k \in References(k)
          BY <3>1 DEF References
        <4> QED BY <2>1, <4>1, <4>2 DEF Needed
      <3>3. ~Promised(k)'
        BY <1>1, <3>2 DEF Promised, Window
      <3> QED BY <1>1, <3>1, <3>2, <3>3, OwnRowOnly
    <2> QED BY <2>2, <2>3
  <1>3. CASE ~DeleteObject(w)
    <2>1. manifests' = manifests
      BY <1>3 DEF CollectorStep, StartCollection, LockKey, CheckKey, RecordCollected, LeaveKey
    <2> QED BY <1>1, <2>1, WindowKept
  <1> QED BY <1>2, <1>3

\* The end of a retention window ends the promise of a superseded generation, and
\* of nothing else.
LEMMA WindowPassesArchive ==
  ASSUME IInv, NEW r \in Rows, WindowPasses(r)
  PROVE  Abstract!Next \/ Archived' = Archived
  <1>1. /\ manifests' = manifests /\ contested' = contested
        /\ rows'[r].state = rows[r].state /\ rows'[r].expired
        /\ rows[r].state \in {"superseded", "error"} /\ ~rows[r].expired
        /\ \A s \in Rows \ {r} : rows'[s] = rows[s]
    BY DEF WindowPasses, IInv, TypeOK, Row
  <1>2. ~Promised(r)'
    BY <1>1 DEF Promised, Window
  <1>3. CASE ~Promised(r)
    BY <1>1, <1>2, <1>3, OwnRowOnly
  <1>4. CASE Promised(r)
    <2>1. rows[r].state = "superseded"
      BY <1>1, <1>4 DEF Promised, Window
    <2>2. Archived[r] # Abstract!Nothing /\ Archived[r].rank = "rollback"
      <3>1. Archived[r] = [rank |-> "rollback", content |-> manifests[r]]
        BY <1>4, <2>1, KeptIsPromised
      <3>2. Archived[r].rank = "rollback"
        BY <3>1
      <3>3. Archived[r] # Abstract!Nothing
        BY <1>4, KeptIsPromised
      <3> QED BY <3>2, <3>3
    <2>3. Archived'[r] = Abstract!Nothing
      BY <1>2 DEF Archived, Abstract!Nothing
    <2>4. \A s \in Rows \ {r} : Archived'[s] = Archived[s]
      BY <1>1 DEF Archived, Promised, Window
    <2>5. Archived' = [Archived EXCEPT ![r] = Abstract!Nothing]
      BY <2>3, <2>4 DEF Archived
    <2>6. Abstract!WindowEnds(r)
      BY <2>2, <2>5 DEF Abstract!WindowEnds
    <2> QED BY <2>6 DEF Abstract!Next, Abstract!Slots, Rows
  <1> QED BY <1>3, <1>4

\* Every step of the code is a step of the archive or shows nothing of it.
LEMMA ArchiveStep ==
  ASSUME IInv, IInv', [Next]_vars
  PROVE  Abstract!Next \/ Archived' = Archived
  <1>1. ASSUME NEW p \in Problems, LeaseSnapshot(p) PROVE Archived' = Archived
    BY <1>1, WindowKept DEF LeaseSnapshot
  <1>2. ASSUME NEW r \in Rows, NEW c \in Contents, ClaimSnapshot(r, c) PROVE Archived' = Archived
    <2>1. /\ rows'[r].state = "discovered" /\ \A s \in Rows \ {r} : rows'[s] = rows[s]
          /\ manifests' = manifests
          /\ \A s \in Rows \ {r} : s \in contested' <=> s \in contested
      BY <1>2 DEF ClaimSnapshot, IInv, TypeOK, Row
    <2>2. ~Promised(r)
      BY <1>2 DEF ClaimSnapshot, Claimable, Promised, Window, Active
    <2>3. ~Promised(r)'
      BY <2>1 DEF Promised, Window
    <2> QED BY <2>1, <2>2, <2>3, OwnRowOnly
  <1>3. ASSUME NEW u \in uploads, UploadStep(u) PROVE Abstract!Next \/ Archived' = Archived
    BY <1>3, FinalizePublishes, UploadStepArchive
  <1>4. ASSUME NEW r \in Rows, FailStalled(r) PROVE Archived' = Archived
    <2>1. /\ rows'[r].state = "error" /\ \A s \in Rows \ {r} : rows'[s] = rows[s]
          /\ manifests' = manifests /\ rows[r].state \in Active
          /\ \A s \in Rows \ {r} : s \in contested' <=> s \in contested
      BY <1>4 DEF FailStalled, IInv, TypeOK, Row
    <2>2. ~Promised(r) /\ ~Promised(r)'
      BY <2>1 DEF Promised, Window, Active
    <2> QED BY <2>1, <2>2, OwnRowOnly
  <1>5. ASSUME NEW r \in Rows, WindowPasses(r) PROVE Abstract!Next \/ Archived' = Archived
    BY <1>5, WindowPassesArchive
  <1>6. CASE ApplyRetention
    <2>1. manifests' = manifests /\ contested' = contested
      BY <1>6, Zenon DEF ApplyRetention
    <2>2. \A r \in Rows : rows'[r] = rows[r] \/ (rows'[r] = NoRow /\ Expired(r))
      BY <1>6 DEF ApplyRetention, Prunable
    <2>3. \A r \in Rows : (Promised(r)' <=> Promised(r)) /\ (Promised(r) => rows'[r] = rows[r])
      BY <2>1, <2>2 DEF Promised, Window, Expired, NoRow
    <2> QED BY <2>1, <2>3, ArchiveKept
  <1>7. ASSUME NEW w \in Collectors, CollectorStep(w) PROVE Archived' = Archived
    BY <1>7, CollectorStepArchive
  <1>8. CASE UNCHANGED vars
    BY <1>8, WindowKept DEF vars
  <1> QED BY <1>1, <1>2, <1>3, <1>4, <1>5, <1>6, <1>7, <1>8 DEF Next

\* The tables and the object store implement the archive: publication above the
\* newest generation, demotion, the end of a window, and restores that never change.
\* A row claimed again, or swept, under a live attempt promises nothing.
THEOREM ImplementsArchive == Spec => ArchiveSpec
  <1>1. Init => Abstract!Init
    BY DEF Init, Archived, Promised, Window, NoRow, Rows, Abstract!Init, Abstract!Slots, Abstract!Nothing
  <1>2. IInv /\ IInv' /\ [Next]_vars => [Abstract!Next]_Archived
    BY ArchiveStep
  <1> QED BY <1>1, <1>2, StoreInvariant, PTL DEF Spec, ArchiveSpec, Abstract!Spec
=============================================================================
