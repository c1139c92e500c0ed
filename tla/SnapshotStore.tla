---------------------------- MODULE SnapshotStore ----------------------------
(***************************************************************************)
(* Snapshots in the object store and in PostgreSQL: the background upload  *)
(* of a generation, its READY transaction, retention, and the two-sided    *)
(* garbage collection (the control plane's gc_collect job and the data     *)
(* plane's delete_object).  One action is one statement, transaction or    *)
(* object-store request; an actor may stop for good between any two.       *)
(*                                                                         *)
(* Content objects are named by their hash, so two snapshots share them; a *)
(* manifest object is named by problem and generation, so retries of one   *)
(* generation share it.  A fencing token is compared only with the newest  *)
(* one, so a holder remembers whether its own is still the newest.         *)
(*                                                                         *)
(* Nothing bounds an upload in time: its row may be claimed again, swept,  *)
(* or even pruned while it runs.  Such a late upload can spoil its own row *)
(* (contested) and leave bytes under its keys (strays); the properties say *)
(* that nothing else is ever lost.                                         *)
(***************************************************************************)
EXTENDS Integers, FiniteSets

CONSTANTS
  Problems,    \* external ids
  Generations, \* generations a job may ask for: 1..n
  Contents,    \* states of a problem folder
  Objects,     \* content-addressed keys, one per file hash
  Paths,       \* file names in a folder
  Files,       \* Files[c]: the key of each path of a folder in state c
  Collectors,  \* workers that hold, or held, a gc_collect lease
  MaxUploads,  \* bound: uploads alive at once
  MaxClaims,   \* bound: claims of a row, over a whole run
  NoContent,   \* no manifest object
  NoKey        \* a reference to a row or a key that is NULL, a path that is not there

Rows == Problems \X Generations
Keys == Objects \cup Rows      \* a manifest key is written as its row

ASSUME StoreAssumption ==
  /\ Generations \subseteq Nat \ {0}
  /\ Files \in [Contents -> [Paths -> Objects \cup {NoKey}]]
  /\ Objects \cap Rows = {}
  /\ NoContent \notin Contents
  /\ NoKey \notin Keys
  /\ "free" \notin Collectors
  /\ MaxUploads \in Nat
  /\ MaxClaims \in Nat

VARIABLES
  rows,      \* the snapshots table with its snapshot_objects
  store,     \* content objects: absent, good, or other bytes than the key says
  manifests, \* manifest objects: the content they list
  uploads,   \* background uploads in the data plane
  claims,    \* how many there were
  marks,     \* gc_marks by object key
  holder,    \* session-level advisory lock of each object key
  gc,        \* gc_collect jobs and the delete_object call each has open
  \* History, which no code keeps, to say exactly what late uploads may spoil:
  contested, \* rows claimed again, or swept, under a live earlier upload
  strays     \* keys an upload of such a row has written since their last deletion

vars == <<rows, store, manifests, uploads, claims, marks, holder, gc, contested, strays>>

Active == {"discovered", "hashing", "uploading", "verifying"}

Row == [state: Active \cup {"none", "ready", "superseded", "error"},
        refs: [Paths -> Objects \cup {NoKey}],   \* object_key of its snapshot_objects
        named: BOOLEAN,         \* manifest_key IS NOT NULL
        expired: BOOLEAN]       \* its retention window is over

NoFile == [f \in Paths |-> NoKey]

NoRow == [state |-> "none", refs |-> NoFile, named |-> FALSE, expired |-> FALSE]

Upload == [row: Rows, content: Contents, todo: SUBSET Paths,
           current: BOOLEAN,   \* no newer lease of its problem was given
           known: BOOLEAN,     \* the row it claimed is not deleted
           phase: {"claimed", "hashing", "sending", "verifying", "published"}]

Mark == [state: {"none", "marked", "collected"}, row: Rows \cup {NoKey}]

NoMark == [state |-> "none", row |-> NoKey]

Collector == [phase: {"idle", "listed", "locked", "cleared", "deleted"},
              current: BOOLEAN,      \* no newer gc_collect lease was given
              valid: BOOLEAN,        \* the mark row it listed still exists
              key: Keys \cup {NoKey}]

Resting == [phase |-> "idle", current |-> FALSE, valid |-> FALSE, key |-> NoKey]

TypeOK ==
  /\ rows \in [Rows -> Row]
  /\ store \in [Objects -> {"absent", "good", "bad"}]
  /\ manifests \in [Rows -> Contents \cup {NoContent}]
  /\ uploads \subseteq Upload
  /\ \A u \in uploads : \A f \in u.todo : Files[u.content][f] # NoKey
  /\ claims \in 0..MaxClaims
  /\ marks \in [Keys -> Mark]
  /\ holder \in [Keys -> Collectors \cup {"free"}]
  /\ gc \in [Collectors -> Collector]
  /\ contested \subseteq Rows
  /\ strays \subseteq Keys
  /\ \A k \in Keys : holder[k] # "free" =>
       gc[holder[k]].key = k /\ gc[holder[k]].phase \in {"locked", "cleared"}

Init ==
  /\ rows = [r \in Rows |-> NoRow]
  /\ store = [o \in Objects |-> "absent"]
  /\ manifests = [r \in Rows |-> NoContent]
  /\ uploads = {}
  /\ claims = 0
  /\ marks = [k \in Keys |-> NoMark]
  /\ holder = [k \in Keys |-> "free"]
  /\ gc = [w \in Collectors |-> Resting]
  /\ contested = {}
  /\ strays = {}

-----------------------------------------------------------------------------
\* Helpers

RowsOf(p) == {r \in Rows : r[1] = p}

Live(r) == \E u \in uploads : u.row = r

(* snapshot_is_gc_protected *)
Protected(r) ==
  \/ rows[r].state \in Active \cup {"ready"}
  \/ rows[r].state \in {"superseded", "error"} /\ ~rows[r].expired

Expired(r) == rows[r].state \in {"superseded", "error"} /\ rows[r].expired

(* The keys that a list of files names. *)
Listed(files) == {files[f] : f \in Paths} \ {NoKey}

(* The rows that refer to an object key, as content or as manifest. *)
References(k) == {r \in Rows : k \in Listed(rows[r].refs) \/ (k = r /\ rows[r].named)}

(* ensure_no_live_refs_conn finds a protected row that refers to the key. *)
LiveReference(k) == \E r \in References(k) : Protected(r)

Present(k) == IF k \in Objects THEN store[k] # "absent" ELSE manifests[k] # NoContent

(* An upload moves on: u is replaced by v. *)
Advance(u, v) == uploads' = (uploads \ {u}) \cup {v}

(* Its statements name its row by id: they find nothing once that was deleted. *)
Updated(u, row) == IF u.known THEN [rows EXCEPT ![u.row] = row] ELSE rows

(* History: an upload writes an object. *)
Straying(u, k) == IF u.row \in contested THEN strays \cup {k} ELSE strays

-----------------------------------------------------------------------------
\* The upload of one generation

(* A row may be inserted, or taken over from a failed attempt or from one    *)
(* that has been active for two hours, which may be over at any time.        *)
Claimable(r) == rows[r].state \in Active \cup {"none", "error"}

(* A snapshot job of the problem takes a lease, which draws the newest token. *)
LeaseSnapshot(p) ==
  /\ \E u \in uploads : u.row[1] = p /\ u.current
  /\ uploads' = {IF u.row[1] = p THEN [u EXCEPT !.current = FALSE] ELSE u : u \in uploads}
  /\ UNCHANGED <<claims, rows, store, manifests, marks, holder, gc, contested, strays>>

(* Under the newest lease, the data plane has scanned the folder in state c   *)
(* and claims the generation's row.                                           *)
ClaimSnapshot(r, c) ==
  /\ Cardinality(uploads) < MaxUploads
  /\ claims < MaxClaims /\ claims' = claims + 1
  /\ \A u \in uploads : u.row[1] = r[1] => ~u.current
  /\ Claimable(r)
  /\ rows' = [rows EXCEPT ![r] = [@ EXCEPT !.state = "discovered",
                                            !.named = FALSE, !.expired = FALSE]]
  /\ uploads' = uploads \cup {[row |-> r, content |-> c, todo |-> {},
                                current |-> TRUE, known |-> TRUE, phase |-> "claimed"]}
  /\ contested' = IF Live(r) THEN contested \cup {r} ELSE contested \ {r}
  /\ UNCHANGED <<store, manifests, marks, holder, gc, strays>>

(* The claim deletes the object identities an earlier attempt recorded. *)
Forgotten(row) == [row EXCEPT !.refs = NoFile]

(* That cleanup, then state 'hashing'. *)
BeginHashing(u) ==
  /\ u.phase = "claimed"
  /\ rows' = Updated(u, [Forgotten(rows[u.row]) EXCEPT !.state = "hashing"])
  /\ Advance(u, [u EXCEPT !.phase = "hashing"])
  /\ UNCHANGED <<claims, store, manifests, marks, holder, gc, contested, strays>>

(* A row names its manifest and the objects of its files; what it had for the  *)
(* same path is replaced, what it had for another path stays.                 *)
Referring(row, c) ==
  [row EXCEPT !.named = TRUE,
     !.refs = [f \in Paths |-> IF Files[c][f] # NoKey THEN Files[c][f] ELSE row.refs[f]]]

(* The keys whose marks the transaction deletes and whose locks it takes. *)
Mutant_PreparedKeys(u) == {u.row}
PreparedKeys(u) == Listed(Files[u.content]) \cup {u.row}

(* Every key of the snapshot is locked, any mark on one is deleted and all of *)
(* them are referenced, before a byte is sent.                              *)
PrepareUpload(u) ==
  LET keys == PreparedKeys(u) IN
  /\ u.phase = "hashing"
  /\ \A k \in keys : holder[k] = "free"
  /\ u.known /\ rows[u.row].state = "hashing"
  /\ marks' = [k \in Keys |-> IF k \in keys THEN NoMark ELSE marks[k]]
  /\ gc' = [w \in Collectors |-> [gc[w] EXCEPT !.valid = @ /\ gc[w].key \notin keys]]
  /\ rows' = [rows EXCEPT ![u.row] = [Referring(@, u.content) EXCEPT !.state = "uploading"]]
  /\ Advance(u, [u EXCEPT !.phase = "sending",
                          !.todo = {f \in Paths : Files[u.content][f] # NoKey}])
  /\ UNCHANGED <<claims, store, manifests, holder, contested, strays>>

(* One file is uploaded, or found in the store, its bytes are read back and   *)
(* compared with its key, and the row's entry for its path is updated.  If    *)
(* there is no entry any more the upload fails, but the object stays.         *)
SendFile(u, f) ==
  LET o == Files[u.content][f] IN
  /\ u.phase = "sending"
  /\ f \in u.todo
  /\ store[o] # "bad"
  /\ store' = [store EXCEPT ![o] = "good"]
  /\ strays' = IF store[o] = "absent" THEN Straying(u, o) ELSE strays
  /\ IF u.known /\ rows[u.row].refs[f] # NoKey
     THEN /\ rows' = [rows EXCEPT ![u.row].refs[f] = o]
          /\ Advance(u, [u EXCEPT !.todo = @ \ {f}])
     ELSE UNCHANGED <<rows, uploads>>
  /\ UNCHANGED <<claims, manifests, marks, holder, gc, contested>>

(* The file changes after it was hashed: other bytes are stored under the key *)
(* and the comparison fails the upload, but the object stays.                 *)
SendChangedFile(u, f) ==
  LET o == Files[u.content][f] IN
  /\ u.phase = "sending"
  /\ f \in u.todo
  /\ store[o] = "absent"
  /\ store' = [store EXCEPT ![o] = "bad"]
  /\ strays' = Straying(u, o)
  /\ UNCHANGED <<claims, rows, manifests, uploads, marks, holder, gc, contested>>

BeginVerifying(u) ==
  /\ u.phase = "sending"
  /\ u.todo = {}
  /\ rows' = Updated(u, [rows[u.row] EXCEPT !.state = IF @ = "uploading" THEN "verifying" ELSE @])
  /\ Advance(u, [u EXCEPT !.phase = "verifying"])
  /\ UNCHANGED <<claims, store, manifests, marks, holder, gc, contested, strays>>

PutManifest(u) ==
  /\ u.phase = "verifying"
  /\ manifests' = [manifests EXCEPT ![u.row] = u.content]
  /\ strays' = Straying(u, u.row)
  /\ Advance(u, [u EXCEPT !.phase = "published"])
  /\ UNCHANGED <<claims, rows, store, marks, holder, gc, contested>>

(* The READY transaction's conditions: the newest token, a generation above   *)
(* the one the projection points at, the row still 'verifying', and the       *)
(* unique index that allows one READY row of a problem.                       *)
Mutant_MayFinalize(u) == u.current /\ u.known /\ rows[u.row].state = "verifying"
MayFinalize(u) ==
  /\ u.current
  /\ u.known /\ rows[u.row].state = "verifying"
  /\ \A r \in RowsOf(u.row[1]) : rows[r].state = "ready" => r[2] < u.row[2]

FinalizeSnapshot(u) ==
  /\ u.phase = "published"
  /\ MayFinalize(u)
  /\ rows' = [r \in Rows |->
       CASE r = u.row ->
              [Referring(rows[r], u.content) EXCEPT !.state = "ready"]
         [] r[1] = u.row[1] /\ r[2] < u.row[2] /\ rows[r].state = "ready" ->
              [rows[r] EXCEPT !.state = "superseded", !.expired = FALSE]
         [] OTHER -> rows[r]]
  /\ uploads' = uploads \ {u}
  /\ UNCHANGED <<claims, store, manifests, marks, holder, gc, contested, strays>>

(* Any step of the upload fails (churn, a refused READY transaction, the      *)
(* object store) and the error is recorded on the row.                        *)
FailUpload(u) ==
  /\ u.phase # "claimed"
  /\ rows' = IF rows[u.row].state = "ready" THEN rows
             ELSE Updated(u, [rows[u.row] EXCEPT !.state = "error", !.expired = FALSE])
  /\ uploads' = uploads \ {u}
  /\ UNCHANGED <<claims, store, manifests, marks, holder, gc, contested, strays>>

(* The request is dropped before the upload is spawned, or the process dies:  *)
(* nothing is recorded.                                                       *)
LoseUpload(u) ==
  /\ uploads' = uploads \ {u}
  /\ UNCHANGED <<claims, rows, store, manifests, marks, holder, gc, contested, strays>>

(* The control plane sweeps rows that stayed active for six hours. *)
FailStalled(r) ==
  /\ rows[r].state \in Active
  /\ rows' = [rows EXCEPT ![r] = [@ EXCEPT !.state = "error", !.expired = FALSE]]
  /\ contested' = IF Live(r) THEN contested \cup {r} ELSE contested
  /\ UNCHANGED <<claims, store, manifests, uploads, marks, holder, gc, strays>>

-----------------------------------------------------------------------------
\* Retention

(* A row's retention window ends: days after it left the active states. *)
WindowPasses(r) ==
  /\ rows[r].state \in {"superseded", "error"}
  /\ ~rows[r].expired
  /\ rows' = [rows EXCEPT ![r].expired = TRUE]
  /\ UNCHANGED <<claims, store, manifests, uploads, marks, holder, gc, contested, strays>>

Mutant_Prunable(r) == Expired(r)

(* An expired row is deleted once each of its objects is collected, or is     *)
(* still referenced by another protected row.                                 *)
Prunable(r) ==
  /\ Expired(r)
  /\ \A k \in Listed(rows[r].refs) \cup (IF rows[r].named THEN {r} ELSE {}) :
       \/ marks[k].state = "collected"
       \/ \E s \in References(k) \ {r} : Protected(s)

(* A key gets a mark, naming one of the expired rows it belongs to, unless    *)
(* the mark there already serves that row.                                    *)
NeedsMark(table, k, r) ==
  /\ Expired(r) /\ r \in References(k) /\ ~LiveReference(k)
  /\ \/ table[k].state = "none"
     \/ table[k].state = "collected" /\ table[k].row = NoKey
     \/ table[k].row # r

(* applyRetention: prune, then mark what the remaining expired rows alone     *)
(* refer to.  Deleting a row sets the marks that name it to NULL, and an      *)
(* upload that outlived its row finds it no more.  The lock both take keeps   *)
(* it and PrepareUpload apart.                                                *)
ApplyRetention ==
  LET pruned  == {r \in Rows : Prunable(r)}
      kept    == [k \in Keys |-> IF marks[k].row \in pruned
                                 THEN [marks[k] EXCEPT !.row = NoKey] ELSE marks[k]]
      Namers(k) == {r \in Rows \ pruned : Expired(r) /\ r \in References(k)}
      named   == {k \in Keys : Namers(k) # {}}
  IN
  /\ {r \in Rows : Expired(r)} # {}
  /\ \E name \in [named -> Rows] :
       /\ \A k \in named : name[k] \in Namers(k)
       /\ marks' = [k \in Keys |->
            IF k \in named /\ NeedsMark(kept, k, name[k])
            THEN [state |-> "marked", row |-> name[k]] ELSE kept[k]]
  /\ rows' = [r \in Rows |-> IF r \in pruned THEN NoRow ELSE rows[r]]
  /\ uploads' = {[u EXCEPT !.known = @ /\ u.row \notin pruned] : u \in uploads}
  /\ <<rows, marks>>' # <<rows, marks>>
  /\ UNCHANGED <<claims, store, manifests, holder, gc, contested, strays>>

-----------------------------------------------------------------------------
\* Collection

(* listGcEligible. The mark's safety window may be over at any time. *)
Eligible(k) == marks[k].state = "marked" /\ ~LiveReference(k)

(* A gc_collect job is leased, which draws the newest token, and its worker   *)
(* lists what to collect; k is the object it comes to next, whatever happened *)
(* since the listing.  A worker that lost its lease may still be running.     *)
StartCollection(w, k) ==
  /\ gc[w].phase = "idle"
  /\ Eligible(k)
  /\ gc' = [v \in Collectors |->
       IF v = w THEN [phase |-> "listed", current |-> TRUE, key |-> k, valid |-> TRUE]
       ELSE [gc[v] EXCEPT !.current = FALSE]]
  /\ UNCHANGED <<claims, rows, store, manifests, uploads, marks, holder, contested, strays>>

(* The lease is asserted and delete_object takes the key's session lock. *)
LockKey(w) ==
  /\ gc[w].phase = "listed"
  /\ gc[w].current
  /\ holder[gc[w].key] = "free"
  /\ holder' = [holder EXCEPT ![gc[w].key] = w]
  /\ gc' = [gc EXCEPT ![w].phase = "locked"]
  /\ UNCHANGED <<claims, rows, store, manifests, uploads, marks, contested, strays>>

(* ensure_latest_fencing_tx and ensure_no_live_refs_conn *)
Mutant_MayDelete(w) == gc[w].current
MayDelete(w) == gc[w].current /\ ~LiveReference(gc[w].key)

(* The token and the references are checked, before and again after the HEAD *)
(* request; the later check decides.  An absent object counts as deleted.     *)
CheckKey(w) ==
  /\ gc[w].phase = "locked"
  /\ MayDelete(w)
  /\ IF Present(gc[w].key)
     THEN gc' = [gc EXCEPT ![w].phase = "cleared"] /\ UNCHANGED holder
     ELSE gc' = [gc EXCEPT ![w].phase = "deleted"] /\ holder' = [holder EXCEPT ![gc[w].key] = "free"]
  /\ UNCHANGED <<claims, rows, store, manifests, uploads, marks, contested, strays>>

Without(k) ==
  IF k \in Objects
  THEN store' = [store EXCEPT ![k] = "absent"] /\ UNCHANGED manifests
  ELSE manifests' = [manifests EXCEPT ![k] = NoContent] /\ UNCHANGED store

(* The object is deleted; a third check decides what the caller is told. *)
DeleteObject(w) ==
  /\ gc[w].phase = "cleared"
  /\ Without(gc[w].key)
  /\ strays' = strays \ {gc[w].key}
  /\ holder' = [holder EXCEPT ![gc[w].key] = "free"]
  /\ gc' = [gc EXCEPT ![w] = IF MayDelete(w) THEN [@ EXCEPT !.phase = "deleted"] ELSE Resting]
  /\ UNCHANGED <<claims, rows, uploads, marks, contested>>

(* markGcCollected, by the id the mark had when it was listed. *)
RecordCollected(w) ==
  LET k == gc[w].key IN
  /\ gc[w].phase = "deleted"
  /\ gc[w].current
  /\ marks' = [marks EXCEPT ![k].state = IF gc[w].valid /\ @ = "marked" THEN "collected" ELSE @]
  /\ gc' = [gc EXCEPT ![w] = Resting]
  /\ UNCHANGED <<claims, rows, store, manifests, uploads, holder, contested, strays>>

(* delete_object unlocks its key on every path. *)
Mutant_Unlocked(w) == [k \in Keys |-> IF holder[k] = w /\ gc[w].phase = "locked" THEN "free" ELSE holder[k]]
Unlocked(w) == [k \in Keys |-> IF holder[k] = w THEN "free" ELSE holder[k]]

(* The key is left: a live reference (409, the mark is deferred), a token that *)
(* is no longer the newest, an error of the object store, a call that timed    *)
(* out, a worker that died.  The mark stays for a later job; delete_object has *)
(* unlocked the key, or a dropped request leaves the lock on its connection,   *)
(* which only delays others.                                                   *)
LeaveKey(w) ==
  /\ gc[w].phase # "idle"
  /\ holder' = Unlocked(w)
  /\ gc' = [gc EXCEPT ![w] = Resting]
  /\ UNCHANGED <<claims, rows, store, manifests, uploads, marks, contested, strays>>

-----------------------------------------------------------------------------
UploadStep(u) ==
  \/ BeginHashing(u) \/ PrepareUpload(u)
  \/ \E f \in Paths : SendFile(u, f) \/ SendChangedFile(u, f)
  \/ BeginVerifying(u) \/ PutManifest(u) \/ FinalizeSnapshot(u)
  \/ FailUpload(u) \/ LoseUpload(u)

CollectorStep(w) ==
  \/ \E k \in Keys : StartCollection(w, k)
  \/ LockKey(w) \/ CheckKey(w) \/ DeleteObject(w) \/ RecordCollected(w)
  \/ LeaveKey(w)

Next ==
  \/ \E p \in Problems : LeaseSnapshot(p)
  \/ \E r \in Rows, c \in Contents : ClaimSnapshot(r, c)
  \/ \E u \in uploads : UploadStep(u)
  \/ \E r \in Rows : FailStalled(r) \/ WindowPasses(r)
  \/ ApplyRetention
  \/ \E w \in Collectors : CollectorStep(w)

Spec == Init /\ [][Next]_vars

-----------------------------------------------------------------------------
\* What a restore of a row yields, and the promises of Archive

Restorable(r) ==
  /\ manifests[r] # NoContent
  /\ \A o \in Listed(Files[manifests[r]]) : store[o] = "good"

Window(r) == rows[r].state = "ready" \/ (rows[r].state = "superseded" /\ ~rows[r].expired)

Promised(r) == Window(r) /\ r \notin contested

Archived == [r \in Rows |->
  IF Promised(r) /\ manifests[r] # NoContent
  THEN [rank |-> IF rows[r].state = "ready" THEN "latest" ELSE "rollback", content |-> manifests[r]]
  ELSE [rank |-> "nothing"]]

Abstract == INSTANCE Archive WITH kept <- Archived

ArchiveSpec == Abstract!Spec

(* The READY snapshot of a problem, and a superseded one inside its rollback  *)
(* window, can be restored: the manifest is there and every object it lists   *)
(* holds the bytes its key names, whatever the collector, failing attempts,   *)
(* late attempts of other rows and shared content do.  The exception is a     *)
(* row that was claimed again, or swept, under a live attempt.                *)
WindowRestorable == \A r \in Rows : Promised(r) => Restorable(r)

(* "active, ready, and superseded generations remain immutable"               *)
(* (snapshot.rs:125): what a READY or superseded row restores never changes.  *)
(* Of every row this is false: a late attempt puts its own manifest over that *)
(* of the READY one (snapshot.rs:305).                                        *)
EveryManifestKept ==
  [][\A r \in Rows : Window(r) /\ Window(r)' => manifests'[r] = manifests[r]]_vars

(* A mark says "collected" only while the object is gone, or was written      *)
(* again by a late attempt: it decides whether the row's metadata may be      *)
(* pruned.                                                                    *)
CollectedIsGone ==
  \A k \in Keys : marks[k].state = "collected" /\ Present(k) => k \in strays

(* "Metadata is pruned only after every private object was collected."        *)
(* (db.ts:1528): when a row disappears, each object it referred to is gone,   *)
(* belongs to another protected row or was written by a late attempt.         *)
PrunedLeavesNothing ==
  [][\A r \in Rows : rows[r].state # "none" /\ rows'[r].state = "none" =>
       \A k \in Keys \ strays : r \in References(k) /\ Present(k) =>
          \E s \in Rows \ {r} : s \in References(k) /\ Protected(s)]_vars
=============================================================================
