------------------------------- MODULE Catalog -------------------------------
(***************************************************************************)
(* The catalogue of problems: what ClueOJ has, what the problems table says, *)
(* and the folders under the problem root.  ClueOJ tells of a change with a  *)
(* notification that may be lost, late or repeated, and from time to time    *)
(* sends its whole list.  The data plane's reconcile pass and its watcher    *)
(* know folders by code only and record an unknown one as an orphan.         *)
(*                                                                           *)
(* The external id "orphan:<code>" is written as the code itself.  What a    *)
(* scheduled backup does is AutoSnapshot.  Mirrors are left out.             *)
(***************************************************************************)
EXTENDS Integers, FiniteSets

CONSTANTS
  Pks,         \* primary keys of problems in ClueOJ
  Codes,       \* problem codes, which are folder names
  Operated,    \* codes whose orphans an operator scans or backs up
  MaxChanges,  \* bound: changes in ClueOJ or of a folder, and crashes
  MaxNotices   \* bound: notifications under way

ASSUME CatalogAssumption ==
  /\ Pks \cap Codes = {} /\ Operated \subseteq Codes
  /\ {"none", "new", "deleted"} \cap Codes = {}
  /\ MaxChanges \in Nat /\ MaxNotices \in Nat

VARIABLES
  oj,       \* ClueOJ's problems: a code, or not created yet, or deleted
  rows,     \* problems, each with its problem_usage and the records that refer to it
  folders,  \* folders that exist
  cached,   \* codes whose tree cache accounts for the folder as it is
  events,   \* codes with a debounced filesystem event
  notices,  \* notifications that have had no effect yet
  request,  \* a problems:reconcile request
  pass,     \* the data plane's reconcile pass: what is left of its plan
  asked,    \* problems a snapshot scheduler came to
  changes

vars == <<oj, rows, folders, cached, events, notices, request, pass, asked, changes>>

Ids == Pks \cup Codes

Entries == Pks \X Codes

(* history: what orphan rows of a code left to the row in snapshots and jobs, *)
(* as the code.  (A problem's own row never goes, nor does what refers to it.) *)
Row == [state: {"none", "present", "deleted", "orphan"},
        code: Codes \cup {"none"},
        local: {"none", "present", "missing", "orphan"},  \* problem_usage.local_status
        history: SUBSET Codes]

NoRow == [state |-> "none", code |-> "none", local |-> "none", history |-> {}]

NoRequest == [on |-> FALSE, list |-> {}, todo |-> {}]

NoPass == [known |-> {}, missing |-> {}, orphans |-> {}]

Known(i) == rows[i].state # "none"

(* The row that has a code: UNIQUE(code). *)
Owner(c) == {i \in Ids : Known(i) /\ rows[i].code = c}

TypeOK ==
  /\ oj \in [Pks -> Codes \cup {"new", "deleted"}]
  /\ rows \in [Ids -> Row]
  /\ folders \subseteq Codes /\ cached \subseteq folders /\ events \subseteq Codes
  /\ notices \subseteq [pk: Pks, code: Codes, gone: BOOLEAN]
  /\ request \in [on: BOOLEAN, list: SUBSET Entries, todo: SUBSET Entries]
  /\ pass \in [known: SUBSET Entries, missing: SUBSET Pks, orphans: SUBSET Codes]
  /\ asked \subseteq Pks
  /\ changes \in 0..MaxChanges
  /\ \A c \in Codes : Cardinality(Owner(c)) <= 1
  /\ \A c \in Codes : Known(c) => rows[c].state = "orphan" /\ rows[c].code = c
  /\ \A p \in Pks : rows[p].state # "orphan"

(* The platform is installed beside a ClueOJ that has problems and folders. *)
Init ==
  /\ oj \in {f \in [Pks -> Codes \cup {"new"}] :
               \A p, q \in Pks : p # q /\ f[p] = f[q] => f[p] = "new"}
  /\ folders \in SUBSET Codes
  /\ rows = [i \in Ids |-> NoRow]
  /\ cached = {} /\ events = {} /\ notices = {} /\ asked = {}
  /\ request = NoRequest
  /\ pass = NoPass
  /\ changes = 0

-----------------------------------------------------------------------------
\* ClueOJ and the folders

Live(p) == oj[p] \in Codes

Change == changes < MaxChanges /\ changes' = changes + 1

(* A notification is sent and forgotten: it may never get anywhere. *)
Announce(p, c, gone) ==
  \/ UNCHANGED notices
  \/ /\ Cardinality(notices) < MaxNotices
     /\ notices' = notices \cup {[pk |-> p, code |-> c, gone |-> gone]}

Free(c) == \A p \in Pks : oj[p] # c

CreateProblem(p, c) ==
  /\ oj[p] = "new" /\ Free(c) /\ Change
  /\ oj' = [oj EXCEPT ![p] = c]
  /\ Announce(p, c, FALSE)
  /\ UNCHANGED <<rows, folders, cached, events, request, pass, asked>>

(* Saving another code renames the folder. *)
RenameProblem(p, c) ==
  LET old == oj[p] IN
  /\ Live(p) /\ Free(c) /\ Change
  /\ oj' = [oj EXCEPT ![p] = c]
  /\ IF old \in folders /\ c \notin folders
     THEN /\ folders' = (folders \ {old}) \cup {c}
          /\ cached' = cached \ {old, c}
          /\ events' = events \cup {old, c}
     ELSE UNCHANGED <<folders, cached, events>>
  /\ Announce(p, c, FALSE)
  /\ UNCHANGED <<rows, request, pass, asked>>

DeleteProblem(p) ==
  /\ Live(p) /\ Change
  /\ oj' = [oj EXCEPT ![p] = "deleted"]
  /\ Announce(p, oj[p], TRUE)
  /\ UNCHANGED <<rows, folders, cached, events, request, pass, asked>>

(* Files are written to a folder, of a problem or not, or a folder goes. *)
TouchFolder(c) ==
  /\ Change
  /\ folders' \in {folders \cup {c}, folders \ {c}}
  /\ cached' = cached \ {c}
  /\ events' = events \cup {c}
  /\ UNCHANGED <<oj, rows, notices, request, pass, asked>>

(* The processes restart: no event, request or pass survives. *)
Crash ==
  /\ Change
  /\ events' = {}
  /\ request' = NoRequest
  /\ pass' = NoPass
  /\ UNCHANGED <<oj, rows, folders, cached, notices, asked>>

-----------------------------------------------------------------------------
\* Claims of a code by an external id

(* upsertProblem: the code is free or p's own, or an orphan has it, and the   *)
(* orphan's history can follow it: either it becomes p's row, or it has none. *)
Mutant_MayUpsert(p, c) == Owner(c) \subseteq {p, c}
MayUpsert(p, c) ==
  \A i \in Owner(c) \ {p} : i = c /\ (Known(p) => rows[c].history = {})

(* markProblemDirtyIdempotent only knows the first of the two. *)
MayMarkDirty(p, c) == \A i \in Owner(c) \ {p} : i = c /\ ~Known(p)

(* The row of p after the claim. An orphan's row is renamed with everything   *)
(* that refers to it; if p has a row, the orphan's accounting is copied.      *)
ClaimedRow(p, c) ==
  IF c \notin Owner(c) THEN rows[p]
  ELSE IF ~Known(p) THEN rows[c]
  ELSE [rows[p] EXCEPT !.local = IF rows[c].local = "none" THEN @ ELSE "present"]

Claim(p, c, state) ==
  rows' = [i \in Ids |-> IF i = p THEN [ClaimedRow(p, c) EXCEPT !.state = state, !.code = c]
                         ELSE IF i \in Owner(c) THEN NoRow ELSE rows[i]]

(* The dirty route: the row is written and, unless deleted, its backup        *)
(* scheduled. From then on the notification's idempotency key makes every     *)
(* repetition an answer without effect; before, it may come at any time.      *)
MarkDirty(n) ==
  /\ MayMarkDirty(n.pk, n.code)
  /\ Claim(n.pk, n.code, IF n.gone THEN "deleted" ELSE "present")
  /\ asked' = IF n.gone THEN asked ELSE asked \cup {n.pk}
  /\ notices' = notices \ {n}
  /\ UNCHANGED <<oj, folders, cached, events, request, pass, changes>>

-----------------------------------------------------------------------------
\* POST catalog/problems:reconcile

(* ClueOJ sends the list of its problems. *)
SendCatalog ==
  /\ ~request.on
  /\ LET list == {e \in Entries : oj[e[1]] = e[2]}
     IN request' = [on |-> TRUE, list |-> list, todo |-> list]
  /\ UNCHANGED <<oj, rows, folders, cached, events, notices, pass, asked, changes>>

(* One problem at a time; the first conflict ends the request. *)
UpsertProblem(e) ==
  /\ request.on /\ e \in request.todo
  /\ IF MayUpsert(e[1], e[2])
     THEN Claim(e[1], e[2], "present") /\ request' = [request EXCEPT !.todo = @ \ {e}]
     ELSE request' = NoRequest /\ UNCHANGED rows
  /\ UNCHANGED <<oj, folders, cached, events, notices, pass, asked, changes>>

(* markMissingOutsideCatalog, unless the list is empty. *)
Mutant_Gone(p) ==
  /\ rows[p].state = "present" /\ rows[p].local = "present"
  /\ request.list # {}
  /\ \A e \in request.list : e[1] # p
Gone(p) ==
  /\ rows[p].state = "present"
  /\ request.list # {}
  /\ \A e \in request.list : e[1] # p

(* The end of the request. Backups are scheduled for the listed problems whose *)
(* folders are accounted as present.                                           *)
MarkMissing ==
  /\ request.on /\ request.todo = {}
  /\ rows' = [i \in Ids |-> IF i \in Pks /\ Gone(i) THEN [rows[i] EXCEPT !.state = "deleted"] ELSE rows[i]]
  /\ asked' = asked \cup {p \in Pks : rows[p].local = "present" /\ \E e \in request.list : e[1] = p}
  /\ request' = NoRequest
  /\ UNCHANGED <<oj, folders, cached, events, notices, pass, changes>>

Schedulable(p) == rows[p].state = "present" /\ rows[p].local = "present"

(* scheduleDirtySnapshotBatch, every minute. *)
ScheduleBatch ==
  /\ asked' = asked \cup {p \in Pks : Schedulable(p)}
  /\ asked' # asked
  /\ UNCHANGED <<oj, rows, folders, cached, events, notices, request, pass, changes>>

-----------------------------------------------------------------------------
\* The data plane, which knows folders by code

(* upsert_discovered_usage: an unknown code gets an orphan row; whoever has    *)
(* the code gets the folder's accounting.                                      *)
Mutant_Discovered(c) == [rows EXCEPT ![c] = [@ EXCEPT !.state = "orphan", !.code = c, !.local = "orphan"]]
Discovered(c) ==
  LET i == IF Owner(c) = {} THEN c ELSE CHOOSE i \in Owner(c) : TRUE
      row == IF Owner(c) = {} THEN [NoRow EXCEPT !.state = "orphan", !.code = c] ELSE rows[i]
  IN [rows EXCEPT ![i] = [row EXCEPT !.local = IF row.state = "orphan" THEN "orphan" ELSE "present"]]

(* snapshot_dirty_code: a missing folder is recorded; a known problem's folder *)
(* is verified, or uploaded unless an operation of the problem is running;     *)
(* the rest is an orphan's.                                                    *)
WatchFolder(c) ==
  /\ c \in events
  /\ events' = events \ {c}
  /\ IF c \in folders
     THEN /\ rows' = Discovered(c)
          /\ asked' \in {asked, asked \cup {p \in Pks : p \in Owner(c) /\ rows[p].state = "present"}}
     ELSE /\ rows' = [i \in Ids |-> IF i \in Owner(c) /\ rows[i].state = "present" /\ rows[i].local # "none"
                                    THEN [rows[i] EXCEPT !.local = "missing"] ELSE rows[i]]
          /\ UNCHANGED asked
  /\ UNCHANGED <<oj, folders, cached, notices, request, pass, changes>>

(* An operator has an orphan scanned or backed up. *)
MakeHistory(c) ==
  /\ Known(c) /\ c \in folders
  /\ rows' = [rows EXCEPT ![c].history = {c}]
  /\ rows' # rows
  /\ UNCHANGED <<oj, folders, cached, events, notices, request, pass, asked, changes>>

(* build_reconcile_plan, from the folders and the present problems. *)
StartPass ==
  LET active == {p \in Pks : rows[p].state = "present"} IN
  /\ pass = NoPass
  /\ pass' = [known |-> {e \in Entries : e[1] \in active /\ rows[e[1]].code = e[2] /\ e[2] \in folders},
              missing |-> {p \in active : rows[p].code \notin folders},
              orphans |-> {c \in folders : \A p \in active : rows[p].code # c}]
  /\ pass' # NoPass
  /\ UNCHANGED <<oj, rows, folders, cached, events, notices, request, asked, changes>>

(* cached_usage_matches for code c, of the row i or of any. *)
Mutant_Reusable(c, ids) ==
  /\ c \in cached
  /\ \E i \in Owner(c) \cap ids : rows[i].local # "none"
Reusable(c, ids) ==
  /\ c \in cached
  /\ \E i \in Owner(c) \cap ids : rows[i].local \in {"present", "orphan"}

(* A known problem: the orphan row of its code goes, with whatever refers to   *)
(* it, and the folder is scanned unless its tree is cached.                    *)
ReconcileKnown(e) ==
  LET p == e[1]  c == e[2]  kept == [rows EXCEPT ![c] = NoRow] IN
  /\ e \in pass.known
  /\ IF Reusable(c, {p})
     THEN rows' = kept /\ pass' = [pass EXCEPT !.known = @ \ {e}] /\ UNCHANGED cached
     ELSE IF c \in folders
     THEN /\ rows' = [kept EXCEPT ![p].local = "present"]
          /\ cached' = cached \cup {c}
          /\ pass' = [pass EXCEPT !.known = @ \ {e}]
     ELSE rows' = kept /\ pass' = NoPass /\ cached' = cached \ {c}
  /\ UNCHANGED <<oj, folders, events, notices, request, asked, changes>>

(* upsert_missing_usage *)
ReconcileMissing(p) ==
  /\ pass.known = {} /\ p \in pass.missing
  /\ rows' = [rows EXCEPT ![p].local = "missing"]
  /\ pass' = [pass EXCEPT !.missing = @ \ {p}]
  /\ UNCHANGED <<oj, folders, cached, events, notices, request, asked, changes>>

ReconcileOrphan(c) ==
  /\ pass.known = {} /\ pass.missing = {} /\ c \in pass.orphans
  /\ IF Reusable(c, Ids)
     THEN pass' = [pass EXCEPT !.orphans = @ \ {c}] /\ UNCHANGED <<rows, cached>>
     ELSE IF c \in folders
     THEN /\ rows' = Discovered(c)
          /\ cached' = cached \cup {c}
          /\ pass' = [pass EXCEPT !.orphans = @ \ {c}]
     ELSE pass' = NoPass /\ cached' = cached \ {c} /\ UNCHANGED rows
  /\ UNCHANGED <<oj, folders, events, notices, request, asked, changes>>

-----------------------------------------------------------------------------
External ==
  \/ \E p \in Pks, c \in Codes : CreateProblem(p, c) \/ RenameProblem(p, c)
  \/ \E p \in Pks : DeleteProblem(p)
  \/ \E c \in Codes : TouchFolder(c)
  \/ Crash

RequestStep ==
  \/ SendCatalog \/ MarkMissing
  \/ \E e \in Entries : UpsertProblem(e)

PassStep ==
  \/ StartPass
  \/ \E e \in Entries : ReconcileKnown(e)
  \/ \E p \in Pks : ReconcileMissing(p)
  \/ \E c \in Codes : ReconcileOrphan(c)

Next ==
  \/ External
  \/ \E n \in notices : MarkDirty(n)
  \/ RequestStep \/ ScheduleBatch
  \/ \E c \in Codes : WatchFolder(c)
  \/ \E c \in Operated : MakeHistory(c)
  \/ PassStep

Spec == Init /\ [][Next]_vars

(* ClueOJ sends its list again and again and the request runs to its end; the  *)
(* batch, the pass and the watcher run on their timers.                        *)
Fairness ==
  /\ WF_vars(RequestStep) /\ WF_vars(ScheduleBatch) /\ WF_vars(PassStep)
  /\ \A c \in Codes : WF_vars(WatchFolder(c))

FairSpec == Spec /\ Fairness

-----------------------------------------------------------------------------
(* "atomically claimed by its authoritative ClueOJ external ID without losing  *)
(* usage, jobs, or snapshots" (006_problem_identity_rekey.sql:1-2): when an     *)
(* orphan's row goes because a problem takes its code, the problem has the      *)
(* orphan's records and its accounting.                                        *)
ClaimKeepsHistory ==
  [][\A p \in Pks, c \in Codes :
       Known(c) /\ ~Known(c)' /\ rows'[p].code = c /\ p \notin Owner(c) =>
         /\ rows[c].history \subseteq rows'[p].history
         /\ rows[c].local # "none" => rows'[p].local # "none"]_vars

(* No catalogue operation deletes records of jobs or snapshots. *)
HistoryKept ==
  [][\A i \in Ids : \A h \in rows[i].history : \E j \in Ids : h \in rows'[j].history]_vars

Mirrors(p) ==
  IF Live(p) THEN rows[p].state = "present" /\ rows[p].code = oj[p]
  ELSE rows[p].state \in {"none", "deleted"}

(* A live problem whose code another row has, in a way no claim resolves. *)
Blocked == \E p \in Pks : Live(p) /\ ~MayUpsert(p, oj[p])

(* Once ClueOJ rests, the table comes to say what ClueOJ says, whatever        *)
(* notifications were lost, late or repeated; only a code conflict prevents    *)
(* it, and only while a problem is left in ClueOJ.                             *)
Converges ==
  <>[](Blocked \/ (\A p \in Pks : ~Live(p)) \/ \A p \in Pks : Mirrors(p))

(* "the delete notification from the OJ is fire-and-forget and a 409/network    *)
(* drop would otherwise lose the tombstone forever" (db.ts:176-178): a problem  *)
(* deleted in ClueOJ gets its tombstone, while ClueOJ has another problem.      *)
DeletedIsTombstoned ==
  \A p, q \in Pks : (oj[p] = "deleted" /\ Live(q)) ~> (rows[p].state # "present" \/ ~Live(q))

Settled(p) ==
  Live(p) /\ rows[p].state = "present" /\ rows[p].code = oj[p] /\ oj[p] \in folders

(* "backups are what this endpoint must schedule" (routes.ts:367): once ClueOJ  *)
(* rests, every problem that is in the catalogue and has a folder got a backup  *)
(* scheduled.                                                                   *)
SettledIsScheduled == <>[](\A p \in Pks : Settled(p) => p \in asked)

(* The same of a problem that was never an orphan, or whose accounting was      *)
(* redone since: no missing, absent or outdated accounting keeps it out.        *)
AccountedIsScheduled ==
  <>[](\A p \in Pks : Settled(p) /\ rows[p].local # "orphan" => p \in asked)

-----------------------------------------------------------------------------
(* The inductive invariant behind ClaimKeepsHistory *)

(* UNIQUE(code) of the problems table. *)
CodesUnique == \A i, j \in Ids : Known(i) /\ Known(j) /\ rows[i].code = rows[j].code => i = j

(* No accounting or history without a row. *)
Blank == \A i \in Ids : ~Known(i) => rows[i] = NoRow

(* The plan of a pass names problems, whose rows never go. *)
PlanKnown ==
  /\ \A e \in pass.known : Known(e[1])
  /\ \A p \in pass.missing : Known(p)

CatalogInv == TypeOK /\ CodesUnique /\ Blank /\ PlanKnown
=============================================================================
