----------------------------- MODULE KeysetLists -----------------------------
(***************************************************************************)
(* Lists read page by page while the table changes (db.ts).  Every list of *)
(* the control plane is ordered by a key, and a page ends in a cursor made *)
(* of its last row's key; nothing on the server remembers the reader.  The *)
(* three kinds of key are                                                  *)
(*   ids     an id, ascending: problems, usage, organizations, orphans     *)
(*   newest  created_at and id, descending: snapshots, jobs, audit events  *)
(*   feed    the later of two observed_at stamps and the id, ascending:    *)
(*           the changes ClueOJ pulls (/sync/changes)                      *)
(* A stamp travels in a cursor through toRfc3339, which keeps milliseconds *)
(* of PostgreSQL's microseconds: Floor.  One list and one reader are       *)
(* modelled at a time; its kind is chosen in Init.  A row's stamp is the   *)
(* start of the transaction that wrote it (now()) or the end of the data   *)
(* plane's scan: in both cases it is older than the commit.  Two writes of *)
(* rows the feed delivers move no stamp at all: TouchUsage.                *)
(***************************************************************************)
EXTENDS Naturals, FiniteSets

CONSTANTS
  Ids,      \* ids of rows, in their order
  Writers,  \* transactions that may be open at once
  Limits,   \* page sizes a reader may ask for
  Floor,    \* a time in microseconds |-> the millisecond it falls in
  MaxTime   \* bound: microseconds, which also bounds the transactions

Times == 0..MaxTime

\* toISOString drops the digits below the millisecond.
FloorAssumption ==
  /\ Floor \in [Times -> Times]
  /\ \A t \in Times : Floor[t] <= t /\ Floor[Floor[t]] = Floor[t]
  /\ \A s, t \in Times : s <= t => Floor[s] <= Floor[t]

\* parseLimit answers at least 1.
ASSUME ListAssumption ==
  /\ Ids \subseteq Nat /\ IsFiniteSet(Ids)
  /\ Limits \subseteq Nat \ {0}
  /\ MaxTime \in Nat
  /\ FloorAssumption

Kinds == {"ids", "newest", "feed"}
Parts == {"problem", "usage"}

VARIABLES
  kind,      \* which of the lists this is
  clock,     \* PostgreSQL's clock
  rows,      \* each id's stamps: problems.observed_at (or created_at), problem_usage.observed_at
  writing,   \* open transactions
  cursor,    \* the reader's cursor
  ended,     \* the reader has seen has_more = false
  got,       \* ids whose present row the reader has
  base,      \* history: rows of the walk's first page that are still there
  ties,      \* history: the milliseconds in which this walk's pages ended
  late,      \* history: ids last written by a transaction that a page overtook
  unstamped  \* history: ids the reader had when a write that moves no stamp changed them

readerVars == <<cursor, ended, got, base, ties, late, unstamped>>
vars == <<kind, clock, rows, writing, readerVars>>

NoRow == [problem |-> 0, usage |-> 0]
NoCursor == [t |-> 0, id |-> 0, set |-> FALSE]
NoWrite == [open |-> FALSE, ids |-> {}, part |-> "problem", at |-> 0, overtaken |-> FALSE]

-----------------------------------------------------------------------------
(* Order, cursors and pages *)

Rows == {i \in Ids : rows[i].problem # 0}

\* GREATEST(p.observed_at, pu.observed_at); created_at has only the first part.
Stamp(i) == IF rows[i].usage > rows[i].problem THEN rows[i].usage ELSE rows[i].problem

\* The list of ids has no stamp in its key.
Time(i) == IF kind = "ids" THEN 0 ELSE Stamp(i)
Earlier(s, t) == IF kind = "newest" THEN s > t ELSE s < t

\* ORDER BY
Before(i, j) == Earlier(Time(i), Time(j)) \/ (Time(i) = Time(j) /\ Earlier(i, j))

Mutant_CursorAtNext(i) == [t |-> Floor[Time(i)], id |-> i + 1, set |-> TRUE]
\* The cursor that names row i as the last of a page.
CursorAt(i) == [t |-> Floor[Time(i)], id |-> i, set |-> TRUE]

Mutant_PastStampOnly(i) == ~cursor.set \/ Earlier(cursor.t, Time(i))
Mutant_PastInclusive(i) ==
  \/ ~cursor.set
  \/ Earlier(cursor.t, Time(i))
  \/ cursor.t = Time(i) /\ (i = cursor.id \/ Earlier(cursor.id, i))
\* WHERE (key) > cursor, or < for the newest first.
Past(i) ==
  \/ ~cursor.set
  \/ Earlier(cursor.t, Time(i))
  \/ cursor.t = Time(i) /\ Earlier(cursor.id, i)

Matching == {i \in Rows : Past(i)}

\* The query asks for n + 1 rows, the page is its first n.
PageRows(n) == {i \in Matching : Cardinality({j \in Matching : Before(j, i)}) < n}
HasMore(n) == Cardinality(Matching) > n
Mutant_IsFirst(i, page) == i \in page /\ \A j \in page : j = i \/ Before(i, j)
IsLast(i, page) == i \in page /\ \A j \in page : j = i \/ Before(j, i)

-----------------------------------------------------------------------------
(* Writers *)

\* A transaction starts, or a scan ends, some time after the last one: its rows
\* will bear this time.  The lists of ids and of the newest first only gain
\* rows, and a usage row belongs to a problem.
Begin(w, S, part, now) ==
  /\ clock < now /\ ~writing[w].open
  /\ part = "usage" => kind = "feed" /\ S \subseteq Rows
  /\ kind # "feed" => S \cap Rows = {} /\ \A v \in Writers : S \cap writing[v].ids = {}
  /\ clock' = now
  /\ writing' = [writing EXCEPT ![w] = [open |-> TRUE, ids |-> S, part |-> part,
                                        at |-> now, overtaken |-> FALSE]]
  /\ UNCHANGED <<kind, rows, readerVars>>

\* The rows become visible.  upsertProblemUsage and the catalogue's updates
\* overwrite the stamp with their own; a usage row of a problem that has gone
\* meanwhile violates its foreign key.
Commit(w) ==
  LET t == writing[w]
      written == IF t.part = "usage" THEN t.ids \cap Rows ELSE t.ids
  IN
  /\ t.open
  /\ rows' = [i \in Ids |-> IF i \in written THEN [rows[i] EXCEPT ![t.part] = t.at] ELSE rows[i]]
  /\ writing' = [writing EXCEPT ![w] = NoWrite]
  /\ got' = IF kind = "feed" THEN got \ written ELSE got
  /\ late' = IF t.overtaken THEN late \cup written ELSE late \ written
  /\ unstamped' = unstamped \ written
  /\ UNCHANGED <<kind, clock, cursor, ended, base, ties>>

\* The watcher's mark_stale, on an event in a problem's folder, and
\* touchProblemAccess, on a submission, change a column the feed delivers
\* (stale, last_accessed_at) of a usage row and leave its stamp.
TouchUsage(i) ==
  /\ kind = "feed" /\ i \in Rows /\ rows[i].usage # 0
  /\ got' = got \ {i}
  /\ unstamped' = unstamped \cup (got \cap {i})
  /\ UNCHANGED <<kind, clock, rows, writing, cursor, ended, base, ties, late>>

\* A row goes: the retention of jobs and snapshots, an adopted orphan.
Remove(i) ==
  /\ i \in Rows
  /\ rows' = [rows EXCEPT ![i] = NoRow]
  /\ base' = base \ {i}
  /\ late' = late \ {i}
  /\ unstamped' = unstamped \ {i}
  /\ got' = IF kind = "feed" THEN got \ {i} ELSE got
  /\ UNCHANGED <<kind, clock, writing, cursor, ended, ties>>

-----------------------------------------------------------------------------
(* The reader *)

Overtake == writing' = [w \in Writers |-> [writing[w] EXCEPT !.overtaken = writing[w].open]]

\* What the reader has, and what has been overtaken, after a page.
Deliver(page) ==
  /\ got' = got \cup page
  /\ late' = late \ page
  /\ unstamped' = unstamped \ page
  /\ base' = IF cursor.set THEN base ELSE Rows
  /\ Overtake
  /\ UNCHANGED <<kind, clock, rows>>

\* A list that ends in a page without a cursor (next_cursor: null).
WalkPage(n) ==
  /\ kind # "feed" /\ ~ended
  /\ Deliver(PageRows(n))
  /\ \/ /\ ~HasMore(n)
        /\ ended' = TRUE
        /\ UNCHANGED <<cursor, ties>>
     \/ /\ HasMore(n)
        /\ \E i \in PageRows(n) : /\ IsLast(i, PageRows(n))
                                  /\ cursor' = CursorAt(i)
                                  /\ ties' = ties \cup {CursorAt(i).t}
        /\ UNCHANGED ended

\* The client reads the list again from the start.
WalkAgain ==
  /\ kind # "feed" /\ ended
  /\ ended' = FALSE /\ cursor' = NoCursor /\ got' = {} /\ base' = {} /\ ties' = {}
  /\ UNCHANGED <<kind, clock, rows, writing, late, unstamped>>

\* ClueOJ pulls a page, processes it and commits the cursor it came with; a
\* final page has one too, an empty page leaves the old one.  A pull that dies
\* before its commit changes nothing.
Pull(n) ==
  /\ kind = "feed"
  /\ Deliver(PageRows(n))
  /\ \/ PageRows(n) = {} /\ UNCHANGED cursor
     \/ \E i \in PageRows(n) : IsLast(i, PageRows(n)) /\ cursor' = CursorAt(i)
  /\ UNCHANGED <<ended, ties>>

-----------------------------------------------------------------------------
Init ==
  /\ kind \in Kinds
  /\ clock = 0
  /\ rows = [i \in Ids |-> NoRow]
  /\ writing = [w \in Writers |-> NoWrite]
  /\ cursor = NoCursor /\ ended = FALSE /\ got = {} /\ base = {} /\ ties = {} /\ late = {}
  /\ unstamped = {}

WriterStep ==
  \/ \E w \in Writers, S \in (SUBSET Ids) \ {{}}, part \in Parts, now \in Times :
       Begin(w, S, part, now)
  \/ \E w \in Writers : Commit(w)
  \/ \E i \in Ids : TouchUsage(i) \/ Remove(i)
ReaderStep ==
  \/ \E n \in Limits : WalkPage(n) \/ Pull(n)
  \/ WalkAgain
Next == WriterStep \/ ReaderStep

Spec == Init /\ [][Next]_vars
\* ClueOJ pulls again and again.
FairSpec == Spec /\ WF_vars(\E n \in Limits : Pull(n))

-----------------------------------------------------------------------------
(* Properties *)

\* Stamps, cursors and what a reader has are of their types; the reader has a
\* cursor only from a row, and a walker keeps ids, the feed rows that exist.
TypeOK ==
  /\ kind \in Kinds
  /\ clock \in Times
  /\ rows \in [Ids -> [problem : Times, usage : Times]]
  /\ writing \in [Writers -> [open : BOOLEAN, ids : SUBSET Ids, part : Parts,
                               at : Times, overtaken : BOOLEAN]]
  /\ cursor \in [t : Times, id : Ids, set : {TRUE}] \cup {NoCursor}
  /\ ended \in BOOLEAN
  /\ got \subseteq Ids /\ base \subseteq Rows /\ ties \subseteq Times /\ late \subseteq Rows
  /\ unstamped \subseteq Rows

\* getSyncChanges: a row that ClueOJ has not in its present form is still in
\* front of its cursor, so a later pull brings it, unless the transaction that
\* wrote it was open while a page was read, or ClueOJ had the row and a write
\* that moves no stamp changed it.  The cut to milliseconds, the rows that
\* share a stamp and a page that ends among them lose nothing.
FeedCurrent ==
  kind = "feed" => \A i \in Rows : i \in got \/ Past(i) \/ i \in late \/ i \in unstamped

\* A walk that came to its end (has_more = false) has seen every row that was
\* there from its first page on, whatever was inserted or removed meanwhile.
\* Lists of the newest first except the rows of a millisecond in which one of
\* its pages ended.
WalkComplete ==
  ended => \A i \in base :
    i \in got \/ (kind = "newest" /\ Floor[Stamp(i)] \in ties)

\* No page of a walk repeats a row that an earlier page of the walk had.
WalkOnce ==
  [][\A n \in Limits : WalkPage(n) => PageRows(n) \cap got = {}]_vars

\* The feed's cursor never goes back in time, and a pull leaves it where it is
\* only if all the rows of its page are of the cursor's own millisecond.
FeedAdvances ==
  [][\A n \in Limits : Pull(n) =>
       /\ cursor'.t >= cursor.t
       /\ (cursor' = cursor => \A i \in PageRows(n) : Floor[Stamp(i)] = cursor.t)]_vars

\* Without the exceptions (each is violated, see the README): the feed skips
\* nothing, a list of the newest first misses nothing, the feed gets on.
FeedSkipsNothing == kind = "feed" => \A i \in Rows : i \in got \/ Past(i)
WalkMissesNothing == ended => base \subseteq got
FeedCatchesUp ==
  \A i \in Ids : (kind = "feed" /\ i \in Rows)
                  ~> (i \in got \/ i \notin Rows \/ i \in late \/ i \in unstamped)
=============================================================================
