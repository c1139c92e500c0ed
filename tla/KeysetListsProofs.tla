-------------------------- MODULE KeysetListsProofs --------------------------
(***************************************************************************)
(* What a reader of KeysetLists gets, for any ids, page sizes, writers and *)
(* rounding of stamps.  The argument is one fact about a page (PageClosed, *)
(* PageShift): the rows a page leaves out come after its last row, and     *)
(* rounding that row's stamp down cannot hide them from an ascending list. *)
(***************************************************************************)
EXTENDS KeysetLists, FiniteSetTheorems, TLAPS

\* Writers whose rows a feed's reader has not passed yet, and times in order.
WritesInTime ==
  /\ \A i \in Ids : rows[i].problem <= clock /\ rows[i].usage <= clock
  /\ cursor.t <= clock /\ Floor[cursor.t] = cursor.t
  /\ \A w \in Writers : writing[w].open =>
       /\ 0 < writing[w].at /\ writing[w].at <= clock
       /\ kind = "feed" /\ ~writing[w].overtaken => cursor.t < writing[w].at

\* Outside the feed an open transaction only adds rows, and rows of its own.
InsertsApart ==
  kind # "feed" => \A w \in Writers :
    /\ writing[w].ids \cap Rows = {}
    /\ \A v \in Writers : v # w => writing[w].ids \cap writing[v].ids = {}

\* A walk in progress: what it has is behind its cursor, what it has not yet
\* is in front of it, ties excepted.
WalkSplit ==
  /\ kind = "feed" => ~ended
  /\ kind # "feed" /\ ~cursor.set /\ ~ended => base = {} /\ got = {}
  /\ kind # "feed" /\ cursor.set /\ ~ended =>
       /\ \A i \in base : i \in got \/ Past(i) \/ (kind = "newest" /\ Floor[Stamp(i)] \in ties)
       /\ \A i \in got : i \in Rows \/ kind = "ids" => ~Past(i)
       /\ kind = "newest" => \A w \in Writers : \A i \in writing[w].ids :
                               i \in got => cursor.t < writing[w].at

\* The inductive invariant.
IInv == TypeOK /\ WritesInTime /\ InsertsApart /\ WalkSplit /\ FeedCurrent /\ WalkComplete

-----------------------------------------------------------------------------
(* Times and order *)

LEMMA FloorFacts ==
  ASSUME NEW t \in Times
  PROVE  /\ Floor[t] \in Times /\ Floor[t] <= t /\ Floor[Floor[t]] = Floor[t]
         /\ \A s \in Times : s <= t => Floor[s] <= Floor[t]
  BY ListAssumption DEF FloorAssumption

LEMMA TimesNat == Times \subseteq Nat /\ 0 \in Times
  BY ListAssumption DEF Times

LEMMA TimeType ==
  ASSUME TypeOK, NEW i \in Ids
  PROVE  Stamp(i) \in Times /\ Time(i) \in Times /\ Stamp(i) \in Nat /\ Time(i) \in Nat /\ i \in Nat
  BY TimesNat, ListAssumption DEF TypeOK, Stamp, Time

\* ORDER BY is a total order of the rows.
LEMMA TotalOrder ==
  ASSUME TypeOK, NEW i \in Ids, NEW j \in Ids, NEW k \in Ids
  PROVE  /\ ~Before(i, i)
         /\ Before(i, j) /\ Before(j, k) => Before(i, k)
         /\ i = j \/ Before(i, j) \/ Before(j, i)
         /\ Before(i, j) => i # j /\ ~Before(j, i)
  BY TimeType DEF Before, Earlier

LEMMA MatchingFinite == Matching \subseteq Rows /\ Rows \subseteq Ids /\ IsFiniteSet(Matching)
  <1>1. Matching \subseteq Rows /\ Rows \subseteq Ids
    BY DEF Matching, Rows
  <1>2. IsFiniteSet(Matching)
    BY <1>1, ListAssumption, FS_Subset
  <1> QED BY <1>1, <1>2

\* A page leaves nothing out before a row it has.
LEMMA PageClosed ==
  ASSUME TypeOK, NEW n \in Nat, NEW i \in PageRows(n), NEW j \in Matching, Before(j, i)
  PROVE  j \in PageRows(n)
  <1> DEFINE ahead(x) == {y \in Matching : Before(y, x)}
  <1>1. i \in Matching /\ Cardinality(ahead(i)) < n
    BY DEF PageRows
  <1>2. ahead(j) \subseteq ahead(i)
    BY <1>1, MatchingFinite, TotalOrder
  <1>3. IsFiniteSet(ahead(i))
    BY MatchingFinite, FS_Subset
  <1>4. IsFiniteSet(ahead(j)) /\ Cardinality(ahead(j)) <= Cardinality(ahead(i))
    BY <1>2, <1>3, FS_Subset
  <1>5. Cardinality(ahead(j)) \in Nat /\ Cardinality(ahead(i)) \in Nat
    BY <1>3, <1>4, FS_CardinalityType
  <1>6. Cardinality(ahead(j)) < n
    BY <1>1, <1>4, <1>5
  <1> QED BY <1>6 DEF PageRows

\* has_more = false: the page is all there was.
LEMMA LastPage ==
  ASSUME TypeOK, NEW n \in Nat, ~HasMore(n)
  PROVE  PageRows(n) = Matching
  <1> SUFFICES ASSUME NEW i \in Matching PROVE i \in PageRows(n)
    BY DEF PageRows
  <1> DEFINE ahead == {y \in Matching : Before(y, i)}
  <1>1. ahead \subseteq Matching \ {i}
    BY MatchingFinite, TotalOrder
  <1>2. IsFiniteSet(Matching \ {i}) /\ Cardinality(Matching \ {i}) = Cardinality(Matching) - 1
    BY MatchingFinite, FS_RemoveElement
  <1>3. IsFiniteSet(ahead) /\ Cardinality(ahead) <= Cardinality(Matching \ {i})
    BY <1>1, <1>2, FS_Subset
  <1>4. Cardinality(ahead) \in Nat /\ Cardinality(Matching) \in Nat
    BY <1>3, MatchingFinite, FS_CardinalityType
  <1>5. Cardinality(ahead) < n
    BY <1>2, <1>3, <1>4 DEF HasMore
  <1> QED BY <1>5 DEF PageRows

LEMMA AfterLast ==
  ASSUME TypeOK, NEW n \in Nat, NEW l, IsLast(l, PageRows(n)), NEW j \in Matching \ PageRows(n)
  PROVE  l \in Ids /\ j \in Ids /\ Before(l, j)
  <1>1. l \in PageRows(n) /\ l \in Matching
    BY DEF IsLast, PageRows
  <1>2. l \in Ids /\ j \in Ids
    BY <1>1, MatchingFinite
  <1>3. ~Before(j, l)
    BY <1>1, PageClosed
  <1> QED BY <1>1, <1>2, <1>3, TotalOrder

(* Moving the cursor *)

\* The cursor of a page's last row: its stamp is rounded down.
LEMMA NewCursor ==
  ASSUME TypeOK, NEW n \in Nat, NEW l, IsLast(l, PageRows(n)), cursor' = CursorAt(l)
  PROVE  /\ l \in Ids /\ l \in Matching /\ Past(l) /\ cursor'.id = l /\ cursor'.set
         /\ cursor'.t = Floor[Time(l)] /\ cursor'.t \in Times /\ cursor'.t \in Nat
         /\ cursor'.t <= Time(l) /\ Floor[cursor'.t] = cursor'.t
         /\ cursor' \in [t : Times, id : Ids, set : {TRUE}]
  <1>1. l \in Ids /\ l \in Matching /\ Past(l)
    BY MatchingFinite DEF IsLast, PageRows, Matching
  <1>2. Time(l) \in Times
    BY <1>1, TimeType
  <1>3. /\ Floor[Time(l)] \in Times /\ Floor[Time(l)] <= Time(l)
        /\ Floor[Floor[Time(l)]] = Floor[Time(l)]
    BY <1>2, FloorFacts
  <1> QED BY <1>1, <1>2, <1>3, TimesNat DEF CursorAt

LEMMA CursorType ==
  ASSUME TypeOK
  PROVE  cursor.t \in Times /\ cursor.t \in Nat /\ cursor.id \in Nat /\ cursor.set \in BOOLEAN
  <1>1. CASE cursor \in [t : Times, id : Ids, set : {TRUE}]
    BY <1>1, TimesNat, ListAssumption
  <1>2. CASE cursor = NoCursor
    BY <1>2, TimesNat DEF NoCursor
  <1> QED BY <1>1, <1>2 DEF TypeOK

\* The cursor moves along the order of the list, also after rounding.
LEMMA CursorMoves ==
  ASSUME TypeOK, WritesInTime, NEW n \in Nat, NEW l, IsLast(l, PageRows(n)),
         cursor' = CursorAt(l), cursor.set
  PROVE  /\ kind # "newest" => cursor.t <= cursor'.t
         /\ kind = "newest" => cursor'.t <= cursor.t
         /\ kind = "newest" /\ cursor'.t = cursor.t => l < cursor.id
  <1>1. /\ l \in Ids /\ Past(l) /\ cursor'.t = Floor[Time(l)] /\ cursor'.t <= Time(l)
        /\ cursor'.t \in Nat
    BY NewCursor
  <1>2. Time(l) \in Times /\ Time(l) \in Nat /\ l \in Nat
    BY <1>1, TimeType
  <1>3. cursor.t \in Times /\ cursor.t \in Nat /\ Floor[cursor.t] = cursor.t
    BY CursorType DEF WritesInTime
  <1>4. cursor.t <= Time(l) => cursor.t <= cursor'.t
    BY <1>1, <1>2, <1>3, FloorFacts
  <1> QED BY <1>1, <1>2, <1>3, <1>4 DEF Past, Earlier

\* Rows left out of a page are in front of the new cursor, but for the newest
\* first those that share its millisecond.
LEMMA PageShift ==
  ASSUME TypeOK, NEW n \in Nat, NEW l, IsLast(l, PageRows(n)), cursor' = CursorAt(l),
         rows' = rows, kind' = kind, kind \in Kinds, NEW j \in Matching \ PageRows(n)
  PROVE  Past(j)' \/ (kind = "newest" /\ Floor[Stamp(j)] = cursor'.t)
  <1>1. l \in Ids /\ j \in Ids /\ Before(l, j)
    BY AfterLast
  <1>2. /\ cursor'.id = l /\ cursor'.set /\ cursor'.t = Floor[Time(l)] /\ cursor'.t <= Time(l)
        /\ cursor'.t \in Nat /\ Floor[cursor'.t] = cursor'.t /\ cursor'.t \in Times
    BY NewCursor
  <1>3. /\ Time(l) \in Nat /\ Time(j) \in Nat /\ Time(j) \in Times /\ Time(l) \in Times
        /\ l \in Nat /\ j \in Nat
    BY <1>1, TimeType
  <1>4. Time(j)' = Time(j) /\ Stamp(j)' = Stamp(j)
    BY DEF Time, Stamp
  <1>5. CASE kind # "newest"
    BY <1>1, <1>2, <1>3, <1>4, <1>5 DEF Past, Before, Earlier
  <1>6. CASE kind = "newest"
    <2>1. Time(j) = Stamp(j) /\ Time(j) <= Time(l)
      BY <1>1, <1>3, <1>6 DEF Time, Before, Earlier
    <2>2. Floor[Time(j)] <= Floor[Time(l)] /\ Floor[Time(j)] \in Nat
      BY <1>3, <2>1, FloorFacts, TimesNat
    <2>3. cursor'.t <= Time(j) => cursor'.t <= Floor[Time(j)]
      BY <1>2, <1>3, FloorFacts
    <2>4. Time(j) < cursor'.t => Past(j)'
      BY <1>4, <1>6 DEF Past, Earlier
    <2> QED BY <1>2, <1>3, <1>6, <2>1, <2>2, <2>3, <2>4
  <1> QED BY <1>5, <1>6

\* A walk's page, and what was behind the cursor, is behind the new cursor.
LEMMA PageBehind ==
  ASSUME TypeOK, WritesInTime, NEW n \in Nat, NEW l, IsLast(l, PageRows(n)),
         cursor' = CursorAt(l), rows' = rows, kind' = kind, kind \in Kinds \ {"feed"},
         NEW i \in Ids, i \in PageRows(n) \/ (cursor.set /\ ~Past(i))
  PROVE  ~Past(i)'
  <1>1. l \in Ids /\ i \in Ids /\ Past(l)
    BY NewCursor, MatchingFinite
  <1>2. /\ cursor'.id = l /\ cursor'.set /\ cursor'.t = Floor[Time(l)] /\ cursor'.t <= Time(l)
        /\ cursor'.t \in Nat
    BY NewCursor
  <1>3. Time(l) \in Nat /\ Time(i) \in Nat /\ l \in Nat /\ i \in Nat /\ Time(i)' = Time(i)
    BY <1>1, TimeType DEF Time, Stamp
  <1>4. CASE i \in PageRows(n)
    <2>1. i = l \/ Before(i, l)
      BY <1>4 DEF IsLast
    <2> QED BY <1>2, <1>3, <2>1 DEF Past, Before, Earlier, Kinds, Time
  <1>5. CASE cursor.set /\ ~Past(i)
    <2>1. /\ kind # "newest" => cursor.t <= cursor'.t
          /\ kind = "newest" => cursor'.t <= cursor.t
          /\ kind = "newest" /\ cursor'.t = cursor.t => l < cursor.id
      BY <1>5, CursorMoves
    <2>2. cursor.t \in Nat /\ cursor.id \in Nat
      BY CursorType
    <2>3. CASE kind = "newest"
      BY <1>2, <1>3, <1>5, <2>1, <2>2, <2>3 DEF Past, Earlier
    <2>4. CASE kind = "ids"
      <3>1. Time(i) = 0 /\ Time(l) = 0 /\ cursor.t = 0
        BY <1>1, <1>5, <2>2, <2>4 DEF Past, Earlier, Time
      <3> QED BY <1>1, <1>2, <1>3, <1>5, <2>2, <2>4, <3>1 DEF Past, Earlier
    <2> QED BY <2>3, <2>4 DEF Kinds
  <1> QED BY <1>4, <1>5

(* The writers' steps *)

LEMMA InitInv == Init => IInv
  <1> SUFFICES ASSUME Init PROVE IInv
    OBVIOUS
  <1>1. Rows = {}
    BY DEF Init, Rows, NoRow
  <1>2. Floor[0] = 0
    <2>1. Floor[0] \in Times /\ Floor[0] <= 0
      BY FloorFacts, TimesNat
    <2>2. Floor[0] \in Nat
      BY <2>1, TimesNat
    <2> QED BY <2>1, <2>2
  <1>3. TypeOK
    BY <1>1, TimesNat DEF Init, TypeOK, NoRow, NoWrite, NoCursor, Parts
  <1>4. WritesInTime
    BY <1>2 DEF Init, WritesInTime, NoRow, NoWrite, NoCursor
  <1>5. InsertsApart
    BY DEF Init, InsertsApart, NoWrite
  <1>6. WalkSplit /\ FeedCurrent /\ WalkComplete
    BY <1>1 DEF Init, WalkSplit, FeedCurrent, WalkComplete, NoCursor
  <1> QED BY <1>3, <1>4, <1>5, <1>6 DEF IInv

\* The order of the rows and the place of the cursor depend on these alone.
LEMMA SameKeys ==
  ASSUME rows' = rows, kind' = kind
  PROVE  /\ Rows' = Rows
         /\ \A i : Stamp(i)' = Stamp(i) /\ Time(i)' = Time(i)
         /\ cursor' = cursor => \A i : Past(i)' = Past(i)
  BY DEF Rows, Stamp, Time, Past, Earlier

LEMMA BeginInv ==
  ASSUME IInv, NEW w \in Writers, NEW S \in SUBSET Ids, NEW part \in Parts, NEW now \in Times,
         Begin(w, S, part, now)
  PROVE  IInv'
  <1> USE DEF IInv
  <1>1. rows' = rows /\ kind' = kind /\ cursor' = cursor /\ ended' = ended /\ got' = got
        /\ base' = base /\ ties' = ties /\ late' = late /\ unstamped' = unstamped /\ clock' = now /\ clock < now
    BY DEF Begin, readerVars
  <1>2. /\ Rows' = Rows /\ \A i : Stamp(i)' = Stamp(i) /\ Past(i)' = Past(i)
    BY <1>1, SameKeys
  <1>3. /\ writing'[w] = [open |-> TRUE, ids |-> S, part |-> part, at |-> now, overtaken |-> FALSE]
        /\ \A v \in Writers \ {w} : writing'[v] = writing[v]
    BY DEF Begin, TypeOK
  <1>4. TypeOK'
    BY <1>1, <1>2 DEF Begin, TypeOK
  <1>5. now \in Nat /\ clock \in Nat /\ cursor.t \in Nat
    BY TimesNat, CursorType DEF TypeOK
  <1>6. WritesInTime'
    <2>1. \A i \in Ids : rows'[i].problem <= clock' /\ rows'[i].usage <= clock'
      <3> SUFFICES ASSUME NEW i \in Ids
                   PROVE  rows[i].problem <= now /\ rows[i].usage <= now
        BY <1>1
      <3>1. rows[i].problem \in Nat /\ rows[i].usage \in Nat
        BY TimesNat DEF TypeOK
      <3> QED BY <1>1, <1>5, <3>1 DEF WritesInTime
    <2>2. cursor'.t <= clock' /\ Floor[cursor'.t] = cursor'.t
      BY <1>1, <1>5 DEF WritesInTime
    <2>3. ASSUME NEW v \in Writers, writing'[v].open
          PROVE  /\ 0 < writing'[v].at /\ writing'[v].at <= clock'
                 /\ kind' = "feed" /\ ~writing'[v].overtaken => cursor'.t < writing'[v].at
      <3>1. CASE v = w
        BY <1>1, <1>3, <1>5, <3>1 DEF WritesInTime
      <3>2. CASE v # w
        <4>1. writing'[v] = writing[v] /\ writing[v].at \in Nat
          BY <1>3, <3>2, TimesNat DEF TypeOK
        <4> QED BY <1>1, <1>5, <2>3, <4>1 DEF WritesInTime
      <3> QED BY <3>1, <3>2
    <2> QED BY <2>1, <2>2, <2>3 DEF WritesInTime
  <1>7. InsertsApart'
    BY <1>1, <1>2, <1>3 DEF InsertsApart, Begin
  <1>8. WalkSplit'
    <2>1. ASSUME cursor.set, ~ended, kind = "newest", NEW v \in Writers, NEW i \in writing'[v].ids, i \in got
          PROVE  cursor.t < writing'[v].at
      BY <1>1, <1>3, <1>5, <2>1 DEF WritesInTime, WalkSplit
    <2> QED BY <1>1, <1>2, <2>1 DEF WalkSplit
  <1>9. FeedCurrent' /\ WalkComplete'
    BY <1>1, <1>2 DEF FeedCurrent, WalkComplete
  <1> QED BY <1>4, <1>6, <1>7, <1>8, <1>9

LEMMA CommitInv ==
  ASSUME IInv, NEW w \in Writers, Commit(w)
  PROVE  IInv'
  <1> USE DEF IInv
  <1> DEFINE t == writing[w]
             written == IF t.part = "usage" THEN t.ids \cap Rows ELSE t.ids
  <1>1. /\ t.open /\ t.ids \subseteq Ids /\ t.part \in Parts /\ t.at \in Times /\ t.at \in Nat
        /\ 0 < t.at /\ t.at <= clock /\ written \subseteq Ids /\ t.overtaken \in BOOLEAN
    BY TimesNat DEF Commit, TypeOK, WritesInTime
  <1>2. /\ kind' = kind /\ clock' = clock /\ cursor' = cursor /\ ended' = ended /\ base' = base /\ ties' = ties
        /\ rows' = [i \in Ids |-> IF i \in written THEN [rows[i] EXCEPT ![t.part] = t.at] ELSE rows[i]]
        /\ writing' = [writing EXCEPT ![w] = NoWrite]
        /\ got' = IF kind = "feed" THEN got \ written ELSE got
        /\ late' = IF t.overtaken THEN late \cup written ELSE late \ written
        /\ unstamped' = unstamped \ written
    BY DEF Commit
  <1>3. /\ writing'[w] = NoWrite
        /\ \A v \in Writers \ {w} : writing'[v] = writing[v]
    BY <1>2 DEF TypeOK
  <1>4. \A i \in Ids \ written : /\ rows'[i] = rows[i] /\ (i \in Rows' <=> i \in Rows)
                               /\ Stamp(i)' = Stamp(i) /\ Past(i)' = Past(i)
    <2> SUFFICES ASSUME NEW i \in Ids \ written
                 PROVE  /\ rows'[i] = rows[i] /\ (i \in Rows' <=> i \in Rows)
                        /\ Stamp(i)' = Stamp(i) /\ Past(i)' = Past(i)
      OBVIOUS
    <2>1. rows'[i] = rows[i]
      BY <1>2
    <2>2. (i \in Rows' <=> i \in Rows) /\ Stamp(i)' = Stamp(i)
      BY <2>1 DEF Rows, Stamp
    <2>3. Past(i)' = Past(i)
      BY <1>2, <2>2 DEF Past, Earlier, Time
    <2> QED BY <2>1, <2>2, <2>3
  <1>5. \A i \in written : i \in Rows' /\ Stamp(i)' \in Nat /\ t.at <= Stamp(i)'
    <2> SUFFICES ASSUME NEW i \in written
                 PROVE  i \in Rows' /\ Stamp(i)' \in Nat /\ t.at <= Stamp(i)'
      OBVIOUS
    <2>1. rows'[i] = [rows[i] EXCEPT ![t.part] = t.at] /\ i \in Ids
          /\ rows[i] \in [problem : Times, usage : Times]
      BY <1>1, <1>2 DEF TypeOK
    <2>2. CASE t.part = "problem"
      <3>1. rows'[i].problem = t.at /\ rows'[i].usage = rows[i].usage /\ rows[i].usage \in Nat
        BY <2>1, <2>2, TimesNat
      <3> QED BY <1>1, <2>1, <3>1 DEF Rows, Stamp
    <2>3. CASE t.part = "usage"
      <3>1. rows'[i].usage = t.at /\ rows'[i].problem = rows[i].problem /\ rows[i].problem \in Nat
        BY <2>1, <2>3, TimesNat
      <3>2. i \in Rows
        BY <2>3
      <3> QED BY <1>1, <2>1, <3>1, <3>2 DEF Rows, Stamp
    <2> QED BY <1>1, <2>2, <2>3 DEF Parts
  <1>6. Rows \subseteq Rows' /\ Rows' = Rows \cup written
    BY <1>1, <1>4, <1>5 DEF Rows
  <1>7. TypeOK'
    <2>1. rows' \in [Ids -> [problem : Times, usage : Times]]
      BY <1>1, <1>2 DEF TypeOK, Parts
    <2>2. writing' \in [Writers -> [open : BOOLEAN, ids : SUBSET Ids, part : Parts,
                                    at : Times, overtaken : BOOLEAN]]
      BY <1>2, TimesNat DEF TypeOK, NoWrite, Parts
    <2>3. got' \subseteq Ids /\ base' \subseteq Rows' /\ late' \subseteq Rows' /\ unstamped' \subseteq Rows'
      BY <1>2, <1>6 DEF TypeOK
    <2> QED BY <1>2, <2>1, <2>2, <2>3 DEF TypeOK
  <1>8. WritesInTime'
    <2>1. ASSUME NEW i \in Ids PROVE rows'[i].problem <= clock /\ rows'[i].usage <= clock
      <3>1. rows[i] \in [problem : Times, usage : Times]
        BY DEF TypeOK
      <3>2. CASE i \in written /\ t.part = "problem"
        BY <1>1, <1>2, <3>1, <3>2 DEF WritesInTime
      <3>3. CASE i \in written /\ t.part = "usage"
        BY <1>1, <1>2, <3>1, <3>3 DEF WritesInTime
      <3>4. CASE i \notin written
        BY <1>2, <3>4 DEF WritesInTime
      <3> QED BY <1>1, <3>2, <3>3, <3>4 DEF Parts
    <2>2. ASSUME NEW v \in Writers, writing'[v].open
          PROVE  v # w
      BY <1>3, <2>2 DEF NoWrite
    <2> QED BY <1>2, <1>3, <2>1, <2>2 DEF WritesInTime
  <1>9. kind # "feed" => written \cap Rows = {} /\ got' = got
    BY <1>1, <1>2 DEF InsertsApart
  <1>10. InsertsApart'
    <2>1. kind # "feed" => \A v \in Writers \ {w} : writing[v].ids \cap written = {}
      BY DEF InsertsApart
    <2> QED BY <1>2, <1>3, <1>6, <2>1 DEF InsertsApart, NoWrite
  <1>11. kind # "feed" => \A i \in base : Stamp(i)' = Stamp(i) /\ Past(i)' = Past(i)
    BY <1>4, <1>9 DEF TypeOK, Rows
  <1>12. WalkSplit'
    <2>1. ASSUME kind # "feed", cursor.set, ~ended, NEW i \in got, i \in Rows' \/ kind = "ids"
          PROVE  ~Past(i)'
      <3>1. CASE i \notin written
        BY <1>4, <2>1, <3>1 DEF WalkSplit, TypeOK
      <3>2. CASE i \in written /\ kind = "newest"
        <4>1. cursor.t < t.at /\ cursor.t \in Nat
          BY <2>1, <3>2, CursorType DEF WalkSplit
        <4>2. cursor.t < Stamp(i)' /\ Time(i)' = Stamp(i)'
          BY <1>1, <1>2, <1>5, <3>2, <4>1 DEF Time
        <4> QED BY <1>2, <1>5, <2>1, <3>2, <4>1, <4>2 DEF Past, Earlier
      <3>3. CASE kind = "ids"
        <4>1. Past(i)' = Past(i)
          BY <1>2, <3>3 DEF Past, Earlier, Time
        <4> QED BY <2>1, <3>3, <4>1 DEF WalkSplit
      <3> QED BY <2>1, <3>1, <3>2, <3>3 DEF TypeOK, Kinds
    <2>2. ASSUME kind = "newest", cursor.set, ~ended, NEW v \in Writers, NEW i \in writing'[v].ids, i \in got
          PROVE  cursor.t < writing'[v].at
      BY <1>3, <2>2 DEF WalkSplit, NoWrite
    <2> QED BY <1>2, <1>9, <1>11, <2>1, <2>2 DEF WalkSplit
  <1>13. FeedCurrent'
    <2> SUFFICES ASSUME kind = "feed", NEW i \in Rows'
                 PROVE  i \in got' \/ Past(i)' \/ i \in late' \/ i \in unstamped'
      BY <1>2 DEF FeedCurrent
    <2>0. i \in Ids
      BY DEF Rows
    <2>1. CASE i \notin written
      BY <1>2, <1>4, <2>0, <2>1 DEF FeedCurrent
    <2>2. CASE i \in written /\ t.overtaken
      BY <1>2, <2>2
    <2>3. CASE i \in written /\ ~t.overtaken
      <3>1. cursor.t < t.at /\ cursor.t \in Nat
        BY <1>1, <2>3, CursorType DEF WritesInTime
      <3>2. cursor.t < Stamp(i)' /\ Time(i)' = Stamp(i)'
        BY <1>1, <1>2, <1>5, <2>3, <3>1 DEF Time
      <3> QED BY <1>2, <3>1, <3>2 DEF Past, Earlier
    <2> QED BY <1>1, <2>1, <2>2, <2>3
  <1>14. WalkComplete'
    BY <1>2, <1>9, <1>11 DEF WalkComplete, WalkSplit
  <1> QED BY <1>7, <1>8, <1>10, <1>12, <1>13, <1>14

LEMMA RemoveInv ==
  ASSUME IInv, NEW k \in Ids, Remove(k)
  PROVE  IInv'
  <1> USE DEF IInv
  <1>1. /\ k \in Rows /\ kind' = kind /\ clock' = clock /\ cursor' = cursor /\ ended' = ended
        /\ ties' = ties /\ writing' = writing /\ rows' = [rows EXCEPT ![k] = NoRow]
        /\ base' = base \ {k} /\ late' = late \ {k} /\ unstamped' = unstamped \ {k}
        /\ got' = IF kind = "feed" THEN got \ {k} ELSE got
    BY DEF Remove
  <1>2. rows'[k] = NoRow /\ \A i \in Ids \ {k} : rows'[i] = rows[i]
    BY <1>1 DEF TypeOK
  <1>3. Rows' = Rows \ {k}
    BY <1>2 DEF Rows, NoRow
  <1>4. \A i \in Ids \ {k} : Stamp(i)' = Stamp(i) /\ Past(i)' = Past(i)
    <2> SUFFICES ASSUME NEW i \in Ids \ {k} PROVE Stamp(i)' = Stamp(i) /\ Past(i)' = Past(i)
      OBVIOUS
    <2>1. Stamp(i)' = Stamp(i)
      BY <1>2 DEF Stamp
    <2> QED BY <1>1, <2>1 DEF Past, Earlier, Time
  <1>5. TypeOK'
    <2>1. rows' \in [Ids -> [problem : Times, usage : Times]]
      BY <1>1, TimesNat DEF TypeOK, NoRow
    <2> QED BY <1>1, <1>3, <2>1 DEF TypeOK
  <1>6. WritesInTime'
    <2>1. clock \in Nat /\ NoRow.problem <= clock /\ NoRow.usage <= clock
      BY TimesNat DEF TypeOK, NoRow
    <2> QED BY <1>1, <1>2, <2>1 DEF WritesInTime
  <1>7. InsertsApart'
    BY <1>1, <1>3 DEF InsertsApart
  <1>8. WalkSplit'
    <2>1. ASSUME kind = "ids", cursor.set, ~ended, NEW i \in got PROVE ~Past(i)'
      <3>1. Past(i)' = Past(i)
        BY <1>1, <2>1 DEF Past, Earlier, Time
      <3> QED BY <2>1, <3>1 DEF WalkSplit
    <2>2. \A i \in base' : i \in Ids \ {k}
      BY <1>1 DEF TypeOK, Rows
    <2>3. \A i \in Rows' : i \in Ids \ {k} /\ i \in Rows
      BY <1>3 DEF Rows
    <2> QED BY <1>1, <1>4, <2>1, <2>2, <2>3 DEF WalkSplit
  <1>9. FeedCurrent' /\ WalkComplete'
    <2>1. \A i \in base' \cup Rows' : i \in Ids \ {k} /\ i \in Rows
      BY <1>1, <1>3 DEF TypeOK, Rows
    <2>2. FeedCurrent'
      BY <1>1, <1>3, <1>4, <2>1 DEF FeedCurrent
    <2>3. WalkComplete'
      BY <1>1, <1>4, <2>1 DEF WalkComplete, WalkSplit
    <2> QED BY <2>2, <2>3
  <1> QED BY <1>5, <1>6, <1>7, <1>8, <1>9

\* A write without a stamp: the row stays where it was, and is excepted.
LEMMA TouchInv ==
  ASSUME IInv, NEW k \in Ids, TouchUsage(k)
  PROVE  IInv'
  <1> USE DEF IInv
  <1>1. /\ kind = "feed" /\ k \in Rows /\ got' = got \ {k}
        /\ unstamped' = unstamped \cup (got \cap {k})
        /\ kind' = kind /\ clock' = clock /\ rows' = rows /\ writing' = writing
        /\ cursor' = cursor /\ ended' = ended /\ base' = base /\ ties' = ties /\ late' = late
    BY DEF TouchUsage
  <1>2. Rows' = Rows /\ \A i : Past(i)' = Past(i)
    BY <1>1, SameKeys
  <1>3. TypeOK'
    BY <1>1, <1>2 DEF TypeOK
  <1>4. WritesInTime' /\ InsertsApart' /\ WalkSplit' /\ WalkComplete'
    BY <1>1 DEF WritesInTime, InsertsApart, WalkSplit, WalkComplete
  <1>5. FeedCurrent'
    BY <1>1, <1>2 DEF FeedCurrent
  <1> QED BY <1>3, <1>4, <1>5

-----------------------------------------------------------------------------
(* The reader's steps *)

\* What every page does to the writers and the history.
LEMMA DeliverFacts ==
  ASSUME IInv, NEW n \in Nat, Deliver(PageRows(n))
  PROVE  /\ rows' = rows /\ kind' = kind /\ clock' = clock
         /\ Rows' = Rows /\ \A i : Stamp(i)' = Stamp(i)
         /\ PageRows(n) \subseteq Matching /\ Matching \subseteq Rows /\ Rows \subseteq Ids
         /\ writing' \in [Writers -> [open : BOOLEAN, ids : SUBSET Ids, part : Parts,
                                      at : Times, overtaken : BOOLEAN]]
         /\ \A w \in Writers : /\ writing'[w].open = writing[w].open /\ writing'[w].ids = writing[w].ids
                               /\ writing'[w].at = writing[w].at /\ writing'[w].overtaken = writing[w].open
         /\ got' \subseteq Ids /\ base' \subseteq Rows' /\ late' \subseteq Rows'
         /\ unstamped' \subseteq Rows' /\ InsertsApart'
  <1> USE DEF IInv
  <1>1. rows' = rows /\ kind' = kind /\ clock' = clock
    BY DEF Deliver
  <1>2. Rows' = Rows /\ \A i : Stamp(i)' = Stamp(i)
    BY <1>1, SameKeys
  <1>3. PageRows(n) \subseteq Matching /\ Matching \subseteq Rows /\ Rows \subseteq Ids
    BY MatchingFinite DEF PageRows
  <1>4. writing' = [w \in Writers |-> [writing[w] EXCEPT !.overtaken = writing[w].open]]
    BY DEF Deliver, Overtake
  <1>5. \A w \in Writers : writing[w] \in [open : BOOLEAN, ids : SUBSET Ids, part : Parts,
                                          at : Times, overtaken : BOOLEAN]
    BY DEF TypeOK
  <1>6. writing' \in [Writers -> [open : BOOLEAN, ids : SUBSET Ids, part : Parts,
                                 at : Times, overtaken : BOOLEAN]]
    BY <1>4, <1>5
  <1>7. \A w \in Writers :
          /\ writing'[w].open = writing[w].open /\ writing'[w].ids = writing[w].ids
          /\ writing'[w].at = writing[w].at /\ writing'[w].overtaken = writing[w].open
    BY <1>4, <1>5
  <1>8. /\ got' \subseteq Ids /\ base' \subseteq Rows' /\ late' \subseteq Rows'
        /\ unstamped' \subseteq Rows'
    BY <1>2, <1>3 DEF Deliver, TypeOK
  <1>9. InsertsApart'
    BY <1>1, <1>2, <1>7 DEF InsertsApart
  <1> QED BY <1>1, <1>2, <1>3, <1>6, <1>7, <1>8, <1>9

\* The new cursor is not ahead of the clock, and every open write is overtaken.
LEMMA PageInTime ==
  ASSUME IInv, NEW n \in Nat, Deliver(PageRows(n)),
         \/ cursor' = cursor
         \/ \E l \in PageRows(n) : IsLast(l, PageRows(n)) /\ cursor' = CursorAt(l)
  PROVE  WritesInTime' /\ cursor' \in [t : Times, id : Ids, set : {TRUE}] \cup {NoCursor}
  <1> USE DEF IInv
  <1>1. /\ rows' = rows /\ kind' = kind /\ clock' = clock
        /\ \A w \in Writers : /\ writing'[w].open = writing[w].open
                              /\ writing'[w].at = writing[w].at /\ writing'[w].overtaken = writing[w].open
    BY DeliverFacts
  <1>2. /\ cursor'.t <= clock /\ Floor[cursor'.t] = cursor'.t
        /\ cursor' \in [t : Times, id : Ids, set : {TRUE}] \cup {NoCursor}
    <2>1. CASE cursor' = cursor
      BY <2>1 DEF WritesInTime, TypeOK
    <2>2. ASSUME NEW l \in PageRows(n), IsLast(l, PageRows(n)), cursor' = CursorAt(l)
          PROVE  /\ cursor'.t <= clock /\ Floor[cursor'.t] = cursor'.t
                 /\ cursor' \in [t : Times, id : Ids, set : {TRUE}] \cup {NoCursor}
      <3>1. /\ l \in Ids /\ cursor'.t <= Time(l) /\ cursor'.t \in Nat /\ Floor[cursor'.t] = cursor'.t
            /\ cursor' \in [t : Times, id : Ids, set : {TRUE}]
        BY <2>2, NewCursor
      <3>2. rows[l].problem <= clock /\ rows[l].usage <= clock /\ clock \in Nat
        BY <3>1, TimesNat DEF WritesInTime, TypeOK
      <3>3. Time(l) <= clock /\ Time(l) \in Nat
        BY <3>1, <3>2, TimeType DEF Time, Stamp
      <3>4. cursor'.t <= clock
        BY <3>1, <3>2, <3>3
      <3> QED BY <3>1, <3>4
    <2> QED BY <2>1, <2>2
  <1>3. \A w \in Writers : writing'[w].open =>
          /\ 0 < writing'[w].at /\ writing'[w].at <= clock'
          /\ kind' = "feed" /\ ~writing'[w].overtaken => cursor'.t < writing'[w].at
    BY <1>1 DEF WritesInTime
  <1> QED BY <1>1, <1>2, <1>3 DEF WritesInTime

LEMMA WalkEnds ==
  ASSUME IInv, NEW n \in Limits, kind # "feed", ~ended, Deliver(PageRows(n)), ~HasMore(n),
         ended' = TRUE, UNCHANGED <<cursor, ties>>
  PROVE  IInv'
  <1> USE DEF IInv
  <1>0. n \in Nat
    BY ListAssumption
  <1>1. /\ rows' = rows /\ kind' = kind /\ clock' = clock /\ cursor' = cursor /\ ties' = ties
        /\ Rows' = Rows /\ \A i : Stamp(i)' = Stamp(i)
        /\ got' = got \cup PageRows(n) /\ base' = IF cursor.set THEN base ELSE Rows
    BY <1>0, DeliverFacts DEF Deliver
  <1>2. TypeOK'
    BY <1>0, <1>1, DeliverFacts DEF TypeOK
  <1>3. WritesInTime' /\ InsertsApart'
    BY <1>0, <1>1, PageInTime, DeliverFacts
  <1>4. PageRows(n) = Matching
    BY <1>0, LastPage
  <1>5. WalkComplete'
    <2>1. \A i \in base' : i \in got \/ i \in Matching \/ (kind = "newest" /\ Floor[Stamp(i)] \in ties)
      BY <1>1 DEF WalkSplit, Matching, Past, TypeOK
    <2> QED BY <1>1, <1>4, <2>1 DEF WalkComplete
  <1>6. WalkSplit' /\ FeedCurrent'
    BY <1>1 DEF WalkSplit, FeedCurrent
  <1> QED BY <1>2, <1>3, <1>5, <1>6

LEMMA WalkGoesOn ==
  ASSUME IInv, NEW n \in Limits, kind # "feed", ~ended, Deliver(PageRows(n)),
         NEW l \in PageRows(n), IsLast(l, PageRows(n)), cursor' = CursorAt(l),
         ties' = ties \cup {CursorAt(l).t}, ended' = ended
  PROVE  IInv'
  <1> USE DEF IInv
  <1>0. n \in Nat /\ kind \in Kinds
    BY ListAssumption DEF TypeOK
  <1>1. /\ rows' = rows /\ kind' = kind /\ clock' = clock
        /\ Rows' = Rows /\ \A i : Stamp(i)' = Stamp(i)
        /\ got' = got \cup PageRows(n) /\ base' = IF cursor.set THEN base ELSE Rows
        /\ ties' = ties \cup {cursor'.t}
        /\ PageRows(n) \subseteq Matching /\ Matching \subseteq Rows /\ Rows \subseteq Ids
        /\ \A w \in Writers : writing'[w].ids = writing[w].ids /\ writing'[w].at = writing[w].at
    BY <1>0, DeliverFacts DEF Deliver
  <1>2. cursor'.set /\ cursor'.t \in Times
    BY <1>0, NewCursor
  <1>3. WritesInTime' /\ InsertsApart' /\ cursor' \in [t : Times, id : Ids, set : {TRUE}] \cup {NoCursor}
    BY <1>0, PageInTime, DeliverFacts
  <1>4. TypeOK'
    BY <1>0, <1>1, <1>2, <1>3, DeliverFacts DEF TypeOK
  <1>5. ~cursor.set => got = {} /\ Matching = Rows
    BY DEF WalkSplit, Matching, Past
  <1>6. WalkSplit'
    <2>1. ASSUME NEW i \in base'
          PROVE  i \in got' \/ Past(i)' \/ (kind = "newest" /\ Floor[Stamp(i)] \in ties')
      <3>1. i \in got \/ i \in Matching \/ (kind = "newest" /\ Floor[Stamp(i)] \in ties)
        BY <1>1, <1>5 DEF WalkSplit, Matching, TypeOK
      <3>2. CASE i \in Matching \ PageRows(n)
        BY <1>0, <1>1, <3>2, PageShift
      <3> QED BY <1>1, <3>1, <3>2
    <2>2. ASSUME NEW i \in got', i \in Rows \/ kind = "ids"
          PROVE  ~Past(i)'
      <3>1. i \in Ids /\ (i \in PageRows(n) \/ (cursor.set /\ ~Past(i)))
        BY <1>1, <1>5, <2>2 DEF WalkSplit, TypeOK
      <3> QED BY <1>0, <1>1, <3>1, PageBehind
    <2>3. ASSUME kind = "newest", NEW w \in Writers, NEW i \in writing[w].ids, i \in got'
          PROVE  cursor'.t < writing[w].at
      <3>1. i \in got /\ cursor.set
        BY <1>1, <1>5, <2>3 DEF InsertsApart
      <3>2. cursor.t < writing[w].at /\ cursor'.t <= cursor.t
        BY <1>0, <2>3, <3>1, CursorMoves DEF WalkSplit
      <3>3. cursor.t \in Nat /\ cursor'.t \in Nat /\ writing[w].at \in Nat
        BY <1>2, TimesNat, CursorType DEF TypeOK
      <3> QED BY <3>2, <3>3
    <2> QED BY <1>1, <1>2, <2>1, <2>2, <2>3 DEF WalkSplit
  <1>7. FeedCurrent' /\ WalkComplete'
    BY <1>1 DEF FeedCurrent, WalkComplete
  <1> QED BY <1>3, <1>4, <1>6, <1>7

LEMMA WalkAgainInv ==
  ASSUME IInv, WalkAgain
  PROVE  IInv'
  <1> USE DEF IInv, WalkAgain
  <1>1. Rows' = Rows
    BY SameKeys
  <1>2. TypeOK'
    BY <1>1 DEF TypeOK
  <1>3. Floor[0] = 0 /\ 0 <= clock
    <2>1. Floor[0] \in Times /\ Floor[0] <= 0
      BY FloorFacts, TimesNat
    <2>2. Floor[0] \in Nat /\ clock \in Nat
      BY <2>1, TimesNat DEF TypeOK
    <2> QED BY <2>1, <2>2
  <1>4. WritesInTime'
    BY <1>3 DEF WritesInTime, NoCursor
  <1>5. InsertsApart' /\ WalkSplit' /\ FeedCurrent' /\ WalkComplete'
    BY <1>1 DEF InsertsApart, WalkSplit, FeedCurrent, WalkComplete, NoCursor
  <1> QED BY <1>2, <1>4, <1>5

LEMMA PullInv ==
  ASSUME IInv, NEW n \in Limits, Pull(n)
  PROVE  IInv'
  <1> USE DEF IInv
  <1>0. n \in Nat /\ kind \in Kinds /\ kind = "feed" /\ Deliver(PageRows(n))
    BY ListAssumption DEF TypeOK, Pull
  <1>1. /\ rows' = rows /\ kind' = kind /\ clock' = clock /\ ended' = ended /\ ties' = ties
        /\ Rows' = Rows
        /\ got' = got \cup PageRows(n) /\ late' = late \ PageRows(n)
        /\ unstamped' = unstamped \ PageRows(n)
    BY <1>0, DeliverFacts DEF Deliver, Pull
  <1>2. \/ PageRows(n) = {} /\ cursor' = cursor
        \/ \E l \in PageRows(n) : IsLast(l, PageRows(n)) /\ cursor' = CursorAt(l)
    BY DEF Pull
  <1>3. WritesInTime' /\ InsertsApart' /\ cursor' \in [t : Times, id : Ids, set : {TRUE}] \cup {NoCursor}
    BY <1>0, <1>2, PageInTime, DeliverFacts
  <1>4. TypeOK'
    BY <1>0, <1>1, <1>3, DeliverFacts DEF TypeOK
  <1>5. FeedCurrent'
    <2> SUFFICES ASSUME NEW i \in Rows
                 PROVE  i \in got' \/ Past(i)' \/ i \in late' \/ i \in unstamped'
      BY <1>1 DEF FeedCurrent
    <2>1. CASE i \in got \/ i \in PageRows(n) \/ i \in late \/ i \in unstamped
      BY <1>1, <2>1
    <2>2. CASE Past(i) /\ i \notin PageRows(n)
      <3>1. i \in Matching \ PageRows(n)
        BY <2>2 DEF Matching
      <3>2. CASE cursor' = cursor
        BY <1>1, <2>2, <3>2, SameKeys
      <3>3. ASSUME NEW l \in PageRows(n), IsLast(l, PageRows(n)), cursor' = CursorAt(l)
            PROVE  Past(i)'
        BY <1>0, <1>1, <3>1, <3>3, PageShift
      <3> QED BY <1>2, <3>2, <3>3
    <2> QED BY <1>0, <2>1, <2>2 DEF FeedCurrent
  <1>6. WalkSplit' /\ WalkComplete'
    BY <1>0, <1>1 DEF WalkSplit, WalkComplete
  <1> QED BY <1>3, <1>4, <1>5, <1>6

(* Theorems *)

LEMMA NextInv == IInv /\ [Next]_vars => IInv'
  <1> SUFFICES ASSUME IInv, [Next]_vars PROVE IInv'
    OBVIOUS
  <1>1. ASSUME NEW w \in Writers, NEW S \in (SUBSET Ids) \ {{}}, NEW part \in Parts, NEW now \in Times,
               Begin(w, S, part, now)
        PROVE  IInv'
    BY <1>1, BeginInv
  <1>2. ASSUME NEW w \in Writers, Commit(w) PROVE IInv'
    BY <1>2, CommitInv
  <1>3. ASSUME NEW i \in Ids, TouchUsage(i) \/ Remove(i) PROVE IInv'
    BY <1>3, TouchInv, RemoveInv
  <1>4. ASSUME NEW n \in Limits, WalkPage(n) PROVE IInv'
    <2>1. kind # "feed" /\ ~ended /\ Deliver(PageRows(n))
      BY <1>4 DEF WalkPage
    <2>2. CASE ~HasMore(n) /\ ended' = TRUE /\ UNCHANGED <<cursor, ties>>
      BY <2>1, <2>2, WalkEnds
    <2>3. ASSUME NEW l \in PageRows(n), IsLast(l, PageRows(n)), cursor' = CursorAt(l),
                 ties' = ties \cup {CursorAt(l).t}, ended' = ended
          PROVE  IInv'
      BY <2>1, <2>3, WalkGoesOn
    <2> QED BY <1>4, <2>2, <2>3 DEF WalkPage
  <1>5. ASSUME NEW n \in Limits, Pull(n) PROVE IInv'
    BY <1>5, PullInv
  <1>6. CASE WalkAgain
    BY <1>6, WalkAgainInv
  <1>7. CASE UNCHANGED vars
    <2>1. Rows' = Rows /\ \A i : Stamp(i)' = Stamp(i) /\ Past(i)' = Past(i)
      BY <1>7, SameKeys DEF vars, readerVars
    <2> QED
      BY <1>7, <2>1 DEF vars, readerVars, IInv, TypeOK, WritesInTime, InsertsApart, WalkSplit,
                        FeedCurrent, WalkComplete
  <1> QED BY <1>1, <1>2, <1>3, <1>4, <1>5, <1>6, <1>7 DEF Next, WriterStep, ReaderStep

\* The inductive invariant holds of every list, whatever the ids, the page
\* sizes, the transactions and the precision a cursor loses.
THEOREM InductiveInvariant == Spec => []IInv
  BY InitInv, NextInv, PTL DEF Spec

\* Rows, cursors, transactions and what the reader has are of their types.
THEOREM TypeCorrect == Spec => []TypeOK
  BY InductiveInvariant, PTL DEF IInv

\* /sync/changes: ClueOJ has the present form of every problem behind its
\* cursor, save those whose last write was open while it read a page and those
\* it had that were changed since without a stamp (mark_stale,
\* touchProblemAccess).
THEOREM FeedLosesOvertakenOrUnstamped == Spec => []FeedCurrent
  BY InductiveInvariant, PTL DEF IInv

\* A list read to its end has shown every row that was there all along, save,
\* newest first, rows that share a millisecond with the last row of a page.
THEOREM WalksAreComplete == Spec => []WalkComplete
  BY InductiveInvariant, PTL DEF IInv

\* Pages of one walk are disjoint.
THEOREM WalksRepeatNothing == Spec => WalkOnce
  <1>1. IInv /\ [Next]_vars =>
          [\A n \in Limits : WalkPage(n) => PageRows(n) \cap got = {}]_vars
    <2> SUFFICES ASSUME IInv, NEW n \in Limits, WalkPage(n)
                 PROVE  PageRows(n) \cap got = {}
      OBVIOUS
    <2>1. kind # "feed" /\ ~ended
      BY DEF WalkPage
    <2>2. \A i \in PageRows(n) : i \in Rows /\ Past(i)
      BY DEF PageRows, Matching
    <2>3. ~cursor.set => got = {}
      BY <2>1 DEF IInv, WalkSplit
    <2>4. cursor.set => \A i \in got : i \in Rows => ~Past(i)
      BY <2>1 DEF IInv, WalkSplit
    <2> QED BY <2>2, <2>3, <2>4
  <1> QED BY <1>1, InductiveInvariant, PTL DEF Spec, WalkOnce

\* A pull never moves the cursor back, and one that does not move it has read
\* rows of a single millisecond only.
THEOREM FeedMovesOn == Spec => FeedAdvances
  <1>1. IInv /\ [Next]_vars =>
          [\A n \in Limits : Pull(n) =>
             /\ cursor'.t >= cursor.t
             /\ (cursor' = cursor => \A i \in PageRows(n) : Floor[Stamp(i)] = cursor.t)]_vars
    <2> SUFFICES ASSUME IInv, NEW n \in Limits, Pull(n)
                 PROVE  /\ cursor'.t >= cursor.t
                        /\ (cursor' = cursor => \A i \in PageRows(n) : Floor[Stamp(i)] = cursor.t)
      OBVIOUS
    <2>0. TypeOK /\ WritesInTime /\ n \in Nat /\ kind = "feed" /\ cursor.t \in Nat /\ cursor.t \in Times
      BY ListAssumption, CursorType DEF IInv, Pull
    <2>1. CASE PageRows(n) = {} /\ cursor' = cursor
      BY <2>0, <2>1
    <2>2. ASSUME NEW l \in PageRows(n), IsLast(l, PageRows(n)), cursor' = CursorAt(l)
          PROVE  /\ cursor'.t >= cursor.t
                 /\ (cursor' = cursor => \A i \in PageRows(n) : Floor[Stamp(i)] = cursor.t)
      <3>1. l \in Ids /\ cursor'.t = Floor[Time(l)] /\ cursor'.t \in Nat /\ cursor'.set
        BY <2>0, <2>2, NewCursor
      <3>2. cursor.set => cursor.t <= cursor'.t
        BY <2>0, <2>2, CursorMoves
      <3>3. cursor.set \/ cursor.t = 0
        <4>1. CASE cursor = NoCursor
          BY <4>1 DEF NoCursor
        <4>2. CASE cursor \in [t : Times, id : Ids, set : {TRUE}]
          BY <4>2
        <4> QED BY <2>0, <4>1, <4>2 DEF TypeOK
      <3>4. ASSUME cursor' = cursor, NEW i \in PageRows(n) PROVE Floor[Stamp(i)] = cursor.t
        <4>1. i \in Ids /\ Past(i) /\ cursor.set /\ cursor.t = Floor[Time(l)]
          BY <3>1, <3>4, MatchingFinite DEF PageRows, Matching
        <4>2. /\ Time(i) \in Times /\ Time(l) \in Times /\ Time(i) \in Nat /\ Time(l) \in Nat
              /\ Stamp(i) = Time(i)
          BY <2>0, <3>1, <4>1, TimeType DEF Time
        <4>3. cursor.t <= Time(i) /\ Floor[cursor.t] = cursor.t
          BY <2>0, <4>1, <4>2 DEF Past, Earlier, WritesInTime
        <4>4. Time(i) <= Time(l)
          BY <2>0, <2>2, <4>2 DEF IsLast, Before, Earlier
        <4>5. cursor.t <= Floor[Time(i)] /\ Floor[Time(i)] <= Floor[Time(l)] /\ Floor[Time(i)] \in Nat
          <5>1. Floor[cursor.t] <= Floor[Time(i)]
            BY <2>0, <4>2, <4>3, FloorFacts
          <5>2. Floor[Time(i)] <= Floor[Time(l)]
            BY <4>2, <4>4, FloorFacts
          <5>3. Floor[Time(i)] \in Times
            BY <4>2, FloorFacts
          <5> QED BY <4>3, <5>1, <5>2, <5>3, TimesNat
        <4> QED BY <2>0, <4>1, <4>2, <4>5
      <3> QED BY <2>0, <3>1, <3>2, <3>3, <3>4
    <2> QED BY <2>1, <2>2 DEF Pull
  <1> QED BY <1>1, InductiveInvariant, PTL DEF Spec, FeedAdvances
=============================================================================
