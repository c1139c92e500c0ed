---------------------------- MODULE CatalogProofs ----------------------------
(* Proofs about Catalog, for every value of the constants: types, one row    *)
(* per code, and that a claim of an orphan's code takes the orphan's records *)
(* and accounting along.                                                     *)
EXTENDS Catalog, FiniteSetTheorems, TLAPS

USE CatalogAssumption

-----------------------------------------------------------------------------
(* The problems table *)

States == {"none", "present", "deleted", "orphan"}
Locals == {"none", "present", "missing", "orphan"}

\* What the invariant says of the table alone.
RowsInv ==
  /\ rows \in [Ids -> Row]
  /\ \A c \in Codes : Known(c) => rows[c].state = "orphan" /\ rows[c].code = c
  /\ \A p \in Pks : rows[p].state # "orphan"
  /\ CodesUnique /\ Blank

\* A problem's own row never goes.
ProblemsStay == \A p \in Pks : Known(p) => Known(p)'

LEMMA NoRowType == NoRow \in Row
  BY DEF NoRow, Row

LEMMA RowOf ==
  ASSUME RowsInv, NEW i \in Ids
  PROVE  /\ rows[i] \in Row /\ rows[i].state \in States /\ rows[i].local \in Locals
         /\ rows[i].code \in Codes \cup {"none"} /\ rows[i].history \in SUBSET Codes
  <1>1. rows[i] \in Row
    BY DEF RowsInv
  <1> QED BY <1>1 DEF Row, States, Locals

LEMMA LocalUpdate ==
  ASSUME NEW row \in Row, NEW l \in Locals
  PROVE  [row EXCEPT !.local = l] \in Row
  BY Zenon DEF Row, Locals

\* The owner of a code is one row.
LEMMA OneOwner ==
  ASSUME CodesUnique, NEW c
  PROVE  /\ \A i, j \in Owner(c) : i = j
         /\ Cardinality(Owner(c)) <= 1
  <1>1. \A i, j \in Owner(c) : i = j
    BY DEF Owner, CodesUnique
  <1>2. CASE Owner(c) = {}
    <2>1. Cardinality(Owner(c)) = 0
      BY <1>2, FS_EmptySet
    <2> QED BY <1>1, <2>1
  <1>3. CASE Owner(c) # {}
    <2>1. PICK i : i \in Owner(c)
      BY <1>3
    <2>2. Owner(c) = {i}
      BY <1>1, <2>1
    <2>3. Cardinality(Owner(c)) = 1
      BY <2>2, FS_Singleton
    <2> QED BY <1>1, <2>3
  <1> QED BY <1>2, <1>3

\* Rows that go, or keep their code.
Mild(i) ==
  \/ rows'[i] = NoRow /\ i \notin Pks
  \/ rows'[i] = rows[i]
  \/ /\ Known(i) /\ rows'[i].state # "none" /\ rows'[i].code = rows[i].code
     /\ rows'[i].state = rows[i].state \/ (i \in Pks /\ rows'[i].state # "orphan")

LEMMA MildStep ==
  ASSUME RowsInv, rows' \in [Ids -> Row], \A i \in Ids : Mild(i)
  PROVE  RowsInv' /\ ProblemsStay
  <1>1. NoRow.state = "none"
    BY DEF NoRow
  <1>2. \A i \in Ids : Known(i)' => Known(i) /\ rows'[i].code = rows[i].code
    BY <1>1 DEF Mild, Known
  <1>3. ProblemsStay
    BY DEF ProblemsStay, Mild, Known, Ids
  <1>4. CodesUnique'
    BY <1>2 DEF RowsInv, CodesUnique
  <1>5. Blank'
    BY DEF RowsInv, Blank, Mild, Known
  <1>6. \A c \in Codes : Known(c)' => rows'[c].state = "orphan" /\ rows'[c].code = c
    BY <1>1 DEF RowsInv, Mild, Known, Ids
  <1>7. \A p \in Pks : rows'[p].state # "orphan"
    BY <1>1 DEF RowsInv, Mild, Ids
  <1> QED BY <1>3, <1>4, <1>5, <1>6, <1>7 DEF RowsInv

\* One known row changes without changing its state or code.
LEMMA OneMild ==
  ASSUME RowsInv, NEW i \in Ids, Known(i), NEW row \in Row,
         row.state = rows[i].state, row.code = rows[i].code,
         rows' = [rows EXCEPT ![i] = row]
  PROVE  RowsInv' /\ ProblemsStay
  <1>1. rows' \in [Ids -> Row] /\ rows'[i] = row /\ \A j \in Ids \ {i} : rows'[j] = rows[j]
    BY DEF RowsInv
  <1>2. \A j \in Ids : Mild(j)
    BY <1>1 DEF Mild, Known
  <1> QED BY <1>1, <1>2, MildStep

\* Nobody but i has code c after the step.
OthersYield(i, c) ==
  \A j \in Ids \ {i} : \/ rows'[j] = rows[j] /\ j \notin Owner(c)
                       \/ rows'[j] = NoRow /\ j \notin Pks

\* Row i takes code c, which is nobody else's from now on.
LEMMA CodeTaken ==
  ASSUME RowsInv, NEW i \in Ids, NEW c \in Codes, rows' \in [Ids -> Row],
         rows'[i].code = c,
         \/ i = c /\ rows'[i].state = "orphan"
         \/ i \in Pks /\ rows'[i].state \notin {"none", "orphan"},
         OthersYield(i, c)
  PROVE  RowsInv' /\ ProblemsStay
  <1>1. NoRow.state = "none"
    BY DEF NoRow
  <1>2. \A j \in Ids \ {i} : Known(j)' => (Known(j) /\ rows'[j] = rows[j] /\ rows[j].code # c)
    BY <1>1 DEF OthersYield, Known, Owner
  <1>3. ProblemsStay
    BY DEF OthersYield, ProblemsStay, Known, Ids
  <1>4. CodesUnique'
    BY <1>2 DEF RowsInv, CodesUnique
  <1>5. Blank'
    BY DEF OthersYield, RowsInv, Blank, Known
  <1>6. \A d \in Codes : Known(d)' => rows'[d].state = "orphan" /\ rows'[d].code = d
    BY <1>2 DEF RowsInv, Ids
  <1>7. \A p \in Pks : rows'[p].state # "orphan"
    BY <1>1 DEF OthersYield, RowsInv, Ids
  <1> QED BY <1>3, <1>4, <1>5, <1>6, <1>7 DEF RowsInv

-----------------------------------------------------------------------------
(* Claims and discoveries *)

\* What every claim asks: nobody has the code, or the problem, or its orphan.
OnlyOrphan(p, c) == \A i \in Owner(c) \ {p} : i = c

LEMMA ClaimedRowType ==
  ASSUME RowsInv, NEW p \in Pks, NEW c \in Codes
  PROVE  ClaimedRow(p, c) \in Row
  <1>1. p \in Ids /\ c \in Ids /\ rows[p] \in Row /\ rows[c] \in Row
    BY RowOf DEF Ids
  <1>2. rows[p].local \in Locals /\ "present" \in Locals
    BY <1>1, RowOf DEF Locals
  <1>3. [rows[p] EXCEPT !.local = IF rows[c].local = "none" THEN @ ELSE "present"] \in Row
    <2>1. (IF rows[c].local = "none" THEN rows[p].local ELSE "present") \in Locals
      BY <1>2
    <2> QED BY <1>1, <2>1, Zenon DEF Row, Locals
  <1> QED BY <1>1, <1>3 DEF ClaimedRow

LEMMA ClaimRows ==
  ASSUME RowsInv, NEW p \in Pks, NEW c \in Codes, NEW s \in {"present", "deleted"},
         OnlyOrphan(p, c), Claim(p, c, s)
  PROVE  /\ RowsInv' /\ ProblemsStay /\ Known(p)'
         /\ rows'[p].local = ClaimedRow(p, c).local
         /\ rows'[p].history = ClaimedRow(p, c).history
         /\ \A i \in Ids \ {p} : rows'[i] = rows[i] \/ (i = c /\ rows'[i] = NoRow)
  <1> DEFINE row == [ClaimedRow(p, c) EXCEPT !.state = s, !.code = c]
  <1>1. ClaimedRow(p, c) \in Row /\ p \in Ids /\ s \in States
    BY ClaimedRowType DEF Ids, States
  <1>2. row \in Row
    <2>1. c \in Codes \cup {"none"}
      OBVIOUS
    <2> QED BY <1>1, <2>1, Zenon DEF Row, States
  <1>3. /\ row.state = s /\ row.code = c /\ row.local = ClaimedRow(p, c).local
        /\ row.history = ClaimedRow(p, c).history
    BY <1>1 DEF Row
  <1>4. rows' = [i \in Ids |-> IF i = p THEN row ELSE IF i \in Owner(c) THEN NoRow ELSE rows[i]]
    BY Zenon DEF Claim
  <1> HIDE DEF row
  <1>5. rows' \in [Ids -> Row]
    BY <1>2, <1>4, NoRowType, RowOf
  <1>6. rows'[p] = row
    BY <1>1, <1>4
  <1>7. \A i \in Ids \ {p} : \/ rows'[i] = rows[i] /\ i \notin Owner(c)
                             \/ rows'[i] = NoRow /\ i = c
    BY <1>4 DEF OnlyOrphan
  <1>8. p \notin Codes /\ c \notin Pks
    OBVIOUS
  <1>9. rows'[p].code = c /\ rows'[p].state \notin {"none", "orphan"}
    BY <1>3, <1>6
  <1>10. OthersYield(p, c)
    BY <1>7, <1>8 DEF OthersYield
  <1>11. RowsInv' /\ ProblemsStay
    BY <1>1, <1>5, <1>9, <1>10, CodeTaken
  <1> QED BY <1>3, <1>6, <1>7, <1>9, <1>11 DEF Known

LEMMA DiscoveredRows ==
  ASSUME RowsInv, NEW c \in Codes, rows' = Discovered(c)
  PROVE  RowsInv' /\ ProblemsStay /\ \A i \in Ids : Known(i) => Known(i)'
  <1> DEFINE i == IF Owner(c) = {} THEN c ELSE CHOOSE j \in Owner(c) : TRUE
             row == IF Owner(c) = {} THEN [NoRow EXCEPT !.state = "orphan", !.code = c] ELSE rows[i]
             new == [row EXCEPT !.local = IF row.state = "orphan" THEN "orphan" ELSE "present"]
  <1>1. rows' = [rows EXCEPT ![i] = new]
    BY Zenon DEF Discovered
  <1>2. CASE Owner(c) = {}
    <2>1. i = c /\ row = [NoRow EXCEPT !.state = "orphan", !.code = c]
      BY <1>2
    <2>2. row = [state |-> "orphan", code |-> c, local |-> "none", history |-> {}]
      BY <2>1 DEF NoRow
    <2> HIDE DEF i, row
    <2>3. row \in Row
      BY <2>2 DEF Row
    <2>4. new = [state |-> "orphan", code |-> c, local |-> "orphan", history |-> {}]
      BY <2>2
    <2> HIDE DEF new
    <2>5. new \in Row
      BY <2>4 DEF Row
    <2>6. rows' \in [Ids -> Row] /\ rows'[c] = new /\ \A j \in Ids \ {c} : rows'[j] = rows[j]
      BY <1>1, <2>1, <2>5 DEF RowsInv, Ids
    <2>7. \A j \in Ids \ {c} : j \notin Owner(c)
      BY <1>2
    <2>8. c \in Ids /\ c \notin Pks
      BY DEF Ids
    <2>10. rows'[c].code = c /\ rows'[c].state = "orphan"
      BY <2>4, <2>6
    <2>9. RowsInv' /\ ProblemsStay
      <3>1. OthersYield(c, c)
        BY <2>6, <2>7 DEF OthersYield
      <3> QED BY <2>6, <2>8, <2>10, <3>1, CodeTaken
    <2> QED BY <2>4, <2>6, <2>9 DEF Known
  <1>3. CASE Owner(c) # {}
    <2>1. i \in Owner(c) /\ row = rows[i]
      BY <1>3
    <2>2. i \in Ids /\ Known(i) /\ rows[i] \in Row
      BY <2>1, RowOf DEF Owner
    <2> HIDE DEF i
    <2> DEFINE l == IF rows[i].state = "orphan" THEN "orphan" ELSE "present"
    <2>3. new = [rows[i] EXCEPT !.local = l] /\ l \in Locals
      BY <2>1, Zenon DEF Locals
    <2> HIDE DEF l, new
    <2>4. new \in Row
      BY <2>2, <2>3, Zenon DEF Row, Locals
    <2>5. new.state = rows[i].state /\ new.code = rows[i].code
      BY <2>2, <2>3 DEF Row
    <2>6. RowsInv' /\ ProblemsStay
      BY <1>1, <2>2, <2>4, <2>5, OneMild
    <2>7. \A j \in Ids : rows'[j] = IF j = i THEN new ELSE rows[j]
      BY <1>1 DEF RowsInv
    <2> QED BY <2>2, <2>5, <2>6, <2>7 DEF Known
  <1> QED BY <1>2, <1>3

-----------------------------------------------------------------------------
(* The invariant in the parts the steps touch *)

RequestOK == request \in [on: BOOLEAN, list: SUBSET Entries, todo: SUBSET Entries]
PassOK == pass \in [known: SUBSET Entries, missing: SUBSET Pks, orphans: SUBSET Codes]
NoticesOK == notices \subseteq [pk: Pks, code: Codes, gone: BOOLEAN]
OutsideOK ==
  /\ oj \in [Pks -> Codes \cup {"new", "deleted"}]
  /\ folders \subseteq Codes /\ cached \subseteq folders /\ events \subseteq Codes
  /\ asked \subseteq Pks /\ changes \in 0..MaxChanges
Parts == RowsInv /\ RequestOK /\ PassOK /\ NoticesOK /\ OutsideOK /\ PlanKnown

LEMMA InvParts == CatalogInv <=> Parts
  <1>1. CatalogInv => Parts
    BY Zenon DEF CatalogInv, TypeOK, Parts, RowsInv, RequestOK, PassOK, NoticesOK, OutsideOK
  <1>2. ASSUME Parts
        PROVE  CatalogInv
    <2>1. CodesUnique /\ Blank /\ PlanKnown
      BY <1>2 DEF Parts, RowsInv
    <2>2. \A c \in Codes : Cardinality(Owner(c)) <= 1
      BY <2>1, OneOwner
    <2>3. TypeOK
      BY <1>2, <2>2, Zenon DEF TypeOK, Parts, RowsInv, RequestOK, PassOK, NoticesOK, OutsideOK
    <2> QED BY <2>1, <2>3 DEF CatalogInv
  <1> QED BY <1>1, <1>2

LEMMA RowsSame ==
  ASSUME RowsInv, UNCHANGED rows
  PROVE  RowsInv' /\ ProblemsStay
  <1>1. \A i \in Ids : Mild(i)
    BY DEF Mild
  <1> QED BY <1>1, MildStep DEF RowsInv

LEMMA RequestParts ==
  ASSUME RequestOK, NEW e
  PROVE  /\ UNCHANGED request => RequestOK'
         /\ request' = NoRequest => RequestOK'
         /\ request' = [request EXCEPT !.todo = @ \ {e}] => RequestOK'
  <1>1. NoRequest \in [on: BOOLEAN, list: SUBSET Entries, todo: SUBSET Entries]
    BY DEF NoRequest
  <1>2. request.todo \ {e} \in SUBSET Entries
    BY DEF RequestOK
  <1>3. request' = [request EXCEPT !.todo = @ \ {e}] => RequestOK'
    BY <1>2, Zenon DEF RequestOK
  <1>4. UNCHANGED request => RequestOK'
    BY Zenon DEF RequestOK
  <1>5. request' = NoRequest => RequestOK'
    BY <1>1, Zenon DEF RequestOK
  <1> QED BY <1>3, <1>4, <1>5

LEMMA PlanSame ==
  ASSUME PassOK, PlanKnown, ProblemsStay, UNCHANGED pass
  PROVE  PassOK' /\ PlanKnown'
  BY DEF PassOK, PlanKnown, ProblemsStay, Known, Entries

\* A pass takes something off its plan.
PassShrinks ==
  /\ PassOK' /\ pass'.known \subseteq pass.known /\ pass'.missing \subseteq pass.missing

LEMMA PlanShrinks ==
  ASSUME PassOK, PlanKnown, ProblemsStay, PassShrinks
  PROVE  PassOK' /\ PlanKnown'
  BY DEF PassShrinks, PassOK, PlanKnown, ProblemsStay, Known, Entries

LEMMA PassParts ==
  ASSUME PassOK, NEW e, NEW p, NEW c
  PROVE  /\ pass' = [pass EXCEPT !.known = @ \ {e}] => PassShrinks
         /\ pass' = [pass EXCEPT !.missing = @ \ {p}] => PassShrinks
         /\ pass' = [pass EXCEPT !.orphans = @ \ {c}] => PassShrinks
         /\ pass' = NoPass => PassShrinks
  BY DEF PassOK, PassShrinks, NoPass

-----------------------------------------------------------------------------
(* ClueOJ, folders and notifications *)

LEMMA AnnounceOK ==
  ASSUME NoticesOK, NEW p \in Pks, NEW c \in Codes, NEW gone \in BOOLEAN, Announce(p, c, gone)
  PROVE  NoticesOK'
  BY DEF NoticesOK, Announce

LEMMA ChangeOK ==
  ASSUME changes \in 0..MaxChanges, Change
  PROVE  changes' \in 0..MaxChanges
  BY DEF Change

LEMMA ExternalInv ==
  ASSUME Parts, External
  PROVE  Parts'
  <1>1. changes' \in 0..MaxChanges
    <2>1. Change
      BY DEF External, CreateProblem, RenameProblem, DeleteProblem, TouchFolder, Crash
    <2> QED BY <2>1, ChangeOK DEF Parts, OutsideOK
  <1>2. RowsInv' /\ ProblemsStay
    <2>1. UNCHANGED rows
      BY DEF External, CreateProblem, RenameProblem, DeleteProblem, TouchFolder, Crash
    <2> QED BY <2>1, RowsSame DEF Parts
  <1>3. PassOK' /\ PlanKnown'
    <2>1. UNCHANGED pass \/ pass' = NoPass
      BY DEF External, CreateProblem, RenameProblem, DeleteProblem, TouchFolder, Crash
    <2> QED BY <1>2, <2>1, PlanSame, PassParts, PlanShrinks DEF Parts
  <1>4. RequestOK'
    <2>1. UNCHANGED request \/ request' = NoRequest
      BY DEF External, CreateProblem, RenameProblem, DeleteProblem, TouchFolder, Crash
    <2> QED BY <2>1, RequestParts DEF Parts
  <1>5. NoticesOK' /\ OutsideOK'
    <2>1. ASSUME NEW p \in Pks, NEW c \in Codes, CreateProblem(p, c)
          PROVE  NoticesOK' /\ OutsideOK'
      BY <1>1, <2>1, AnnounceOK DEF Parts, CreateProblem, OutsideOK
    <2>2. ASSUME NEW p \in Pks, NEW c \in Codes, RenameProblem(p, c)
          PROVE  NoticesOK' /\ OutsideOK'
      <3>1. oj[p] \in Codes
        BY <2>2 DEF RenameProblem, Live
      <3>2. /\ folders' \subseteq Codes /\ cached' \subseteq folders' /\ events' \subseteq Codes
            /\ oj' \in [Pks -> Codes \cup {"new", "deleted"}]
        BY <2>2, <3>1 DEF Parts, RenameProblem, OutsideOK
      <3> QED BY <1>1, <2>2, <3>2, AnnounceOK DEF Parts, RenameProblem, OutsideOK
    <2>3. ASSUME NEW p \in Pks, DeleteProblem(p)
          PROVE  NoticesOK' /\ OutsideOK'
      <3>1. oj[p] \in Codes
        BY <2>3 DEF DeleteProblem, Live
      <3> QED BY <1>1, <2>3, <3>1, AnnounceOK DEF Parts, DeleteProblem, OutsideOK
    <2>4. ASSUME NEW c \in Codes, TouchFolder(c)
          PROVE  NoticesOK' /\ OutsideOK'
      BY <1>1, <2>4 DEF Parts, TouchFolder, OutsideOK, NoticesOK
    <2>5. CASE Crash
      BY <1>1, <2>5 DEF Parts, Crash, OutsideOK, NoticesOK
    <2> QED BY <2>1, <2>2, <2>3, <2>4, <2>5 DEF External
  <1> QED BY <1>2, <1>3, <1>4, <1>5 DEF Parts

-----------------------------------------------------------------------------
(* Claims *)

LEMMA MarkDirtyInv ==
  ASSUME Parts, NEW n \in notices, MarkDirty(n)
  PROVE  Parts'
  <1>1. n.pk \in Pks /\ n.code \in Codes /\ n.gone \in BOOLEAN
    BY DEF Parts, NoticesOK
  <1>2. OnlyOrphan(n.pk, n.code)
    BY DEF MarkDirty, MayMarkDirty, OnlyOrphan
  <1>3. \E s \in {"present", "deleted"} : Claim(n.pk, n.code, s)
    BY DEF MarkDirty
  <1>4. RowsInv' /\ ProblemsStay
    BY <1>1, <1>2, <1>3, ClaimRows DEF Parts
  <1>5. PassOK' /\ PlanKnown'
    BY <1>4, PlanSame DEF Parts, MarkDirty
  <1>6. RequestOK' /\ NoticesOK' /\ OutsideOK'
    BY <1>1 DEF Parts, MarkDirty, RequestOK, NoticesOK, OutsideOK
  <1> QED BY <1>4, <1>5, <1>6 DEF Parts

LEMMA UpsertInv ==
  ASSUME Parts, NEW e \in Entries, UpsertProblem(e)
  PROVE  Parts'
  <1>1. e[1] \in Pks /\ e[2] \in Codes
    BY DEF Entries
  <1>2. RowsInv' /\ ProblemsStay
    <2>1. CASE UNCHANGED rows
      BY <2>1, RowsSame DEF Parts
    <2>2. CASE MayUpsert(e[1], e[2]) /\ Claim(e[1], e[2], "present")
      <3>1. OnlyOrphan(e[1], e[2])
        BY <2>2 DEF MayUpsert, OnlyOrphan
      <3> QED BY <1>1, <2>2, <3>1, ClaimRows DEF Parts
    <2> QED BY <2>1, <2>2 DEF UpsertProblem
  <1>3. PassOK' /\ PlanKnown'
    BY <1>2, PlanSame DEF Parts, UpsertProblem
  <1>4. RequestOK'
    <2>1. request' = [request EXCEPT !.todo = @ \ {e}] \/ request' = NoRequest
      BY DEF UpsertProblem
    <2> QED BY <2>1, RequestParts DEF Parts
  <1>5. NoticesOK' /\ OutsideOK'
    BY DEF Parts, UpsertProblem, NoticesOK, OutsideOK
  <1> QED BY <1>2, <1>3, <1>4, <1>5 DEF Parts

LEMMA SendInv ==
  ASSUME Parts, SendCatalog
  PROVE  Parts'
  <1>1. RowsInv' /\ ProblemsStay
    BY RowsSame DEF Parts, SendCatalog
  <1>2. PassOK' /\ PlanKnown'
    BY <1>1, PlanSame DEF Parts, SendCatalog
  <1>3. RequestOK'
    <2> DEFINE list == {e \in Entries : oj[e[1]] = e[2]}
    <2>1. list \in SUBSET Entries
      OBVIOUS
    <2>2. request' = [on |-> TRUE, list |-> list, todo |-> list]
      BY DEF SendCatalog
    <2> QED BY <2>1, <2>2 DEF RequestOK
  <1>4. NoticesOK' /\ OutsideOK'
    BY DEF Parts, SendCatalog, NoticesOK, OutsideOK
  <1> QED BY <1>1, <1>2, <1>3, <1>4 DEF Parts

LEMMA MarkMissingInv ==
  ASSUME Parts, MarkMissing
  PROVE  Parts'
  <1>1. rows' = [i \in Ids |-> IF i \in Pks /\ Gone(i) THEN [rows[i] EXCEPT !.state = "deleted"] ELSE rows[i]]
    BY DEF MarkMissing
  <1>2. ASSUME NEW i \in Ids
        PROVE  rows'[i] \in Row /\ Mild(i)
    <2>1. rows[i] \in Row /\ "deleted" \in States
      BY RowOf DEF Parts, States
    <2>2. CASE i \in Pks /\ Gone(i)
      <3>1. rows'[i] = [rows[i] EXCEPT !.state = "deleted"]
        BY <1>1, <2>2
      <3>2. rows'[i] \in Row
        BY <2>1, <3>1, Zenon DEF Row, States
      <3>3. rows'[i].state = "deleted" /\ rows'[i].code = rows[i].code
        BY <2>1, <3>1 DEF Row
      <3>4. Known(i)
        BY <2>2 DEF Gone, Known
      <3> QED BY <2>2, <3>2, <3>3, <3>4 DEF Mild
    <2>3. CASE ~(i \in Pks /\ Gone(i))
      BY <1>1, <2>1, <2>3 DEF Mild
    <2> QED BY <2>2, <2>3
  <1>3. RowsInv' /\ ProblemsStay
    <2>1. rows' \in [Ids -> Row]
      BY <1>1, <1>2
    <2> QED BY <1>2, <2>1, MildStep DEF Parts
  <1>4. PassOK' /\ PlanKnown'
    BY <1>3, PlanSame DEF Parts, MarkMissing
  <1>5. RequestOK' /\ NoticesOK' /\ OutsideOK'
    BY DEF Parts, MarkMissing, RequestOK, NoRequest, NoticesOK, OutsideOK
  <1> QED BY <1>3, <1>4, <1>5 DEF Parts

LEMMA ScheduleInv ==
  ASSUME Parts, ScheduleBatch
  PROVE  Parts'
  <1>1. RowsInv' /\ ProblemsStay
    BY RowsSame DEF Parts, ScheduleBatch
  <1>2. PassOK' /\ PlanKnown'
    BY <1>1, PlanSame DEF Parts, ScheduleBatch
  <1>3. RequestOK' /\ NoticesOK' /\ OutsideOK'
    BY DEF Parts, ScheduleBatch, RequestOK, NoticesOK, OutsideOK
  <1> QED BY <1>1, <1>2, <1>3 DEF Parts

-----------------------------------------------------------------------------
(* The data plane *)

LEMMA WatchInv ==
  ASSUME Parts, NEW c \in Codes, WatchFolder(c)
  PROVE  Parts'
  <1>1. RowsInv' /\ ProblemsStay
    <2>1. CASE c \in folders
      BY <2>1, DiscoveredRows DEF Parts, WatchFolder
    <2>2. CASE c \notin folders
      <3> DEFINE Goes(i) == i \in Owner(c) /\ rows[i].state = "present" /\ rows[i].local # "none"
      <3>1. rows' = [i \in Ids |-> IF Goes(i) THEN [rows[i] EXCEPT !.local = "missing"] ELSE rows[i]]
        BY <2>2 DEF WatchFolder
      <3>2. ASSUME NEW i \in Ids
            PROVE  rows'[i] \in Row /\ Mild(i)
        <4>1. rows[i] \in Row /\ "missing" \in Locals
          BY RowOf DEF Parts, Locals
        <4>2. CASE Goes(i)
          <5>1. rows'[i] = [rows[i] EXCEPT !.local = "missing"]
            BY <3>1, <4>2
          <5>2. rows'[i] \in Row
            BY <4>1, <5>1, LocalUpdate
          <5>3. rows'[i].state = rows[i].state /\ rows'[i].code = rows[i].code
            BY <4>1, <5>1 DEF Row
          <5> QED BY <4>2, <5>2, <5>3 DEF Mild, Known
        <4>3. CASE ~Goes(i)
          BY <3>1, <4>1, <4>3 DEF Mild
        <4> QED BY <4>2, <4>3
      <3>3. rows' \in [Ids -> Row]
        BY <3>1, <3>2
      <3> QED BY <3>2, <3>3, MildStep DEF Parts
    <2> QED BY <2>1, <2>2
  <1>2. PassOK' /\ PlanKnown'
    BY <1>1, PlanSame DEF Parts, WatchFolder
  <1>3. RequestOK' /\ NoticesOK'
    BY RequestParts DEF Parts, WatchFolder, NoticesOK
  <1>4. OutsideOK'
    BY DEF Parts, WatchFolder, OutsideOK
  <1> QED BY <1>1, <1>2, <1>3, <1>4 DEF Parts

LEMMA HistoryInv ==
  ASSUME Parts, NEW c \in Codes, MakeHistory(c)
  PROVE  Parts'
  <1> DEFINE row == [rows[c] EXCEPT !.history = {c}]
  <1>1. c \in Ids /\ rows[c] \in Row /\ Known(c)
    BY RowOf DEF Parts, MakeHistory, Ids
  <1>2. row \in Row
    BY <1>1, Zenon DEF Row
  <1>3. row.state = rows[c].state /\ row.code = rows[c].code
    BY <1>1 DEF Row
  <1>4. rows' = [rows EXCEPT ![c] = row]
    BY DEF MakeHistory
  <1> HIDE DEF row
  <1>5. RowsInv' /\ ProblemsStay
    BY <1>1, <1>2, <1>3, <1>4, OneMild DEF Parts
  <1>6. PassOK' /\ PlanKnown'
    BY <1>5, PlanSame DEF Parts, MakeHistory
  <1>7. RequestOK' /\ NoticesOK' /\ OutsideOK'
    BY RequestParts DEF Parts, MakeHistory, NoticesOK, OutsideOK
  <1> QED BY <1>5, <1>6, <1>7 DEF Parts

LEMMA StartPassInv ==
  ASSUME Parts, StartPass
  PROVE  Parts'
  <1> DEFINE active == {p \in Pks : rows[p].state = "present"}
             known == {e \in Entries : e[1] \in active /\ rows[e[1]].code = e[2] /\ e[2] \in folders}
             missing == {p \in active : rows[p].code \notin folders}
             orphans == {c \in folders : \A p \in active : rows[p].code # c}
  <1>1. RowsInv' /\ ProblemsStay
    BY RowsSame DEF Parts, StartPass
  <1>2. pass' = [known |-> known, missing |-> missing, orphans |-> orphans]
    BY DEF StartPass
  <1>3. known \subseteq Entries /\ missing \subseteq Pks /\ orphans \subseteq Codes
    BY DEF Parts, OutsideOK
  <1>4. (\A e \in known : Known(e[1])) /\ (\A p \in missing : Known(p))
    BY DEF Known
  <1> HIDE DEF known, missing, orphans
  <1>5. PassOK'
    BY <1>2, <1>3 DEF PassOK
  <1>6. PlanKnown'
    <2>1. pass'.known = known /\ pass'.missing = missing /\ UNCHANGED rows
      BY <1>2 DEF StartPass
    <2> QED BY <1>4, <2>1 DEF PlanKnown, Known
  <1>7. RequestOK' /\ NoticesOK' /\ OutsideOK'
    BY RequestParts DEF Parts, StartPass, NoticesOK, OutsideOK
  <1> QED BY <1>1, <1>5, <1>6, <1>7 DEF Parts

\* The orphan's row of the code goes; the problem's accounting may be redone.
LEMMA KnownRows ==
  ASSUME RowsInv, NEW p \in Pks, NEW c \in Codes, Known(p),
         LET kept == [rows EXCEPT ![c] = NoRow]
         IN  rows' = kept \/ rows' = [kept EXCEPT ![p].local = "present"]
  PROVE  /\ RowsInv' /\ ProblemsStay
         /\ \A i \in Ids : rows'[i] # NoRow => rows'[i].code = rows[i].code
  <1> DEFINE kept == [rows EXCEPT ![c] = NoRow]
             row == [rows[p] EXCEPT !.local = "present"]
  <1>1. /\ p \in Ids /\ c \in Ids /\ p # c /\ c \notin Pks
        /\ rows \in [Ids -> Row] /\ rows[p] \in Row
    BY RowOf DEF RowsInv, Ids
  <1>2. "present" \in Locals
    BY DEF Locals
  <1>3. row \in Row /\ row.state = rows[p].state /\ row.code = rows[p].code
    <2>1. row \in Row
      BY <1>1, <1>2, LocalUpdate
    <2> QED BY <1>1, <2>1 DEF Row
  <1>4. kept \in [Ids -> Row] /\ kept[p] = rows[p] /\ kept[c] = NoRow
        /\ \A i \in Ids \ {c} : kept[i] = rows[i]
    BY <1>1, NoRowType
  <1> DEFINE keptToo == [kept EXCEPT ![p] = row]
  <1>5. rows' = kept \/ rows' = keptToo
    BY <1>4
  <1> HIDE DEF kept, row
  <1>6. /\ keptToo \in [Ids -> Row] /\ keptToo[p] = row /\ keptToo[c] = NoRow
        /\ \A i \in Ids \ {c, p} : keptToo[i] = rows[i]
    BY <1>1, <1>3, <1>4
  <1> HIDE DEF keptToo
  <1>7. rows' \in [Ids -> Row] /\ rows'[c] = NoRow /\ (rows'[p] = rows[p] \/ rows'[p] = row)
        /\ \A i \in Ids \ {c, p} : rows'[i] = rows[i]
    BY <1>1, <1>4, <1>5, <1>6
  <1>8. \A i \in Ids : Mild(i)
    BY <1>1, <1>3, <1>7 DEF Mild, Known
  <1>9. \A i \in Ids : rows'[i] # NoRow => rows'[i].code = rows[i].code
    BY <1>3, <1>7
  <1> QED BY <1>7, <1>8, <1>9, MildStep

LEMMA ReconcileKnownInv ==
  ASSUME Parts, NEW e \in Entries, ReconcileKnown(e)
  PROVE  Parts'
  <1> DEFINE p == e[1]
             c == e[2]
             kept == [rows EXCEPT ![c] = NoRow]
  <1>1. p \in Pks /\ c \in Codes /\ Known(p)
    BY DEF Entries, Parts, PlanKnown, ReconcileKnown
  <1>2. rows' = kept \/ rows' = [kept EXCEPT ![p].local = "present"]
    BY DEF ReconcileKnown
  <1>3. RowsInv' /\ ProblemsStay
    BY <1>1, <1>2, KnownRows DEF Parts
  <1>4. PassOK' /\ PlanKnown'
    <2>1. pass' = [pass EXCEPT !.known = @ \ {e}] \/ pass' = NoPass
      BY DEF ReconcileKnown
    <2> QED BY <1>3, <2>1, PassParts, PlanShrinks DEF Parts
  <1>5. RequestOK' /\ NoticesOK'
    BY RequestParts DEF Parts, ReconcileKnown, NoticesOK
  <1>6. OutsideOK'
    <2>1. UNCHANGED cached \/ (c \in folders /\ cached' = cached \cup {c}) \/ cached' = cached \ {c}
      BY DEF ReconcileKnown
    <2>2. cached' \subseteq folders
      BY <2>1 DEF Parts, OutsideOK
    <2> QED BY <2>2 DEF Parts, ReconcileKnown, OutsideOK
  <1> QED BY <1>3, <1>4, <1>5, <1>6 DEF Parts

LEMMA ReconcileMissingInv ==
  ASSUME Parts, NEW p \in Pks, ReconcileMissing(p)
  PROVE  Parts'
  <1> DEFINE row == [rows[p] EXCEPT !.local = "missing"]
  <1>1. p \in Ids /\ rows[p] \in Row /\ Known(p) /\ "missing" \in Locals
    BY RowOf DEF Parts, PlanKnown, ReconcileMissing, Ids, Locals
  <1>2. row \in Row
    BY <1>1, LocalUpdate
  <1>3. row.state = rows[p].state /\ row.code = rows[p].code
    BY <1>1 DEF Row
  <1>4. rows' = [rows EXCEPT ![p] = row]
    BY DEF ReconcileMissing
  <1> HIDE DEF row
  <1>5. RowsInv' /\ ProblemsStay
    BY <1>1, <1>2, <1>3, <1>4, OneMild DEF Parts
  <1>6. PassOK' /\ PlanKnown'
    BY <1>5, PassParts, PlanShrinks DEF Parts, ReconcileMissing
  <1>7. RequestOK' /\ NoticesOK' /\ OutsideOK'
    BY RequestParts DEF Parts, ReconcileMissing, NoticesOK, OutsideOK
  <1> QED BY <1>5, <1>6, <1>7 DEF Parts

LEMMA ReconcileOrphanInv ==
  ASSUME Parts, NEW c \in Codes, ReconcileOrphan(c)
  PROVE  Parts'
  <1>1. UNCHANGED rows \/ rows' = Discovered(c)
    BY DEF ReconcileOrphan
  <1>2. RowsInv' /\ ProblemsStay
    BY <1>1, RowsSame, DiscoveredRows DEF Parts
  <1>3. PassOK' /\ PlanKnown'
    <2>1. pass' = [pass EXCEPT !.orphans = @ \ {c}] \/ pass' = NoPass
      BY DEF ReconcileOrphan
    <2> QED BY <1>2, <2>1, PassParts, PlanShrinks DEF Parts
  <1>4. RequestOK' /\ NoticesOK'
    BY RequestParts DEF Parts, ReconcileOrphan, NoticesOK
  <1>5. OutsideOK'
    <2>1. UNCHANGED cached \/ (c \in folders /\ cached' = cached \cup {c}) \/ cached' = cached \ {c}
      BY DEF ReconcileOrphan
    <2>2. cached' \subseteq folders
      BY <2>1 DEF Parts, OutsideOK
    <2> QED BY <2>2 DEF Parts, ReconcileOrphan, OutsideOK
  <1> QED BY <1>2, <1>3, <1>4, <1>5 DEF Parts

-----------------------------------------------------------------------------
(* The invariant is inductive *)

LEMMA InitParts == Init => Parts
  <1> SUFFICES ASSUME Init
               PROVE  Parts
    OBVIOUS
  <1>1. rows = [i \in Ids |-> NoRow] /\ \A i \in Ids : rows[i].state = "none"
    BY DEF Init, NoRow
  <1>2. RowsInv
    BY <1>1, NoRowType DEF RowsInv, CodesUnique, Blank, Known, Ids
  <1>3. RequestOK /\ PassOK /\ NoticesOK /\ PlanKnown
    BY DEF Init, RequestOK, PassOK, NoticesOK, PlanKnown, NoRequest, NoPass
  <1>4. OutsideOK
    BY DEF Init, OutsideOK
  <1> QED BY <1>2, <1>3, <1>4 DEF Parts

LEMMA StepParts == Parts /\ [Next]_vars => Parts'
  <1> SUFFICES ASSUME Parts, [Next]_vars
               PROVE  Parts'
    OBVIOUS
  <1>1. CASE UNCHANGED vars
    <2>1. RowsInv' /\ ProblemsStay
      BY <1>1, RowsSame DEF Parts, vars
    <2>2. PassOK' /\ PlanKnown'
      BY <1>1, <2>1, PlanSame DEF Parts, vars
    <2>3. RequestOK' /\ NoticesOK' /\ OutsideOK'
      BY <1>1, RequestParts DEF Parts, vars, NoticesOK, OutsideOK
    <2> QED BY <2>1, <2>2, <2>3 DEF Parts
  <1>2. CASE RequestStep
    BY <1>2, SendInv, MarkMissingInv, UpsertInv DEF RequestStep
  <1>3. CASE PassStep
    BY <1>3, StartPassInv, ReconcileKnownInv, ReconcileMissingInv, ReconcileOrphanInv DEF PassStep
  <1>4. ASSUME NEW c \in Operated, MakeHistory(c)
        PROVE  Parts'
    BY <1>4, HistoryInv
  <1> QED BY <1>1, <1>2, <1>3, <1>4, ExternalInv, MarkDirtyInv, ScheduleInv, WatchInv DEF Next

\* The table has one row per code, an orphan's row under its own code, and
\* nothing without a row; a reconcile pass plans for problems that have one.
THEOREM InductiveInvariant == Spec => []CatalogInv
  BY InitParts, StepParts, InvParts, PTL DEF Spec

\* Types, and UNIQUE(code) of the problems table, which upsertProblem,
\* markProblemDirtyIdempotent, upsert_discovered_usage and the reconcile pass
\* keep among them.
THEOREM TypeCorrect == Spec => []TypeOK
  <1>1. CatalogInv => TypeOK
    BY DEF CatalogInv
  <1> QED BY <1>1, InductiveInvariant, PTL

-----------------------------------------------------------------------------
(* Claims keep history *)

\* An orphan's row goes and a problem has its code that had not.
TakesOver(p, c) == Known(c) /\ ~Known(c)' /\ rows'[p].code = c /\ p \notin Owner(c)
HasItAll(p, c) ==
  /\ rows[c].history \subseteq rows'[p].history
  /\ rows[c].local # "none" => rows'[p].local # "none"

\* A problem takes over a code only by claiming it.
LEMMA TakesByClaim ==
  ASSUME RowsInv, NEW p \in Pks, NEW c \in Codes,
         \A i \in Ids : rows'[i] # NoRow => rows'[i].code = rows[i].code
  PROVE  ~TakesOver(p, c)
  <1>1. NoRow.code = "none" /\ c # "none" /\ p \in Ids
    BY DEF NoRow, Ids
  <1>2. rows'[p].code = c => rows[p].code = c
    BY <1>1
  <1>3. rows[p].code = c => p \in Owner(c)
    BY <1>1 DEF Owner, RowsInv, Blank
  <1> QED BY <1>2, <1>3 DEF TakesOver

LEMMA ClaimTakes ==
  ASSUME RowsInv, NEW q \in Pks, NEW d \in Codes, NEW s \in {"present", "deleted"},
         MayUpsert(q, d), Claim(q, d, s), NEW p \in Pks, NEW c \in Codes, TakesOver(p, c)
  PROVE  HasItAll(p, c)
  <1>1. OnlyOrphan(q, d)
    BY DEF MayUpsert, OnlyOrphan
  <1>2. /\ rows'[q].local = ClaimedRow(q, d).local
        /\ rows'[q].history = ClaimedRow(q, d).history
        /\ \A i \in Ids \ {q} : rows'[i] = rows[i] \/ (i = d /\ rows'[i] = NoRow)
    BY <1>1, ClaimRows
  <1>3. c \in Ids /\ p \in Ids /\ q \in Ids /\ c # q /\ c # p /\ c # "none"
    BY DEF Ids
  <1>4. c = d
    <2>1. rows'[c] # rows[c]
      BY DEF TakesOver, Known
    <2> QED BY <1>2, <1>3, <2>1
  <1>5. p = q
    <2>1. p # q => rows'[p] = rows[p] \/ p = d
      BY <1>2, <1>3
    <2>2. p # d
      BY <1>3, <1>4
    <2>3. rows[p].code = c => p \in Owner(c)
      <3>1. NoRow.code = "none"
        BY DEF NoRow
      <3> QED BY <1>3, <3>1 DEF RowsInv, Blank, Owner
    <2> QED BY <2>1, <2>2, <2>3 DEF TakesOver
  <1>6. c \in Owner(c)
    BY <1>3 DEF TakesOver, RowsInv, Owner
  <1>7. CASE ~Known(q)
    <2>1. ClaimedRow(q, d) = rows[c]
      BY <1>4, <1>6, <1>7 DEF ClaimedRow
    <2> QED BY <1>2, <1>5, <2>1 DEF HasItAll
  <1>8. CASE Known(q)
    <2> DEFINE l == IF rows[c].local = "none" THEN rows[q].local ELSE "present"
    <2>1. rows[c].history = {}
      BY <1>3, <1>4, <1>6, <1>8 DEF MayUpsert
    <2>2. ClaimedRow(q, d) = [rows[q] EXCEPT !.local = l]
      BY <1>4, <1>6, <1>8, Zenon DEF ClaimedRow
    <2>3. rows[q] \in Row
      BY <1>3, RowOf
    <2>4. ClaimedRow(q, d).local = l
      BY <2>2, <2>3 DEF Row
    <2> QED BY <1>2, <1>5, <2>1, <2>4 DEF HasItAll
  <1> QED BY <1>7, <1>8

LEMMA DiscoveredCodes ==
  ASSUME RowsInv, NEW c \in Codes, rows' = Discovered(c)
  PROVE  \A d \in Codes : Known(d) => Known(d)'
  BY DiscoveredRows DEF Ids

\* "atomically claimed by its authoritative ClueOJ external ID without losing
\* usage, jobs, or snapshots" (006_problem_identity_rekey.sql:1-2): upsertProblem
\* and markProblemDirtyIdempotent never let an orphan's row go unless the
\* problem that takes its code has its records and accounting.
THEOREM ClaimsKeepHistory == Spec => ClaimKeepsHistory
  <1> DEFINE Kept == \A p \in Pks, c \in Codes : TakesOver(p, c) => HasItAll(p, c)
  <1>1. Parts /\ [Next]_vars => [Kept]_vars
    <2> SUFFICES ASSUME Parts, Next, NEW p \in Pks, NEW c \in Codes, TakesOver(p, c)
                 PROVE  HasItAll(p, c)
      BY DEF vars
    <2>1. RowsInv
      BY DEF Parts
    <2>2. CASE UNCHANGED rows
      BY <2>1, <2>2, TakesByClaim
    <2>3. CASE \E d \in Codes : rows' = Discovered(d)
      BY <2>1, <2>3, DiscoveredCodes DEF TakesOver
    <2>4. ASSUME NEW n \in notices, MarkDirty(n)
          PROVE  HasItAll(p, c)
      <3>1. n.pk \in Pks /\ n.code \in Codes
        BY DEF Parts, NoticesOK
      <3>2. MayUpsert(n.pk, n.code)
        BY <2>4 DEF MarkDirty, MayMarkDirty, MayUpsert
      <3>3. \E s \in {"present", "deleted"} : Claim(n.pk, n.code, s)
        BY <2>4 DEF MarkDirty
      <3> QED BY <2>1, <3>1, <3>2, <3>3, ClaimTakes
    <2>5. ASSUME NEW e \in Entries, UpsertProblem(e)
          PROVE  HasItAll(p, c)
      <3>1. e[1] \in Pks /\ e[2] \in Codes
        BY DEF Entries
      <3>2. CASE MayUpsert(e[1], e[2]) /\ Claim(e[1], e[2], "present")
        BY <2>1, <3>1, <3>2, ClaimTakes
      <3> QED BY <2>2, <2>5, <3>2 DEF UpsertProblem
    <2>6. CASE \A i \in Ids : rows'[i] # NoRow => rows'[i].code = rows[i].code
      BY <2>1, <2>6, TakesByClaim
    <2>7. CASE MarkMissing
      <3>1. ASSUME NEW i \in Ids
            PROVE  rows'[i].code = rows[i].code
        <4>1. rows[i] \in Row
          BY <2>1, RowOf
        <4>2. rows'[i] = IF i \in Pks /\ Gone(i) THEN [rows[i] EXCEPT !.state = "deleted"] ELSE rows[i]
          BY <2>7 DEF MarkMissing
        <4> QED BY <4>1, <4>2 DEF Row
      <3> QED BY <2>6, <3>1
    <2>8. ASSUME NEW d \in Codes, WatchFolder(d)
          PROVE  HasItAll(p, c)
      <3>1. CASE d \notin folders
        <4>1. ASSUME NEW i \in Ids
              PROVE  rows'[i].code = rows[i].code
          <5>1. rows[i] \in Row
            BY <2>1, RowOf
          <5>2. \/ rows'[i] = [rows[i] EXCEPT !.local = "missing"]
                \/ rows'[i] = rows[i]
            BY <2>8, <3>1 DEF WatchFolder
          <5> QED BY <5>1, <5>2 DEF Row
        <4> QED BY <2>6, <4>1
      <3> QED BY <2>3, <2>8, <3>1 DEF WatchFolder
    <2>9. ASSUME NEW d \in Codes, MakeHistory(d)
          PROVE  HasItAll(p, c)
      <3>1. ASSUME NEW i \in Ids
            PROVE  rows'[i].code = rows[i].code
        <4>1. rows[i] \in Row
          BY <2>1, RowOf
        <4>2. rows'[i] = rows[i] \/ rows'[i] = [rows[i] EXCEPT !.history = {d}]
          BY <2>1, <2>9 DEF MakeHistory, RowsInv
        <4> QED BY <4>1, <4>2 DEF Row
      <3> QED BY <2>6, <3>1
    <2>10. ASSUME NEW e \in Entries, ReconcileKnown(e)
           PROVE  HasItAll(p, c)
      <3>1. e[1] \in Pks /\ e[2] \in Codes /\ Known(e[1])
        BY <2>10 DEF Entries, Parts, PlanKnown, ReconcileKnown
      <3> DEFINE kept == [rows EXCEPT ![e[2]] = NoRow]
      <3>2. rows' = kept \/ rows' = [kept EXCEPT ![e[1]].local = "present"]
        BY <2>10 DEF ReconcileKnown
      <3> QED BY <2>1, <2>6, <3>1, <3>2, KnownRows
    <2>11. ASSUME NEW q \in Pks, ReconcileMissing(q)
           PROVE  HasItAll(p, c)
      <3>1. ASSUME NEW i \in Ids
            PROVE  rows'[i].code = rows[i].code
        <4>1. rows[i] \in Row
          BY <2>1, RowOf
        <4>2. rows'[i] = rows[i] \/ rows'[i] = [rows[i] EXCEPT !.local = "missing"]
          BY <2>1, <2>11 DEF ReconcileMissing, RowsInv
        <4> QED BY <4>1, <4>2 DEF Row
      <3> QED BY <2>6, <3>1
    <2>12. ASSUME NEW d \in Codes, ReconcileOrphan(d)
           PROVE  HasItAll(p, c)
      <3>1. UNCHANGED rows \/ rows' = Discovered(d)
        BY <2>12 DEF ReconcileOrphan
      <3> QED BY <2>2, <2>3, <3>1
    <2>13. External \/ ScheduleBatch \/ SendCatalog \/ StartPass => UNCHANGED rows
      BY DEF External, CreateProblem, RenameProblem, DeleteProblem, TouchFolder, Crash,
             ScheduleBatch, SendCatalog, StartPass
    <2>14. CASE RequestStep
      BY <2>2, <2>5, <2>7, <2>13, <2>14 DEF RequestStep
    <2>15. CASE PassStep
      BY <2>2, <2>10, <2>11, <2>12, <2>13, <2>15 DEF PassStep
    <2>16. ASSUME NEW d \in Operated, MakeHistory(d)
           PROVE  HasItAll(p, c)
      BY <2>9, <2>16
    <2> QED BY <2>2, <2>4, <2>8, <2>13, <2>14, <2>15, <2>16 DEF Next
  <1>2. Kept <=> \A p \in Pks, c \in Codes :
                   Known(c) /\ ~Known(c)' /\ rows'[p].code = c /\ p \notin Owner(c) =>
                     /\ rows[c].history \subseteq rows'[p].history
                     /\ rows[c].local # "none" => rows'[p].local # "none"
    BY DEF TakesOver, HasItAll
  <1>3. Spec => []Parts
    BY InitParts, StepParts, PTL DEF Spec
  <1> QED BY <1>1, <1>2, <1>3, PTL DEF Spec, ClaimKeepsHistory
=============================================================================
