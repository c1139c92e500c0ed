--------------------------- MODULE MCAutoSnapshot ---------------------------
(* Small instances of AutoSnapshot. *)
EXTENDS AutoSnapshot

\* The first edit breaks the folder and the second repairs it.
FirstBroken == {1}
NoContent == {}
NoKinds == {}
NoGens == {}
SecondGen == {2}
Manual == {"manual"}
Backfill == {"backfill"}
Explicit == {"manual", "backfill"}
=============================================================================
