----------------------------- MODULE MCBackfill -----------------------------
(* Instances of Backfill: one capability other than the default one. *)
EXTENDS Backfill, TLC

CONSTANTS l1, l2

MCLoops == {l1, l2}
Symmetry == Permutations(MCLoops)
=============================================================================
