--------------------------- MODULE MCKeysetLists ---------------------------
(* Instances of KeysetLists: two microseconds to the millisecond. *)
EXTENDS KeysetLists, TLC

CONSTANTS w1, w2

MCWriters == {w1, w2}
MCFloor == [t \in Times |-> t - (t % 2)]
Symmetry == Permutations(MCWriters)
=============================================================================
