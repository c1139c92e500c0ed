--------------------------- MODULE MCSnapshotStore ---------------------------
(***************************************************************************)
(* Instances of SnapshotStore for TLC.  One folder state has the file of  *)
(* the hash a and the other does not, so a generation may share its object *)
(* with its predecessor or have it to itself.                              *)
(***************************************************************************)
EXTENDS SnapshotStore, TLC

CONSTANTS p1, a, file, before, after, w1, w2

MCProblems == {p1}
MCObjects == {a}
MCContents == {before, after}
MCPaths == {file}
MCFiles == before :> [f \in Paths |-> a] @@ after :> [f \in Paths |-> NoKey]
Symmetry == Permutations({w1, w2})
=============================================================================
