----------------------------- MODULE MCJobQueue -----------------------------
(* Small instances of JobQueue: the requests each run lets its clients make. *)
EXTENDS JobQueue, TLC

R(key, type, prob, target) == [key |-> key, type |-> type, prob |-> prob, target |-> target]

\* A key and its reuse for another generation.
ReusedKey == {R("k1", "restore", "p", 1), R("k1", "restore", "p", 2)}
\* All local kinds on one problem; a key reused for another generation.
MixedRequests ==
  {R("k1", "scan", "p", 0), R("k1", "snapshot", "p", 1), R("k1", "restore", "p", 1),
   R("k1", "restore", "p", 2), R("k2", "restore", "p", 1), R("k1", "evict", "p", 0)}
\* Jobs without a problem, which may be active together, beside one kind of operation per problem.
BulkRequests == {R("k1", "backfill", "global", 1), R("k2", "backfill", "global", 2),
                 R("k3", "restore", "p", 1), R("k4", "snapshot", "q", 1)}
\* The same restore under two keys.
SameRestore == {R("k1", "restore", "p", 1), R("k2", "restore", "p", 1)}
\* Restores of two problems.
TwoRestores == {R("k1", "restore", "p", 1), R("k2", "restore", "q", 1)}

\* Nothing tells loops or clients apart.
Symmetry == Permutations(Loops) \cup Permutations(Clients)
=============================================================================
