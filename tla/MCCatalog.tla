------------------------------ MODULE MCCatalog ------------------------------
(* Instances of Catalog for TLC: two problems that compete for two codes. *)
EXTENDS Catalog

CONSTANTS p1, p2, a, b

MCPks == {p1, p2}
MCCodes == {a, b}

(* The two problems are interchangeable, so one order of them is enough. *)
MCInit ==
  /\ Init
  /\ oj[p1] = "new" => oj[p2] = "new"
  /\ oj[p2] # a

MCSpec == MCInit /\ [][Next]_vars /\ Fairness
=============================================================================
