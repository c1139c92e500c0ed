SPECIFICATION Spec
CONSTANTS
  l1 = l1
  l2 = l2
  Ids = {1, 2}
  Limit = 1
  Started = {"r2_snapshot"}
  Admins = {a1}
  Loops <- MCLoops
  MaxJobs = 2
  MaxAttempts = 2
  MaxExpiries = 2
SYMMETRY Symmetry
INVARIANTS TypeOK PassesOverNothing
CHECK_DEADLOCK FALSE
