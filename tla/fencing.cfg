SPECIFICATION Spec
CONSTANTS
  Problems = {"p"}
  Global = "global"
  Loops = {l1, l2}
  RestoreLoops = {}
  Watcher = w
  Clients = {c1, c2}
  Requests <- ReusedKey
  WatchedProblems = {"p"}
  Operators = TRUE
  MaxJobs = 2
  MaxToken = 5
  MaxEditToken = 5
  MaxAttempts = 2
INVARIANTS TypeOK LeaseExclusive CompletedHasEffect PendingCanRun KeyNamesOneJob AcceptedIsServed
PROPERTIES EffectsInTokenOrder RevokedNeverEnters
SYMMETRY Symmetry
CHECK_DEADLOCK FALSE
