SPECIFICATION FairSpec
CONSTANTS
  Problems = {"p", "q"}
  Global = "global"
  Loops = {l1}
  RestoreLoops = {}
  Watcher = w
  Clients = {c1}
  Requests <- BulkRequests
  WatchedProblems = {}
  Operators = FALSE
  MaxJobs = 2
  MaxToken = 7
  MaxEditToken = 3
  MaxAttempts = 2
INVARIANTS TokensUnique
PROPERTIES JobsSettle
CHECK_DEADLOCK FALSE
