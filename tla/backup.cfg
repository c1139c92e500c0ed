SPECIFICATION Spec
CONSTANTS
  Schedulers = {s1}
  Unusable <- NoContent
  Threshold = 1
  WatcherOn = TRUE
  RequestKinds <- Explicit
  SlowUploads = FALSE
  NamedGens <- NoGens
  MaxEdits = 1
  MaxGen = 3
  MaxJobs = 1
  MaxRequests = 1
  MaxFaults = 2
  MaxWaits = 0
  Rounds = 3
CHECK_DEADLOCK FALSE
INVARIANTS TypeOK NothingLost FreshRound
PROPERTY ReadyForward
