SPECIFICATION Spec
CONSTANTS
  Schedulers = {s1}
  Unusable <- FirstBroken
  Threshold = 1
  WatcherOn = FALSE
  RequestKinds <- NoKinds
  SlowUploads = FALSE
  NamedGens <- NoGens
  MaxEdits = 2
  MaxGen = 4
  MaxJobs = 2
  MaxRequests = 0
  MaxFaults = 0
  MaxWaits = 0
  Rounds = 4
CHECK_DEADLOCK FALSE
PROPERTIES StaleFailureNotCounted
