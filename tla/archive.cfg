SPECIFICATION Spec
CONSTANTS
  p1 = p1
  a = a
  file = file
  before = before
  after = after
  NoContent = NoContent
  NoKey = NoKey
  w1 = w1
  w2 = w2
  Problems <- MCProblems
  Generations = {1, 2}
  Contents <- MCContents
  Objects <- MCObjects
  Paths <- MCPaths
  Files <- MCFiles
  Collectors = {w1}
  MaxUploads = 2
  MaxClaims = 2
INVARIANTS TypeOK  CollectedIsGone
PROPERTIES ArchiveSpec PrunedLeavesNothing
CHECK_DEADLOCK FALSE
