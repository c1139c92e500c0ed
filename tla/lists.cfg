SPECIFICATION Spec
CONSTANTS
  w1 = w1
  w2 = w2
  Ids = {1, 2, 3}
  Writers <- MCWriters
  Limits = {1, 2}
  Floor <- MCFloor
  MaxTime = 3
SYMMETRY Symmetry
INVARIANTS TypeOK FeedCurrent WalkComplete
PROPERTIES WalkOnce FeedAdvances
CHECK_DEADLOCK FALSE
