SPECIFICATION FairSpec
CONSTANTS
  MaxVersion = 2
  MaxFaults = 1
INVARIANTS TypeOK
PROPERTIES NothingDestroyed RestoresReady ServedKeepsFolder WaitsForFolder
