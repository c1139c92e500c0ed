SPECIFICATION FairSpec
CONSTANTS
  MaxVersion = 2
  MaxFaults = 1
PROPERTIES ReadyIsProjected
