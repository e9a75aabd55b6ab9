SPECIFICATION GroupSpec
CONSTANTS
  MIN_WT = 1
  MAX_WT = 100
  Clusters = {c1, c2, c3, c4}
  MaxQueued = 10
  MaxRunning = 2
SYMMETRY Symmetry
INVARIANTS
  GroupTypeOK
  EveryDrawRoutes
  ShorterQueueLargerShare
  StarvesExactlyAtAverage
