SPECIFICATION Spec
CONSTANTS
  w1 = w1
  w2 = w2
  p1 = p1
  Walks <- TwoWalks
  Process <- OneProcess
  MaxPages = 2
  SnapshotEvery = 2
  MaxVersion = 2
  MaxRuns = 3
  MaxCrashes = 1
CHECK_DEADLOCK FALSE
INVARIANTS HistoryFollowsCounters SnapshotCadence
PROPERTY WalkAdvances
