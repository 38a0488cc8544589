SPECIFICATION FairSpec
CONSTANTS
  r1 = r1
  r2 = r2
  A = A
  B = B
  Requests <- OneCaller
  Layouts <- MCLayouts
  Modes <- Background
  HasStronger = FALSE
  Raising <- Maybe
  MaxRetries = 1
  MaxRounds = 1
  MaxFaults = 0
  MaxDrifts = 1
  MaxCrashes = 0
PROPERTY HealsOrEscalates
