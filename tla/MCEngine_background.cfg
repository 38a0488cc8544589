SPECIFICATION Spec
CONSTANTS
  r1 = r1
  r2 = r2
  A = A
  B = B
  Requests <- TwoCallers
  Layouts <- MCLayouts
  Modes <- Background
  HasStronger = TRUE
  Raising <- Never
  MaxRetries = 1
  MaxRounds = 1
  MaxFaults = 1
  MaxDrifts = 1
  MaxCrashes = 1
SYMMETRY Symmetry
INVARIANTS OneLoopPerFamily GuardIsTask ServedWhenCovered
PROPERTIES RequestAdvances FaultNeverRegenerates NoRegression HonoursContract
