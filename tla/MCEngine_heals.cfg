SPECIFICATION FairSpec
CONSTANTS
  r1 = r1
  r2 = r2
  A = A
  B = B
  Requests <- OneCaller
  Layouts <- MCLayouts
  Modes <- EitherMode
  HasStronger = TRUE
  Raising <- Never
  MaxRetries = 1
  MaxRounds = 2
  MaxFaults = 1
  MaxDrifts = 1
  MaxCrashes = 1
PROPERTIES LoopAdvances RequestsAnswered HealsOrEscalates HonoursContractLive
