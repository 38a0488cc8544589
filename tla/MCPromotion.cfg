SPECIFICATION PromotionSpec
CONSTANTS
  s1 = s1
  s2 = s2
  p1 = p1
  p2 = p2
  f1 = f1
  Absent = Absent
  Torn = Torn
  Sources <- TwoSources
  Safe <- TwoSources
  Procs <- TwoProcs
  Writers <- OneProc
  Fields <- MCFields
  MaxSamples = 2
  Counts <- OneOrTwoSamples
  MaxVersion = 3
  MaxCrashes = 1
INVARIANTS
  AtMostOneActive EveryRungLoads ResidualIsOwnOrEmpty GoldenSetCurrent
PROPERTIES
  NeverUnserved ArtifactsImmutable RollbackNeverReturns
SYMMETRY Symmetry
