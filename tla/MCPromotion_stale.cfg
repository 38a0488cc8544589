SPECIFICATION PromotionSpec
CONSTANTS
  s1 = s1
  s2 = s2
  p1 = p1
  p2 = p2
  f1 = f1
  Absent = Absent
  Torn = Torn
  Sources <- OneSource
  Safe <- OneSource
  Procs <- OneProc
  Writers <- OneProc
  Fields <- MCFields
  MaxSamples = 2
  Counts <- OneOrTwoSamples
  MaxVersion = 2
  MaxCrashes = 0
INVARIANT GoldenSetReplaced
