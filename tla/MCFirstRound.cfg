SPECIFICATION Spec
CONSTANTS
  name = name
  price = price
  kind = kind
  a = a
  b = b
  ab = ab
  nothing = nothing
  n0 = n0
  n1 = n1
  n2 = n2
  n4 = n4
  s1 = s1
  eur2 = eur2
  label = label
  code = code
  None = None
  NoMoney = NoMoney
  Null = Null
  Broken = Broken
  Crashed = Crashed
  Fields <- MCFields
  Required <- MCRequired
  Key = name
  Values <- MCValues
  Text <- MCText
  Money <- MCMoney
  Typed <- MCTyped
  Numeric <- MCNumeric
  Leaves <- MCLeaves
  Paths = {1, 2, 3, 4}
  Stripped <- MCStripped
  Float <- MCFloat
  Numeral <- MCNumeral
  Scale = 2
  Volatile <- MCNumeric
  Enums <- MCEnums
  Joined <- MCJoined
  MinNum = 6
  MinDen = 10
  Sampled <- MCSampled
  Golden <- MCGolden
  Replies <- MCReplies
  Generated = 1
  Outputs <- MCOutputs
  BarNum = 98
  BarDen = 100
CHECK_DEADLOCK FALSE
INVARIANTS WinnerReproducesEveryPage OrderIrrelevant FirstPerfectWins DiscoveryGeneralises JsonSiteNeedsNoModel
