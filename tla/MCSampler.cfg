SPECIFICATION FairSpec
CONSTANTS
  a = a
  b = b
  c = c
  d = d
  x = x
  Urls <- MCUrls
  HostOf <- MCHostOf
  Seeds <- MCSeeds
  Pages <- MCPages
  N = 3
  MaxFetch = 3
CHECK_DEADLOCK FALSE
INVARIANTS SampledOnceOnSite NeverAskedTwice ShortOnlyWhenExhausted
PROPERTY Terminates
