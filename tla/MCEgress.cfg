SPECIFICATION FairEgressSpec
CONSTANTS
  Tasks = {t1, t2, t3}
  Interval = 2
  None = None
  Here = here
  Hosts = {here, other, offlist}
  Authorized = {here, other}
  MaxHops = 3
INVARIANT OnlyAuthorized
PROPERTIES RequestsSpaced EveryGetEnds
