SPECIFICATION FairRecoverySpec
CONSTANTS
  q1 = q1
  q2 = q2
  backoff = backoff
  browser = browser
  captcha = captcha
  NoStrategy = NoStrategy
  Requests <- TwoRequests
  Configured <- MCConfigured
  Retrying <- MCRetrying
  Disabled <- MCDisabled
  Rendering <- MCRendering
  Reactions <- MCReactions
  Tries = 2
  MaxRounds = 2
  MaxShifts = 1
INVARIANTS FetchesBounded RecoveryServes EscalatesWhenNothingWorks
PROPERTY FastPathRecovers
