SPECIFICATION FairSpec
CONSTANTS
  j1 = j1
  j2 = j2
  w1 = w1
  w2 = w2
  None = None
  Jobs = {j1}
  Workers = {w1, w2}
  ExpiresAt <- MCExpiresAt
  MaxAttempts <- MCMaxAttempts
  LeaseTicks = 1
  BackoffBase = 1
  BackoffCap = 4
  RecoveryLimit = 1
  MaxTime = 2
  MaxControls = 1
  MaxCrashes = 1
PROPERTIES EveryJobEnds ControlCarriedOut
