SPECIFICATION FairSpec
CONSTANTS
  w1 = w1
  w2 = w2
  d1 = d1
  d2 = d2
  r1 = r1
  r2 = r2
  None = None
  Workers = {w1, w2}
  Downloads = {}
  Grants = {}
  MaxGen = 2
  Stuck = {1}
  ListLimit = 1
  RotationSize = 1
  MaxFaults = 0
PROPERTIES EverythingGoes KeepsPromise
INVARIANTS TypeOK
