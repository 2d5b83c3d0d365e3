SPECIFICATION Spec
CONSTANTS
  w1 = w1
  w2 = w2
  x1 = x1
  i1 = i1
  o1 = o1
  None = None
  Intents = {i1}
  Trash = {}
  Objects = {o1}
  Target <- Resource
  Workers = {w1, w2}
  Writers = {x1}
  Serial = {x1}
  MaxAttempts = 2
  MaxRetries = 0
  MaxEdits = 1
  MaxEpoch = 0
  MaxFaults = 0
INVARIANTS FreezeHolds
