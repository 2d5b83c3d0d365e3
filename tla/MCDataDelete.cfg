SPECIFICATION FairSpec
CONSTANTS
  w1 = w1
  w2 = w2
  x1 = x1
  i1 = i1
  o1 = o1
  None = None
  Intents = {i1}
  Trash = {i1}
  Objects = {o1}
  Target <- Resource
  Workers = {w1, w2}
  Writers = {x1}
  Serial = {}
  MaxAttempts = 2
  MaxRetries = 1
  MaxEdits = 1
  MaxEpoch = 1
  MaxFaults = 2
CHECK_DEADLOCK FALSE
INVARIANTS TypeOK FilesMatchReceipts FreezeHolds
PROPERTIES OvertakenWorkerIsFenced KeepsPromise Settles
