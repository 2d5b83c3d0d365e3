SPECIFICATION FairSpec
CONSTANTS
  p1 = p1
  l1 = l1
  l2 = l2
  c1 = c1
  c2 = c2
  c3 = c3
  None = None
  Commands = {c1, c2, c3}
  Action <- Timeline
  Pages = {p1}
  Loops = {l1}
  MaxEvents = 1
INVARIANTS TypeOK AppliedOnce NothingLost OfflineOrder
PROPERTIES Settles
CHECK_DEADLOCK FALSE
