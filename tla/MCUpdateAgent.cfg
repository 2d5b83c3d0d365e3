SPECIFICATION FairSpec
CONSTANTS
  r1 = r1
  r2 = r2
  None = None
  Requests = {r1, r2}
  Shapes <- MCShapes
  MaxControls = 2
  MaxFaults = 1
CHECK_DEADLOCK FALSE
INVARIANTS TypeOK AnswersAreTrue
PROPERTIES ChangedAsConfirmed UncertainStopsRequests DrainedIsQuiet EveryRequestIsAnswered
