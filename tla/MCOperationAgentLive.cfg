SPECIFICATION FairSpec
CONSTANTS
    r1 = r1
    r2 = r2
    None = None
    Requests = {r1, r2}
    Plan <- PlainPlan
    NeedsApproval = {}
    MaxControls = 1
    MaxFaults = 1
PROPERTIES
    QueuedEnds CancelIsAnswered SuccessIsReported
CHECK_DEADLOCK FALSE
