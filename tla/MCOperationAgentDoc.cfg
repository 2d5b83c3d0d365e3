SPECIFICATION Spec
CONSTANTS
    r1 = r1
    r2 = r2
    None = None
    Requests = {r1}
    Plan <- MixedPlan
    NeedsApproval = {r1}
    MaxControls = 2
    MaxFaults = 0
PROPERTIES
    OnlyUnknownNeedsReconciliation
CHECK_DEADLOCK FALSE
