SPECIFICATION Spec
CONSTANTS
    r1 = r1
    r2 = r2
    None = None
    Requests = {r1, r2}
    Plan <- MixedPlan
    NeedsApproval = {r1}
    MaxControls = 2
    MaxFaults = 1
INVARIANTS
    TypeOK
    EffectAtMostOnce
    WaitingIsUntouched
PROPERTIES
    SuccessIsKept
    KeepsPromise
CHECK_DEADLOCK FALSE
