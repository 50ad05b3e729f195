SPECIFICATION FairSpec
CONSTANTS
    NSteps = 2
    DependsOn <- MCDependsOn
    Irreversible <- MCIrreversible
    MaxAttempts = 2
    MaxSteps = 3
    MaxRetries = 1
    MaxReplans = 1
    MaxToolCalls = 1
    a1 = a1
    Approvals = {a1}
    MaxEpoch = 2
    MaxCrashes = 1
INVARIANTS
    Consistent
    IrreversibleNeedsApproval
PROPERTIES
    NoBlindRerun
    CancelHolds
    ImplementsLifecycle
    Settles
CHECK_DEADLOCK FALSE
