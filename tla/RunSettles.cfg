SPECIFICATION FairSpec
CONSTANTS
    NStages = 2
    GpuLast = 1
    w1 = w1
    w2 = w2
    Workers = {w1}
    MaxAttempts = 1
    Probe <- MCProbe
    Kept <- MCKept
    MaxMsgs = 1
    MaxOps = 1
    MaxCrashes = 1
    MaxFaults = 2
    MaxSlow = 0
    MaxBroker = 1
CHECK_DEADLOCK FALSE
INVARIANTS
    RetryBudget
PROPERTIES
    EventuallySettles
    StoppedClaimsClose
