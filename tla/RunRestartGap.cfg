SPECIFICATION Spec
CONSTANTS
    NStages = 3
    GpuLast = 2
    w1 = w1
    w2 = w2
    Workers = {w1, w2}
    MaxAttempts = 2
    Probe <- MCProbe
    Kept <- MCKept
    MaxMsgs = 1
    MaxOps = 3
    MaxCrashes = 0
    MaxFaults = 0
    MaxSlow = 0
    MaxBroker = 0
SYMMETRY Symmetry
CHECK_DEADLOCK FALSE
INVARIANTS
    CompletedHasOutputs
