SPECIFICATION Spec
CONSTANTS
    NStages = 3
    GpuLast = 2
    w1 = w1
    w2 = w2
    Workers = {w1, w2}
    MaxAttempts = 2
    Probe <- MCProbe
    Kept <- MCKept
    MaxMsgs = 1
    MaxOps = 2
    MaxCrashes = 0
    MaxFaults = 0
    MaxSlow = 1
    MaxBroker = 1
SYMMETRY Symmetry
CONSTRAINT TwoTroubles
CHECK_DEADLOCK FALSE
INVARIANTS
    SnapshotSound
    NoSkippedStage
    ExclusiveLease
    CompletesOnce
    CommitFindsClaimOpen
PROPERTIES
    ImplementsLifecycle
    HaltedRunGainsNothing
