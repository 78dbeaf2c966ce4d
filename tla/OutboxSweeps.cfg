SPECIFICATION FairSpec
CONSTANTS
    s1 = s1
    s2 = s2
    Sweeps = {s1, s2}
    MaxAttempts = 2
    BatchLimit = 2
    MaxRev = 2
    MaxTrouble = 1
CHECK_DEADLOCK FALSE
INVARIANTS
    OneOwner
    RetriesBounded
PROPERTIES
    ImplementsBoard
    EveryArrivalSettles
