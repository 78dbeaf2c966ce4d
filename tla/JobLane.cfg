SPECIFICATION FairSpec
CONSTANTS
    w1 = w1
    w2 = w2
    Workers = {w1, w2}
    Lanes = {"assets", "cleanup", "embedding", "synthdetect"}
    MaxJobs = 2
    MaxEdits = 1
    MaxTrouble = 1
INVARIANTS
    OneExecutor
    CancelWins
PROPERTIES
    ImplementsJobBoard
    EveryJobEnds
