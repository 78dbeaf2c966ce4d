SPECIFICATION FairSpec
CONSTANTS
    a1 = a1
    a2 = a2
    none = none
    Actors = {a1, a2}
    NoOne = none
    Prompt = TRUE
    Troubles = {"crash", "fault", "slow", "requeue", "outside"}
    MaxRequests = 2
    MaxTrouble = 2
INVARIANTS
    TypeOK
    ItemTakenOnce
    FlagFollowsPointer
    PurgedLeavesNothing
PROPERTIES
    StaleActorWritesNothing
    ImplementsCopies
    EveryOperationEnds
