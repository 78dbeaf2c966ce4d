SPECIFICATION Spec
CONSTANTS
    a1 = a1
    none = none
    Actors = {a1}
    NoOne = none
    Prompt = TRUE
    Troubles = {"crash", "fault"}
    MaxRequests = 3
    MaxTrouble = 3
INVARIANTS
    PointerNamesRecording
