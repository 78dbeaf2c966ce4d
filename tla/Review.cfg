SPECIFICATION Spec
CONSTANTS
    r1 = r1
    ann = ann
    bob = bob
    rev1 = rev1
    rev2 = rev2
    q1 = q1
    q2 = q2
    None = None
    Run = {r1}
    Proposed <- MCProposed
    Speaker = {ann, bob}
    Known = {ann}
    Reviewer = {rev1, rev2}
    Slot = {q1, q2}
    MaxStamp = 3
    MaxTokens = 2
    MaxTrouble = 2
SYMMETRY Symmetry
CHECK_DEADLOCK FALSE
INVARIANTS
    TokenStaysGood
    NamedSpeakerActive
    RuledAndUndoneOnce
    NoRemnants
PROPERTIES
    UndoRestores
