SPECIFICATION FairSpec
CONSTANTS
    a = a
    b = b
    x = x
    y = y
    Path = {a, b}
    Form = a
    Client = {x, y}
    Nobody = Nobody
    Digest = {1, 2}
    BatchLimit = 1
    FileCap = 1
    MaxOps <- MCOps
    MaxTrouble <- MCTrouble
INVARIANTS
    RowDescribesBytes
PROPERTIES
    ImplementsLedger
    ArrivalsComeIn
