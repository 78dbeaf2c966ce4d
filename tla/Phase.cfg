SPECIFICATION FairSpec
CONSTANTS
    r1 = r1
    r2 = r2
    a = a
    b = b
    Runs = {r1}
    Services = {a}
    MaxOps = 2
    MaxCrashes = 1
    MaxFaults = 1
    MaxExpiries = 1
    MaxBoots = 1
INVARIANTS
    OneTenant
    BorrowedWhenIdle
PROPERTIES
    CutOnlyForCause
    AudioRequestKept
    HoldReturned
    TenantsSeparate
    RecordingsServed
