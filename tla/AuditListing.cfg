SPECIFICATION FairSpec
CONSTANTS
    tA = tA
    tB = tB
    Events = {1, 2, 3, 4}
    Tenants = {tA}
    Timestamps = {0, 1}
    NoHash = 0
    Reader = tA
    PageSize = 2
INVARIANTS
    TypeOK
    WalkIsComplete
PROPERTY WalkEnds
