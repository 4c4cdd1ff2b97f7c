SPECIFICATION FairSpec
CONSTANTS
    e1 = e1
    e2 = e2
    e3 = e3
    e4 = e4
    tA = tA
    tB = tB
    Events <- Four
    Tenants <- Both
    TenantOf <- OwnerOfFour
    PoolLimit = 3
    MaxClock = 1
    NoHash = NoHash
    NoRow = NoRow
    Nobody = Nobody
INVARIANTS
    TypeOK
    NoFork
    HeadIsTip
    LinearChain
    AckedIsStored
    RowVisible
PROPERTIES
    ImplementsLedger
    EveryAppendEnds
