SPECIFICATION FairSpec
CONSTANTS
    r1 = r1
    r2 = r2
    k1 = k1
    k2 = k2
    Requests = {r1, r2}
    Kids = {k1, k2}
    Ttl = 1
    MaxClock = 1
    MaxFailures = 1
    None = None
INVARIANTS
    TypeOK
    RetiredKeyDies
    PublishedKeyAccepted
    WarmCacheNeverFails
PROPERTY EveryLookupEnds
