SPECIFICATION Spec
CONSTANTS
    tA = tA
    tB = tB
    Events = {1, 2, 3}
    Tenants = {tA, tB}
    Timestamps = {0, 1}
    NoHash = 0
    Reader = tA
    PageSize = 1
INVARIANT NoDuplicates
