SPECIFICATION Spec
CONSTANTS
    e1 = e1
    e2 = e2
    e3 = e3
    e4 = e4
    tA = tA
    tB = tB
    Events <- Three
    Tenants <- Both
    TenantOf <- OwnerMixed
    PoolLimit = 2
    MaxClock = 1
    NoHash = NoHash
    NoRow = NoRow
    Nobody = Nobody
INVARIANT TenantsDoNotBlock
