SPECIFICATION Spec
CONSTANTS
    r1 = r1
    r2 = r2
    k1 = k1
    k2 = k2
    Requests = {r1, r2}
    Kids = {k1, k2}
    Ttl = 2
    MaxClock = 2
    MaxFailures = 1
    None = None
PROPERTY StaleKeysAreServed
