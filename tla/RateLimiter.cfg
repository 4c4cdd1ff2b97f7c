SPECIFICATION Spec
CONSTANTS
    s1 = s1
    s2 = s2
    s3 = s3
    i1 = i1
    u1 = u1
    t1 = t1
    Slots = {s1, s2, s3}
    Ips = {i1}
    Users = {u1}
    Tenant = t1
    Limit <- Limits
    Window = 3
    MaxCount = 8
    MaxFaults = 1
    NoTtl = NoTtl
    None = None
INVARIANTS
    TypeOK
    WindowBound
    UserShareBounded
    NoImmortalCounter
SYMMETRY Symmetry
