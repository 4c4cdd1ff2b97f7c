SPECIFICATION Spec
CONSTANTS
    Requests = {r1, r2}
    GuardSlot = GuardSlot
    Paths = {p1, p2}
    Home = Home
    MaxSessions = 2
    MaxAttempts = 2
    MaxLoads = 2
    MaxFaults = 1
    None = None
PROPERTY NullMeansSignedOut
CHECK_DEADLOCK FALSE
