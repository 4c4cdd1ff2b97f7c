SPECIFICATION Spec
CONSTANTS
    Editable <- MCEditable
    Calls = {c1, c2}
    MaxVisits = 2
    MaxEdits = 3
    MaxSubmits = 2
    None = None
INVARIANTS
    TypeOK
    ResultIsLatest
PROPERTIES
    FlagMeansComplete
CHECK_DEADLOCK FALSE
