SPECIFICATION Spec
CONSTANTS
    Editable <- MCEditable
    Calls = {c1, c2}
    MaxVisits = 2
    MaxEdits = 3
    MaxSubmits = 2
    None = None
PROPERTIES
    FlagMeansFilled
CHECK_DEADLOCK FALSE
