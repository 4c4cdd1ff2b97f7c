SPECIFICATION Spec
CONSTANTS
    Files = {f1}
    Flows = {w1}
    Loads = {l1}
    MaxDocs = 1
    MaxMoves = 3
    None = None
PROPERTIES
    ListedIsCached
CHECK_DEADLOCK FALSE
