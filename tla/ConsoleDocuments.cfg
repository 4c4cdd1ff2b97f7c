SPECIFICATION Spec
CONSTANTS
    Files = {f1}
    Flows = {w1, w2}
    Loads = {l1, l2}
    MaxDocs = 2
    MaxMoves = 2
    None = None
INVARIANTS
    TypeOK
    BannerIsTrue
PROPERTIES
    GapNoteIsTrue
    WorkEnds
CHECK_DEADLOCK FALSE
