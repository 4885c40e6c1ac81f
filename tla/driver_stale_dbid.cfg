SPECIFICATION Spec
CONSTANTS
    Scripts <- ReusedId
    Prompt = TRUE
    DBIDs = {0, 1}
    None = None
    FifoSize = 2
    RxDepth = 2
    StableEdges = 2
    LinkTimeout = 6
    DbidTimeout = 60
    CreditTimeout = 2
INVARIANTS
    OwnDbid
CHECK_DEADLOCK FALSE
