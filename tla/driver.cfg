SPECIFICATION FairSpec
CONSTANTS
    Scripts <- AgentScripts
    Prompt = FALSE
    DBIDs = {0, 1}
    None = None
    FifoSize = 2
    RxDepth = 2
    StableEdges = 2
    LinkTimeout = 6
    DbidTimeout = 2
    CreditTimeout = 2
INVARIANTS
    TypeOK
    CreditsConserved
    OwnDbid
PROPERTIES
    OnceInOrder
    NeverHangs
CHECK_DEADLOCK FALSE
