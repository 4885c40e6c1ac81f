SPECIFICATION FairSpec
CONSTANTS
    Scripts <- AllScripts
    Blocks = {0, 1}
    ReadyVaries <- VaryingScripts
    None = None
INVARIANTS
    TypeOK
    InOrder
    MonitorNumbers
    MonitorMissesNone
    NeverReordered
PROPERTIES
    ImplementsMemory
    EveryBurstAnswered
