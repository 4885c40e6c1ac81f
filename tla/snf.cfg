SPECIFICATION ScenarioSpec
CONSTANTS
    Txns = {1, 2, 3}
    Requests <- AllRequests
    PoolSlots = 2
    ReadIdLimit = 4
    ReleaseMargin = 3
    MaxDrain = 2
    MaxRetry = 1
    SlotIndexed = FALSE
    None = None
INVARIANTS
    TypeOK
    SlotHeld
    StalledOnlyWhenFull
    NothingLostWhileSound
    RecordedOnceUnlessRetried
PROPERTIES
    PortWhileSound
    BypassReadsBypass
    AnsweredWhileSound
    ReleasedWhileSound
