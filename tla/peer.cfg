SPECIFICATION OrderedSpec
CONSTANTS
    Txns = {1, 2}
    Requests <- MixedRequests
    Pkts = {3}
    Bypasses <- BypassHalf
    Blocks = {0, 1}
    MaxDbid = 1
    MaxSyncs = 2
    AbsentRespErr = {{0}, {}}
    None = None
INVARIANT TypeOK
PROPERTIES
    ImplementsPortButRespErr
    ImplementsMemory
    EveryAccessAnswered
    PeerEndsAfterRefusal
CHECK_DEADLOCK FALSE
