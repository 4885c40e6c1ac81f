SPECIFICATION FairSpec
CONSTANTS
    Scenarios <- OneRead
    Quantum = 2
    MaxSyncs = 2
    MinAcks = 2
    MaxBarriers = 4
PROPERTY G5EndsAfterBye
CHECK_DEADLOCK FALSE
