SPECIFICATION Spec
CONSTANTS
    Scenarios <- OneRead
    Quantum = 2
    MaxSyncs = 2
    MinAcks = 2
    MaxBarriers = 4
INVARIANT ContractReported
CHECK_DEADLOCK FALSE
