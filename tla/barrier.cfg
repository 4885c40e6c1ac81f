SPECIFICATION FairSpec
CONSTANTS
    Scenarios <- ReadWriteOrBypass
    Quantum = 2
    MaxSyncs = 0
    MinAcks = 2
    MaxBarriers = 5
INVARIANTS
    TypeOK
    Lockstep
    QuantumSeesAll
    MemAnsweredAtBarrier
    ContractReported
PROPERTY TbEnds
CHECK_DEADLOCK FALSE
