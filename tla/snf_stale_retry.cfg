SPECIFICATION FSpec
CONSTANTS
    Txns = {t1, t2}
    Requests <- WriteRequests
    PoolSlots = 3
    ReadIdLimit = 8
    ReleaseMargin = 8
    MaxDrain = 2
    MaxRetry = 1
    SlotIndexed = TRUE
    None = None
INVARIANTS
    WriteDataConserved
