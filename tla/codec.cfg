SPECIFICATION Spec
CONSTANTS
    Inputs <- Sent
    None = None
INVARIANTS
    TypeOK
    SeenAsSent
    LanesEnabled
CHECK_DEADLOCK FALSE
