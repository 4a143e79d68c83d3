SPECIFICATION FairSpec
CONSTANTS
    Conns = {c1, c2}
    None = None
    AllocFails = TRUE
    Interrupts = FALSE
PROPERTIES
    SentIsRead
CHECK_DEADLOCK FALSE
