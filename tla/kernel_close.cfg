SPECIFICATION FairSpec
CONSTANTS
    Conns = {c1}
    None = None
    AllocFails = FALSE
    Interrupts = FALSE
PROPERTIES
    ClosedIsDestroyed
CHECK_DEADLOCK FALSE
