SPECIFICATION Spec
CONSTANTS
    Conns = {c1, c2}
    None = None
    AllocFails = TRUE
    Interrupts = TRUE
SYMMETRY Symmetry
INVARIANTS
    BlocksOnOpenSocket
    NoLateConnection
    FreedIsStopped
CHECK_DEADLOCK FALSE
