SPECIFICATION FairSpec
CONSTANTS
    Observers = {o1, o2}
    Levels = {default, high, off}
    Configured = {default, high}
    Default = default
    None = None
    MaxTimeouts = 1
INVARIANTS
    
    DrainIsReplaced
    RowIsApplied
PROPERTIES
    OkIsApplied
CHECK_DEADLOCK FALSE
