SPECIFICATION FairSpec
CONSTANTS
    Observers = {o1}
    Levels = {default, high, off}
    Configured = {default, high}
    Default = default
    None = None
    MaxTimeouts = 0
PROPERTIES
    SignalDeregisters
CHECK_DEADLOCK FALSE
