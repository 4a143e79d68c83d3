SPECIFICATION Spec
CONSTANTS
    Sensors = {s1}
    Keys = {k1, k2}
    None = None
    Pruners = {p1, p2}
    SyncPeriod = 2
    PruneAge = 3
    StopRetrying = FALSE
    Timely = FALSE
    FaultKinds = {"handler", "connection", "sensor", "api"}
    MaxFaults = 1
SYMMETRY Symmetry
INVARIANTS
    AcknowledgedIsComplete
    RegisteredIsUsable
    
    AnnouncedOnce
    RegistryInv
PROPERTY ImplementsLifecycle
