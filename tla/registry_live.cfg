SPECIFICATION FairSpec
CONSTANTS
    Sensors = {s1}
    Keys = {k1, k2}
    None = None
    Pruners = {p1}
    SyncPeriod = 2
    PruneAge = 3
    StopRetrying = FALSE
    Timely = TRUE
    FaultKinds = {"handler", "connection", "sensor", "api"}
    MaxFaults = 2
PROPERTIES
    UnsyncedRowsRemoved
    EventuallyRegistered
