SPECIFICATION SuiteSpec
CONSTANTS
    Entities = {1, 2}
    MaxOps = 2
    KernelSensors <- MCKernelSensors
    MaxRecords = 2
    MaxAsks = 2
    MaxSock = 6
    MaxRelayFaults = 1
    BccTools = {"opensnoop", "tcpaccept"}
    MaxLines = 2
    Levels = {1, 2}
    MaxLevels = 1
    Clients = {1, 2}
    MaxSent = 3
    MaxBody = 1
    MaxRestarts = 1
INVARIANTS PassReports  RelayKeepsAll EachLineOnce 
PROPERTIES ImplementsChannel Found StopEnds  Drained EndIsReported
CHECK_DEADLOCK FALSE
