SPECIFICATION FairSpec
CONSTANTS
    p1 = p1
    p2 = p2
    None = None
    Probes = {p1, p2}
    Early = {p1}
    LocalPrio <- Prios
    Levels = {2, 4}
    Default = 2
    PROBEDATAQUEUESZ = 2
    MaxEvents = 3
    MaxOps = 1
INVARIANTS
    SemaphoreCounts
    OrderKept
    NothingVanishes
 
CHECK_DEADLOCK FALSE
