SPECIFICATION FairSpec
CONSTANTS
    c1 = c1
    m1 = m1
    m2 = m2
    d1 = d1
    f1 = f1
    n1 = n1
    Clients = {c1}
    Mounts = {m1, m2}
    Dirs = {d1}
    Files = {f1}
    Names = {n1}
    None = None
    PrefixMounts <- PrefixPair
    Tables <- AllTables
    Procs <- AllProcs
    Lossy = TRUE
    Leading <- LeadingProcs
    MaxCalls = 3
    MaxDepth = 3
INVARIANTS   OnlyEmptyRepliesStay
 
CHECK_DEADLOCK FALSE
