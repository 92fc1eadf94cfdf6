SPECIFICATION Spec
CONSTANTS
    Threads = {t1, t2}
    Streams = {s1, n1}
    NonBlocking = {n1}
    Null = Null
    Events = {e1, e2}
    None = None
    Slots = 1
    Workloads <- MCWorkloads
SYMMETRY Symmetry
INVARIANTS
    TypeOK
    InOnePlace
    StaleCoversOwed
    LandsAtSynchronize
    
    QueryTruthful
