SPECIFICATION Spec
CONSTANTS
    Threads = {t1, t2}
    Streams = {s1}
    NonBlocking = {}
    Null = Null
    Events = {e1}
    None = None
    Slots = 1
    Workloads <- TornWorkloads
INVARIANT CollectedComplete
CHECK_DEADLOCK FALSE
