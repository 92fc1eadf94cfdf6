\* An aborted handoff: every call should still return.
CONSTANTS
    Captures = {}
    Callers = {t2}
    Checkpoints = {k1}
    Conn = k1
    MaxWaits = 1

SPECIFICATION HFairSpec

PROPERTY EveryCallReturns

CHECK_DEADLOCK FALSE
