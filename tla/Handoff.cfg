\* A connection with one capturing and one calling thread; k2 is another
\* connection's handoff.
CONSTANTS
    Captures = {t1}
    Callers = {t2}
    Checkpoints = {k1, k2}
    Conn = k1
    MaxWaits = 2

SPECIFICATION HFairSpec

INVARIANTS
    BarrierIsLast
    NoRequestAtBarrier
    PausedWithoutCaptures
    SocketIdle

PROPERTIES
    ImplementsGate
    HandoffEnds
    CallsSurviveHandoff
    GateServesAll

\* A closed connection hands off no more.
CHECK_DEADLOCK FALSE
