SPECIFICATION Spec
CONSTANTS
    a = a
    Streams = {a}
    Script <- MCScript
    Size <- MCSize
    Window <- MCWindow
    Limit = 0
    Block = 2
    SocketRoom = 1
    Breaks = TRUE
    Closers = {"client"}
INVARIANTS
    TypeOK
    StreamIntact
    BufferAlive
    EndAfterAll
    MemoryBounded
    RequestsArrive
    CallsReturn
PROPERTIES
    EventuallyStuck
CHECK_DEADLOCK FALSE
