SPECIFICATION FairSpec
CONSTANTS
    Conns = {c1}
    Brokering = TRUE
PROPERTIES
    ShutdownCompletes
CHECK_DEADLOCK FALSE
