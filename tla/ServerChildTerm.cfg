SPECIFICATION FairSpec
CONSTANTS
    Lanes = {l1}
    MaxLanes = 1
    Handoffs = TRUE
PROPERTIES
    TermExits
CHECK_DEADLOCK FALSE
