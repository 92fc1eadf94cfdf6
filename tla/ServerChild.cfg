SPECIFICATION FairSpec
CONSTANTS
    Lanes = {l1, l2}
    MaxLanes = 2
    Handoffs = TRUE
INVARIANTS
    FinishAlone
    TermCheckpointed
PROPERTIES
    ChildExits
CHECK_DEADLOCK FALSE
