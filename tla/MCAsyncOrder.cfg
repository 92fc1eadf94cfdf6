SPECIFICATION FairSpec
CONSTANTS
    Lanes = {l1, l2}
    NoLane = NoLane
    MaxTickets = 2
    Faults = TRUE
INVARIANTS FenceRespected ServedPrefixExact NoOverlapWait
PROPERTY ReplyOrFailure
