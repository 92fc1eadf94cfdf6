SPECIFICATION FairSpec
CONSTANTS
    Conns = {c1, c2, c3}
    Brokering = TRUE
INVARIANTS ChildrenAccounted NoForgottenZombie
PROPERTIES TokensRedeemable ShutdownServed
CHECK_DEADLOCK FALSE
