SPECIFICATION FairSpec
CONSTANTS
    Callers = {c1, c2, c3}
    Drainers = {d1, d2}
    MaxDrains = 3
PROPERTIES ImplementsGate NobodyForgotten
