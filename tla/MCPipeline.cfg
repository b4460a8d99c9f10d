SPECIFICATION Spec
CONSTANTS
    b1 = b1
    b2 = b2
    Branches = {b1, b2}
    Last <- LastOf
    Polled <- PolledOf
    MaxMishaps = 2
INVARIANTS
    TypeOK
    NoTwins
    StillSaysWhy
    FinishedIsComplete
PROPERTIES
    InOrder
    ImplementsForkJoin
\* the pipeline comes to an end
CHECK_DEADLOCK FALSE
