SPECIFICATION Spec
CONSTANTS
    Instances = {i1, i2}
    Calls = {c1, c2}
    NoCall = NoCall
INVARIANTS
    TypeOK
    FailureIsReported
    LatestIsServed
PROPERTIES
    CallersAreAnswered
    FreesUp
\* the calls come to an end
CHECK_DEADLOCK FALSE
