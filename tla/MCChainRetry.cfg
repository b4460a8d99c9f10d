SPECIFICATION QuietSpec
CONSTANTS
    Instances = {i1, i2}
    NumActs = 3
    NeedSchedule <- MiddlePolls
    MaxPolls = 2
    Revokers = {}
    MaxMissed = 0
    RetryCap = 2
INVARIANT
    OneRetryPerFailure
\* a deployment ends
CHECK_DEADLOCK FALSE
