SPECIFICATION Spec
CONSTANTS
    Instances = {i1, i2}
    NumActs = 3
    NeedSchedule <- MiddlePolls
    MaxPolls = 2
    Revokers = {r1}
    MaxMissed = 0
    RetryCap = 2
INVARIANT
    RevokedStaysFailed
