SPECIFICATION EngineSpec
CONSTANTS
    Instances = {i1, i2, i3}
    NumActs = 3
    NeedSchedule <- EndsPoll
    MaxPolls = 2
    Revokers = {}
    MaxMissed = 0
    RetryCap = 1
PROPERTIES
    RecordsFollowLifecycle
    ChunkSettles
\* the chain ends
CHECK_DEADLOCK FALSE
