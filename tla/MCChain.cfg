SPECIFICATION Spec
CONSTANTS
    Instances = {i1, i2}
    NumActs = 3
    NeedSchedule <- MiddlePolls
    MaxPolls = 2
    Revokers = {r1}
    MaxMissed = 1
    RetryCap = 1
INVARIANTS
    TypeOK
    SuccessIsEarned
    OnlySucceededAdvance
    EndedLeavesNothingRunning
    RevokeStopsWithinOneActivity
PROPERTIES
    EveryRecordSettles
