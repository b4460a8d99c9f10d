SPECIFICATION Spec
CONSTANTS
    main = main
    canary = canary
    once = once
    Policies = {main, canary}
    Gray = {canary}
    Onces = {once}
    Rank <- RankOf
    MaxVersion = 2
    MaxRetryTime = 1
    DownAs = {"TERMINATED", "UNREGISTER"}
    MaxOps = 1
    MaxSlips = 1
INVARIANT TypeOK
PROPERTIES
    StaysStopped
    Quiesces
    Converges
