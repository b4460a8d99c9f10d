SPECIFICATION Spec
CONSTANTS
    w1 = w1
    w2 = w2
    a1 = a1
    a2 = a2
    Nobody = Nobody
    Watchers = {w1, w2}
    Appliers = {a1, a2}
    MaxEvents = 2
    MaxMishaps = 1
INVARIANTS
    TypeOK
    OneAtWork
    NothingSkipped
    UpToDate
PROPERTY Mirrors
