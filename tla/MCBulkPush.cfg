SPECIFICATION Spec
CONSTANTS
    h1 = h1
    h2 = h2
    Nobody = Nobody
    Hosts = {h1, h2}
    Patience = 1
    Timeout = 2
    MaxMishaps = 2
INVARIANTS
    TypeOK
    HolderHolds
    FollowsItsJob
    NothingBreaks
    PushedOnce
PROPERTY Settles
