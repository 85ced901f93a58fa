SPECIFICATION MCSpec
CONSTANTS
    k1 = k1
    k2 = k2
    k3 = k3
    c1 = c1
    c2 = c2
    c3 = c3
    Calls = {k1, k2, k3}
    Children = {c1, c2, c3}
    MayTimeOut = TRUE
    MayCrash = TRUE
INVARIANT NoOrphan
INVARIANT IdleIsTimed
INVARIANT OneInitialize
INVARIANT ReplacedSilently
PROPERTY RequestsReachLiving
PROPERTY CallsAnswered
CHECK_DEADLOCK FALSE
