CONSTANTS
    t1 = t1
    t2 = t2
    s1 = s1
    b1 = b1
    k1 = k1
    Telemetry = {t1}
    Status = {s1}
    Invalid = {}
    Keys = {k1}
    KeyOf <- MCKeyOf
    Mids <- MCFreshMids
    MidOf <- MCFreshMidOf
    QueueSize = 1
    MaxDrops = 1
    MaxFailures = 1
    MaxLives = 2
SPECIFICATION Spec
INVARIANTS
    ReleasedIsDecided
    BroadcastOnce
    VerdictIsolated
    ShutdownAcksArrive
PROPERTIES
    Implements
CHECK_DEADLOCK FALSE
