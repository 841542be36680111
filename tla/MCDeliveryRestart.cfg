CONSTANTS
    t1 = t1
    t2 = t2
    s1 = s1
    b1 = b1
    k1 = k1
    Telemetry = {t1}
    Status = {}
    Invalid = {}
    Keys = {k1}
    KeyOf <- MCKeyOf
    Mids <- MCFreshMids
    MidOf <- MCFreshMidOf
    QueueSize = 1
    MaxDrops = 0
    MaxFailures = 0
    MaxLives = 1
SPECIFICATION Spec
INVARIANTS
    NothingMissed
CHECK_DEADLOCK FALSE
