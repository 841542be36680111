CONSTANTS
    a = a
    b = b
    other = other
    d1 = d1
    Clients = {a, b, other}
    Devices = {d1}
    Wants <- MCWants
    MaxConnections = 2
    QueueSize = 1
    MaxEvents = 2
SPECIFICATION FairSpec
INVARIANTS
    CapHeld
    CountedOnce
    NothingSkipped
PROPERTIES
    DroppedIsClosed
    GoneIsReleased
CHECK_DEADLOCK FALSE
