CONSTANTS
    a = a
    b = b
    other = other
    d1 = d1
    Clients = {a}
    Devices = {d1}
    Wants <- MCWants
    MaxConnections = 2
    QueueSize = 1
    MaxEvents = 3
SPECIFICATION Spec
INVARIANTS
    SlotsReleased
CHECK_DEADLOCK FALSE
