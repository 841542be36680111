CONSTANTS
    d1 = d1
    Devices = {d1}
    MaxFailures = 0
SPECIFICATION Spec
PROPERTIES
    OfflineStays
