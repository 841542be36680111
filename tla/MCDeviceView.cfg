CONSTANTS
    d1 = d1
    Devices = {d1}
    MaxFailures = 3
    Limit = 1
    MaxPoints = 2
    MaxRows = 4
    MaxDrops = 2
SPECIFICATION MCSpec
INVARIANTS
    Agreed
    StreamTypeOK
    HistoryHonest
    OneOwner
PROPERTIES
    SilenceIsNoticed
    ReportingRevives
    ViewCatchesUp
