CONSTANTS
    telemetry = telemetry
    status = status
    Filters = {telemetry, status}
    MaxFaults = 2
SPECIFICATION FairSpec
PROPERTIES
    WorkingSessionSpared
CHECK_DEADLOCK FALSE
