CONSTANTS
    telemetry = telemetry
    status = status
    Filters = {telemetry, status}
    MaxFaults = 3
SPECIFICATION FairSpec
INVARIANTS
    OneAttempt
    HealthEarned
    NeverDeaf
    StopIsFinal
PROPERTIES
    Recovers
CHECK_DEADLOCK FALSE
