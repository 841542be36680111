CONSTANTS
    Window = 2
    Stride = 2
    Tolerance = 2
    SplitNum = 1
    SplitDen = 2
    Owner = "d"
    Readings <- MCReadings
    Gaps = {1, 3}
    Consecutive = 2
    Extreme <- Heavy
    MaxRows = 4
    MaxRestarts = 1
    MaxUnseen = 1
    Exports <- MCExports
    Manifests <- MCManifests
    Devices = {"d", "e"}
    Settings <- MCSettings
    MinApproved = 4
    MinTrain = 1
    MinCalibration = 1
    MaxRuns = 2
    MaxStarts = 1
    Invocations <- MCInvocations
    Cap = 30
    Sources = {"d", "e"}
    Times = {1, 2}
    Queries <- MCQueries
    MaxLimit = 2
    MaxReadings = 3
    MaxPages = 4
SPECIFICATION MCSpec
INVARIANTS
    TypeOK
    WindowSound
    SameWindows
    VerdictReproduced
    GateAndAuditAgree
    ActiveIsValidated
    TornNeverLoaded
    PromotedIsAttested
    DeadStaysDead
    ExitTellsTruth
    ScenarioGaps
    PagedOnce
CHECK_DEADLOCK FALSE
