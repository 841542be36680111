CONSTANTS
    QueueCapacity = 2
    MaxPublishes = 2
    MaxSeq = 4
    MaxFaults = 3
    Wrap = 16
    SampleInterval = 3
    Initial = 2
    MaxDelay = 5
    JitterPercent = 50
    RefreshInterval = 1
    Stale = 2
    MaxPass = 2
    MaxWait = 6
    Boot = 10
    End = 20
SPECIFICATION MCSpec
INVARIANTS
    StatusFirst
    LossIsCounted
    EnergyHonest
PROPERTIES
    OnSchedule
    Drains
