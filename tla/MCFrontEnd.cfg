SPECIFICATION MCSpec
CONSTANTS
    Hardware = {1, 2}
    Composites = {3}
    InputOf <- MCInputOf
    InputPeriod <- MCInputPeriod
    MinDelay <- MCMinDelay
    MaxDelay <- MCMaxDelay
    OneShot = {2}
    Injectable = {1}
    Threads <- MCThreads
    SensorsOf <- MCSensorsOf
    Periods = {1}
    Latencies = {0}
    DefaultPeriod = 5
    Nobody = 0
    Posters = {p1, p2}
    Capacity = 2
    MaxBatch = 1
    MaxPosts = 2
    MaxInits = 2
INVARIANTS
    UnionOfRequests
    AcknowledgedRuns
    NoLateEvents
    LockCovers
PROPERTIES
    NoRedundantActivate
    ControlReturns
    LockReleased
