SPECIFICATION MCSpec
CONSTANTS
    Sensors = {s1, s2}
    Pollable = {s1, s2}
    BufferCapable = TRUE
    Partial = TRUE
    FlushesQueue = FALSE
    s1 = s1
    s2 = s2
    None = None
    SensorCount = 2
    TypeOf <- MCTypeOf
    OnChange = {2}
    Listed <- MCListed
    Requests = {0, 5}
    DefaultRate = 30
    OnChangeRate = 15
    Lists <- MCLists
    BackendNodes <- MCNodes
    FallbackOnly = {"mock"}
    CompositeSensors <- MCCompositeSensors
    Awaited = 4
    MaxAttempts = 2
INVARIANTS
    
    RateServesAll
    ReadingsTrue
    SwitchIsCurrent
    ListIsSound
PROPERTIES
    SilentBufferAbandoned
    ReportsWhenHeld
    CallsReturn
CHECK_DEADLOCK FALSE
