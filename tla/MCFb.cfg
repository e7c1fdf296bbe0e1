SPECIFICATION MCSpec
CONSTANTS
    None = None
    Regions = {1, 2}
    Pictures <- MCPictures
    Black = "black"
    MaxPages = 2
    MaxLayer = 1
    MaxSlots = 1
    FlushFails = FALSE
    LampFails = FALSE
    MaxCalls = 4
    Modes <- MCModes
    Half = 64
    MaxAltered = 2
    Alignment = 8
    Dimensions = {1, 2, 5, 8, 14, 15, 16, 32, 63}
    MaxReserved = 2
    Processes = {p1}
    Threads = {t1, t2}
    Handles = {h1, h2}
    MaxImports = 2
    MaxLocks = 2
    AddressReuse = FALSE
    Values = {1, 2}
INVARIANTS FbShows MemorySound
PROPERTY VsyncArrives
CHECK_DEADLOCK FALSE
