SPECIFICATION MCSpec
CONSTANTS
    None = None
    Off = Off
    Configs = {1, 2}
    MaxLayer = 2
    MaxSlots = 1
    Commands <- MCCommands
    EmptyTargets = FALSE
    PresentsWhileOff = FALSE
    ModeListChanges = FALSE
    Displays = {1, 2}
    MaxPhases = 2
    MaxChanges = 4
    Never = Never
    Machines <- MCMachines
    Timings <- MCTimings
    Lists <- MCLists
    MaxMoves = 2
INVARIANTS DisplaySound PipelinesSound HotplugInSync
 
CHECK_DEADLOCK FALSE
