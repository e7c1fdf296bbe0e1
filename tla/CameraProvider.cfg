SPECIFICATION Spec
CONSTANTS
    Keys = {1, 2, 3, 4}
    Nodes = {0, 1}
    Internal = {1}
    Unusable = {4}
    ExternalOffset = 1
    MaxRetries = 1
    MaxChanges = 4
    EarlyPlug = FALSE
    FastSwap = FALSE
PROPERTY Converges
CHECK_DEADLOCK FALSE
