SPECIFICATION MCSpec
CONSTANTS
    caller1 = caller1
    caller2 = caller2
    mode1 = mode1
    mode2 = mode2
    None = None
    Callers <- MCCallers
    Sessions = {1, 2, 3}
    FirstBufferFails = FALSE
    Modes <- MCModes
    Settings <- MCSettings
    Precapture = 1
    PreflashTimeout = 1
    Settle = 1
    BufferCount = 2
    MaxSkippedFrames = 1
    MaxStaleFrames = 1
    MaxTime = 3
    MaxConfigures = 2
    Has3aLock = FALSE
    MediaNode = 0
    Function <- MCFunction
    Links <- MCLinks
    Codes <- MCCodes
    Bayer = {3}
    NodeFormats <- MCNodeFormats
    KnownFormats <- MCKnownFormats
    Processed = {"YUYV", "UYVY"}
    Isp = {"RAW10"}
    SoftwareIsp = TRUE
    MaxDepth = 4
    Plain <- MCPlain
    Facts <- MCFacts
    Properties <- MCProperties
    LinkedFlash <- MCLinkedFlash
    LedClass = {"led0"}
    Light <- MCLight
    Late = {0, 8, 9}
    MaxUnplugs = 1
    AllFormats <- MCAllFormats
    EnumSizes <- MCEnumSizes
    EnumDurations = {4, 6}
    DefaultDuration = 3
    StandardSizes <- MCStandardSizes
    Preferred = 3
    Keys = {1, 2, 3, 4}
    DevNodes = {0, 1}
    Internal = {1}
    Unusable = {4}
    ExternalOffset = 1
    MaxRetries = 1
    MaxChanges = 4
    EarlyPlug = FALSE
    FastSwap = FALSE
SYMMETRY MCSymmetry
INVARIANTS LitByOwner SessionHasFlash FramesSound CamerasSound ListAgrees
PROPERTY ComesBack
CHECK_DEADLOCK FALSE
