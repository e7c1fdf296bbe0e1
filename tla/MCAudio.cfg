SPECIFICATION MCSpec
CONSTANTS
    None = None
    Streams = {s1, s2}
    Started = {s1}
    Devices <- MCDevices
    DeviceLists <- MCDeviceLists
    Endpoint <- MCEndpoint
    UsbEndpoint <- MCUsbEndpoint
    InputEndpoints = {"mic"}
    NullEndpoints = {"none"}
    HdmiHeads <- MCHdmiHeads
    UcmDevices = {"Speaker", "HDMI1", "HDMI2", "Mic"}
    UcmDevice <- MCUcmDevice
    Conflicting <- MCConflicting
    SetFails = FALSE
    MaxCalls = 3
    Burst = 2
    Buffer = 4
    MaxRecoverAttempts = 5
    ResumeAttempts = 2
    MaxBursts = 2
    Gone = Gone
    Systems <- MCSystems
    Configurations <- MCConfigurations
    PcmNames <- MCPcmNames
    UcmNames <- MCUcmNames
    Reports <- MCReports
    Probes <- MCProbes
    Instances = {i1, i2}
    Commons <- MCCommons
    RejectsLater = FALSE
    OpenFailsLate = FALSE
    SharedBuffer = FALSE
INVARIANTS
    StreamsSound
    
PROPERTIES
    SharedStaysOn
    TransferReturns
CHECK_DEADLOCK FALSE
