SPECIFICATION FairSpec
CONSTANTS
    MaxCalls = 3
    MaxPulses = 2
INVARIANTS EndsOnce
PROPERTIES OnlyOwnSession ClosedSessionEnds
