SPECIFICATION Spec
CONSTANTS
    MaxRequests = 1
    Streams = {front}
    Buffers = {1}
    Controllers = {flusher}
INVARIANTS PendingReturned
CHECK_DEADLOCK FALSE
