SPECIFICATION FairSpec
CONSTANTS
    MaxRequests = 3
    Streams = {front, still}
    Buffers = {1}
    Controllers = {flusher1, flusher2}
INVARIANTS NoWriteAfterFree
PROPERTIES InOrder FlushComplete WorkerServes
CHECK_DEADLOCK FALSE
