SPECIFICATION Spec
CONSTANTS
    Threads = {monitor, binder1, binder2}
    Monitor = monitor
    MaxCalls = 1
    monitor = monitor
    binder1 = binder1
    binder2 = binder2
INVARIANT NoCircularWait
CHECK_DEADLOCK FALSE
