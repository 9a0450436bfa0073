CONSTANTS
    s1 = s1
    s2 = s2
    QUEUE_CAPACITY = 3
    MAX_BATCH = 2
    EXPORT_TIMEOUT = 5
    SHUTDOWN_TIMEOUT = 5
    Callers <- MCCallers1
    MaxSending = 1
    MaxLatency = 3
    MaxEnded = 4
SPECIFICATION Spec
INVARIANT GuaranteedFlush
CHECK_DEADLOCK FALSE
