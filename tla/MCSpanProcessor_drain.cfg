CONSTANTS
    s1 = s1
    s2 = s2
    QUEUE_CAPACITY = 3
    MAX_BATCH = 2
    EXPORT_TIMEOUT = 2
    SHUTDOWN_TIMEOUT = 2
    Callers <- MCCallers2
    MaxSending = 2
    MaxLatency = 2
    MaxEnded = 6
SPECIFICATION Spec
INVARIANTS
    TypeOK
    Conservation
    LossStaysBounded
    ShutdownWaits
PROPERTIES
    ShutdownReturns
    SpansSettle
CHECK_DEADLOCK FALSE
