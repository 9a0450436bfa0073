CONSTANTS
    c1 = c1
    r1 = r1
    r2 = r2
    NoDeadline = NoDeadline
    Calls <- MCCalls
    Methods <- AdapterMethods
    Faults <- MCFaults
    RequestIds <- MCRequestIds
    Budgets <- MCBudgets
    AdapterDefault = 8
    MaxLatency = 1
    SleepSlop = 1
SPECIFICATION Spec
INVARIANTS
    EffectAtMostOnce
    RetryableErrorMeansExhausted
    RetryKeepsFloor
    MetricsAccountForCalls
PROPERTIES
    CallReturns
    ImplementsRemoteCall
CHECK_DEADLOCK FALSE
