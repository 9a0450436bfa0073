CONSTANTS
    Configs <- MCConfigs
    None = None
    MaxInFlight = 1
SPECIFICATION Spec
INVARIANTS
    RunsAsConfigured
    DrainPrecedesStop
    PoolOutlivesRequests
PROPERTY
    ExitsCleanly
CHECK_DEADLOCK FALSE
