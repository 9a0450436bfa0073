CONSTANTS
    e1 = e1
    b1 = b1
    s1 = s1
    s2 = s2
    None = None
    Engagements = {e1}
    Batches = {b1}
    Subscribers = {s1}
    BatchOf <- MCBatchOf1
    CHANNEL_CAP = 1
    MaxEvents = 1
    MaxFaults = 0
    MaxFailures = 0
    MaxGapFills = 0
SPECIFICATION Spec
PROPERTY
    RunReturns
CHECK_DEADLOCK FALSE
