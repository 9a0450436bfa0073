CONSTANTS
    e1 = e1
    b1 = b1
    s1 = s1
    s2 = s2
    None = None
    Engagements = {e1}
    Batches = {b1}
    Subscribers = {s1, s2}
    BatchOf <- MCBatchOf1
    CHANNEL_CAP = 1
    MaxEvents = 3
    MaxFaults = 1
    MaxFailures = 1
    MaxGapFills = 1
SPECIFICATION Spec
SYMMETRY MCSymmetry
INVARIANTS
    NoSilentLoss
    GaugeNeverUnderstates
    LiveEventsAdvance
    NoUnannouncedHole
CHECK_DEADLOCK FALSE
