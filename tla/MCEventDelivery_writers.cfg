CONSTANTS
    None = None
    Engagements = {e1, e2}
    Batches = {}
    Subscribers = {s1}
    BatchOf <- MCBatchOf
    CHANNEL_CAP = 1
    MaxEvents = 2
    MaxFaults = 1
    MaxFailures = 0
    MaxGapFills = 0
    Writers = {w1, w2}
    MaxTx = 2
SPECIFICATION DeliverySpec
INVARIANTS
    SequencesNeverCollide
    NoSilentLoss
PROPERTIES
    ImplementsListenNotify
    WritersFinish
    EventsReachSubscribers
    Reconnects
    ReturnsUnlessWaiting
CHECK_DEADLOCK FALSE
