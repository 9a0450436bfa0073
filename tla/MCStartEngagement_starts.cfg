CONSTANTS
    h1 = h1
    h2 = h2
    None = None
    Handlers = {h1, h2}
    Requests <- MCRequests
    MAX_ATTEMPTS = 3
    Statuses <- MCStatuses
    MaxCrashes = 1
SPECIFICATION Spec
INVARIANTS
    ActOnlyIfAudited
    AuditIsTruthful
    PendingIsCounted
PROPERTIES
    HandlersAnswer
    ImplementsStartPromise
CHECK_DEADLOCK FALSE
