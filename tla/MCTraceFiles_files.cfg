CONSTANTS
    MAX_FILE_BYTES = 3
    RETENTION_DAYS = 1
    MaxLine = 2
    MaxBatch = 2
    MaxDay = 3
    MaxBack = 1
    MaxExports = 4
    MaxStarts = 2
    MaxStatFails = 1
    None = None
SPECIFICATION Spec
INVARIANTS
    SpansAccounted
    SizeBounded
    EnvelopePerLine
    PurgedAtStart
PROPERTY
    RotatesDaily
CHECK_DEADLOCK FALSE
