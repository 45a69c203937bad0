CHECK_DEADLOCK FALSE
CONSTANTS
    MaxFailures = 2
    CountMax = 2
    BackoffBase = 1
    MaxBackoff = 2
    QuarantineFor = 2
    MaxClock = 7
    Second = 2
    HeartbeatStale = 1
    StaleFrame = 1
    None = None
SPECIFICATION StatusSpec
INVARIANTS
    StatusTypeOK
    StaleMeansLate
    ShownIsOfSession
    ManagedNotQuarantined
PROPERTY
    ImplementsView
