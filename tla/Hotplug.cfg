CONSTANTS
    Camera = {c1}
    Debounce = 2
    SettleStep = 2
    SettleMax = 3
    QueueMax = 2
    NoteMax = 2
SPECIFICATION FairSpec
INVARIANTS
    TypeOK
    ChangeIsPending
PROPERTIES
    EventuallyKnown
    DiscoveryEnds
    ShutdownEnds
