CONSTANTS
    Cameras <- SomeCameras
    Cap <- FullCap
    Bytes <- ModeBytes
    LoopbackMax = 2
    Polls = 2
    Stale = 2
    Panics = TRUE
    None = None
SPECIFICATION FairSpec
INVARIANTS
    TypeOK
    OutputInOrder
    ModeIsSteady
    ModeIsBest
PROPERTIES
    ImplementsContract
    ImplementsOutput
    StopHonoured
    FramesResume
