CONSTANTS
    Cameras <- SomeCameras
    Cap <- FullCap
    Bytes <- ModeBytes
    LoopbackMax = 2
    Polls = 2
    Stale = 2
    Panics = FALSE
    None = None
SPECIFICATION FairSpec
PROPERTY FramelessIsStale
