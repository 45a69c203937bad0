CONSTANTS
    Camera = {c1}
    Node = {n1}
    Slot = {s1}
    Thread = {t1, t2}
    Card = {k1}
    OtherCard = {}
    CardOf <- OwnCards
    Answers <- OwnOnly
    NeedsShim = {c1}
    Disturbances = {"panic"}
    MaxFailures = 2
    CountMax = 2
    None = None
    Free = Free
SPECIFICATION FairSpec
PROPERTY RepeatedCrashesQuarantine
