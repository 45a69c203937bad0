CONSTANTS
    Camera = {c1, c2}
    Node = {n1, n2}
    Slot = {s1, s2}
    Thread = {t1, t2}
    Card = {k1}
    OtherCard = {}
    CardOf <- OneCard
    Answers <- OwnOnly
    NeedsShim = {c1, c2}
    Disturbances = {}
    MaxFailures = 2
    CountMax = 2
    None = None
    Free = Free
SPECIFICATION Spec
INVARIANT OneLoopbackEach
