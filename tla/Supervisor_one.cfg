CONSTANTS
    Camera = {c1}
    Node = {n1, n2}
    Slot = {s1, s2}
    Thread = {t1}
    Card = {k1}
    OtherCard = {o1, o2}
    CardOf <- OwnCards
    Answers <- OwnAndAlike
    NeedsShim = {}
    Disturbances = {"panic", "create", "probe", "crash", "clean", "foreign", "late_entry", "hold"}
    MaxFailures = 2
    CountMax = 2
    None = None
    Free = Free
SPECIFICATION Spec
SYMMETRY NodeSlotThreadSymmetry
INVARIANTS
    TypeOK
    ManagedIsClean
    SnapshotDisjoint
    
    PassConverges

    
    
