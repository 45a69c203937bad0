CONSTANTS
    Camera = {c1, c2}
    Slot = {9, 10}
    Start = 10
    Process = {p1, p2}
    Card = {c1, c2}
    OtherCard = {o1}
    CardOf <- OwnCards
    Answers <- OwnAndAlike
    Disturbances = {"crash", "write", "refuse", "foreign"}
    None = None
    Free = Free
    Missing = Missing
    Broken = Broken
SPECIFICATION Spec
SYMMETRY CameraProcessSymmetry
INVARIANTS
    TypeOK
    NoForgottenCamera
    NeverMisleads
PROPERTY
    ReturnsToItsNumber
