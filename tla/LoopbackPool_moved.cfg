CONSTANTS
    Camera = {c1, c2}
    Slot = {10, 11}
    Start = 10
    Process = {p1}
    Card = {c1, c2}
    OtherCard = {}
    CardOf <- OwnCards
    Answers <- OwnOnly
    Disturbances = {}
    None = None
    Free = Free
    Missing = Missing
    Broken = Broken
SPECIFICATION Spec
PROPERTY StableIndex
