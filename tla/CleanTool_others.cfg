CHECK_DEADLOCK FALSE
CONSTANTS
    Index = {1}
    App = {a1}
    Daemon = {d1}
    Command <- PlainClean
    None = None
SPECIFICATION FairSpec
PROPERTY OthersLeftAlone
