CHECK_DEADLOCK FALSE
CONSTANTS
    Index = {1, 2}
    App = {a1}
    Daemon = {d1}
    Command <- Commands
    None = None
SPECIFICATION FairSpec
INVARIANTS
    TypeOK
    OnlyUsersSignalled
    ReportIsTrue
    HoldersReleased
PROPERTIES
    OthersUntouched
    CleanEnds
