CONSTANTS
    Clients = {c1}
    MaxHistory = 2
    MaxSessions = 2
    MaxUserSteps = 3
    NoBase = NoBase
SPECIFICATION FairSpec
INVARIANTS
    ReadsMatchTheirPin
    NothingLeftBehind
PROPERTIES
    NothingLasts
CHECK_DEADLOCK FALSE
