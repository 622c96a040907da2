SPECIFICATION FairSpec
CONSTANTS
    MaxPanes = 4
    MaxTabs = 3
    MaxWorkspaces = 1
    NoPane = NoPane
    NoTab = NoTab
    MaxActions = 3
INVARIANTS
    MirrorIsTrue
PROPERTIES
    ClosedViewsAreClosed
    Settles
CHECK_DEADLOCK FALSE
