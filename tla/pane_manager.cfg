CONSTANTS
    MaxPanes = 4
    MaxTabs = 4
    MaxWorkspaces = 3
    NoPane = NoPane
    Users = {c1, c2}
SPECIFICATION FairManagerSpec
INVARIANTS
    PanesAndTabsAgree
PROPERTIES
    ImplementsDirectory
    RemovedIsReaped
CHECK_DEADLOCK FALSE
