CONSTANTS
    Clients = {c1, c2}
    MaxOutput = 3
SPECIFICATION FairPaneSpec
INVARIANTS
    OneShellWatched
PROPERTIES
    ClosedIsDead
    NoOrphanShell
    Announced
CHECK_DEADLOCK FALSE
