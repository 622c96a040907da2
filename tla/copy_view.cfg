SPECIFICATION FairSpec
CONSTANTS
    Histories = {1, 14}
    Offsets = {0, 1, 5}
    Visible = 4
    Cols = 2
    ChunkRows = 5
    Later = 3
    MaxKeys = 3
    MaxFailures = 1
    None = None
INVARIANTS
    ViewIsTrue
    YankTakesWhatShows
PROPERTIES
    ComesToRest
CHECK_DEADLOCK FALSE
