CONSTANTS
    RowCount = 2
    Texts = {blank, x}
    Blank = blank
    MaxOutputs = 3
    MaxRefreshes = 1
    Offsets = {1, 2}
    MaxSteps = 3
SPECIFICATION ASpec
INVARIANTS
    MirrorFollows
    ReaderHearsScreen
PROPERTIES
    SettlesDown
CHECK_DEADLOCK FALSE
