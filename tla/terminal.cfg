SPECIFICATION Spec
CONSTANTS
    Widths = {3}
    Heights = {2, 3}
    Counts = {2, 3}
    MaxSteps = 4
    MaxOsc = 8
INVARIANTS
    ScreensHold
    MarksStandWhereSent
PROPERTIES
    ChangedRowsShip
    LinesFlowToHistory
CHECK_DEADLOCK FALSE
