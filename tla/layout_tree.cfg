SPECIFICATION Spec
CONSTANTS
    MaxPanes = 4
    MaxMoves = 1
    MaxChecked = 1
    ContentWidth = 23
    ContentHeight = 17
    CellPixels = 2
    MaxDelta = 2
PROPERTIES
    GeometryOfSteps
    ScreenFollowsTree
CHECK_DEADLOCK FALSE
