CONSTANTS
    Tasks = {a, b, c}
    MaxRequests = 2
SPECIFICATION FairGateSpec
INVARIANTS
    GateIsSafe
PROPERTIES
    SavesAtOnePoint
    NobodyStuck
CHECK_DEADLOCK FALSE
