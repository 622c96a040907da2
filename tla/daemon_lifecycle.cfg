CONSTANTS
    Conns = {a, b}
    Watched = a
    Base = 16
    MaxPayload = 300
    MaxRows = 4
    Majors = {1, 2}
    MaxHello = 40
    ChunkSize = 9
    MaxSaid = 2
    MaxNotices = 1
    MaxSerial = 11
SPECIFICATION CSpec
INVARIANTS
    HeardAsSaid
    ExitsRightly
PROPERTIES
    RequestsSettle
    DaemonEnds
CHECK_DEADLOCK FALSE
