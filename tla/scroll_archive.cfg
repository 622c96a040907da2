CONSTANTS
    Readers = {r1}
    MailboxDepth = 2
    FrameRows = 2
    DiskCap = 2
    Faults = {"disk", "key", "space", "read", "remove", "timeout", "death"}
    MaxRows = 4
    HotRows = 1
    BareHotRows = 3
    GridRows = 1
    MaxPage = 4
    MaxYank = 4
    MaxMatches = 2
    MaxSearches = 3
    Matching = {0, 1, 2}
    Prompts = {1, 2, 4}
    Blank = Blank
    None = None
SPECIFICATION Spec
INVARIANTS
    ReadsAreTrue
    LossesCounted
    NavigationFits
CHECK_DEADLOCK FALSE
