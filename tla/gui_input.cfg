SPECIFICATION FairSpec
CONSTANTS
    Directories <- MCDirectories
    FirstFiles <- MCFirstFiles
    Keys <- MCKeys
    Leader <- MCLeader
    OakMod = {"ctrl", "shift"}
    CopySupported = TRUE
    MaxVisible = 3
    MaxEvents = 4
INVARIANTS
    CallsAreSound
    PaletteShowsBest
PROPERTIES
    TypingStaysInOrder
    ClicksComeWhole
    
CHECK_DEADLOCK FALSE
