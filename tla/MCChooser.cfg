SPECIFICATION BSpec
CONSTANTS
    a = a
    b = b
    None = None
    Session <- MCSession
    Roster0 <- Both
    Messages <- BrowseMessages
    Cap = 9
    MinQueue = 1
    MaxMsgs = 2
    MaxId = 20
    MaxWire = 2
    MaxTaps = 2
SYMMETRY Symmetry
CHECK_DEADLOCK FALSE
INVARIANTS
    BrowseSound
    BrowseEnds
PROPERTIES
    LandsOnTheLiving
    GivenBack
