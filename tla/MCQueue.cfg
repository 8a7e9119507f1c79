SPECIFICATION Spec
CONSTANTS
    a = a
    b = b
    None = None
    Session <- MCSession
    Roster0 <- Both
    Messages <- QueueMessages
    Cap = 2
    MinQueue = 2
    MaxMsgs = 5
    MaxId = 20
SYMMETRY Symmetry
CHECK_DEADLOCK FALSE
INVARIANTS
    MuteIsWhole
    LedgerSound
    NothingDuplicated
PROPERTIES
    FrontierNeverRetreats
