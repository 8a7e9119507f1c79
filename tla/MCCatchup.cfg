SPECIFICATION CFairSpec
CONSTANTS
    a = a
    b = b
    None = None
    Session <- MCSession
    Roster0 <- Both
    Messages <- CatchMessages
    Cap = 9
    MinQueue = 1
    MaxMsgs = 4
    MaxId = 20
CHECK_DEADLOCK FALSE
INVARIANTS
    RenderSound
    HeardInOrder
PROPERTIES
    BurnIsRight
    ResultLands
