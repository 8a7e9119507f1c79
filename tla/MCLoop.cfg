SPECIFICATION FairSpec
CONSTANTS
    a = a
    b = b
    None = None
    Session <- MCSession
    Roster0 <- Both
    Messages <- LoopMessages
    Cap = 5
    MinQueue = 1
    MaxMsgs = 4
    MaxId = 12
CHECK_DEADLOCK FALSE
PROPERTIES
    DeadStayQuiet
    
    WaitingIsVoiced
    FallsSilent
