SPECIFICATION FairSpec
CONSTANTS
    a = a
    b = b
    r1 = r1
    r2 = r2
    None = None
    Session <- MCSession
    Request <- MCRequest
CHECK_DEADLOCK FALSE
INVARIANTS
    AllowedOnlyByPress
    
PROPERTIES
    EveryHookReleased
    
