SPECIFICATION FairSpec
CONSTANTS
    loop = loop
    boot = boot
    c1 = c1
    c2 = c2
    Nobody = Nobody
    Thread <- MCThread
    Claimer <- MCClaimer
    Canceller <- MCCanceller
    MaxEpoch = 2
    MaxProc = 2
CHECK_DEADLOCK FALSE
INVARIANTS
    OneVoiceAtATime
    CancelReaches
PROPERTIES
    ImplementsOneVoice
    CancelEnds
