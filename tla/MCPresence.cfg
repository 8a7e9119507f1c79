SPECIFICATION PFairSpec
CONSTANTS
    GiveUp = 2
    MaxPlayers = 2
    MaxChanges = 2
CHECK_DEADLOCK FALSE
INVARIANTS
    NeverUnbidden
PROPERTIES
    StreamUnbroken
    ReturningHeard
    StreamFollowsNeed
