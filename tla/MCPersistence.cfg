SPECIFICATION FairSpec
CONSTANTS
    MaxChanges = 4
    MaxFaults = 1
    MaxKills = 1
CHECK_DEADLOCK FALSE
INVARIANTS
    ShutdownLosesNothing
PROPERTIES
    ImplementsStableStore
    EverySaved
    HeededSignalEnds
