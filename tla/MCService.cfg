SPECIFICATION FairSpec
CONSTANTS
    job = job
    lazy = lazy
    nobody = nobody
    h1 = h1
    press = press
    Daemons <- MCDaemons
    Job = job
    Nobody = nobody
    Hooks <- MCHooks
    Press = press
    Messages = 1
    Conns <- MCConns
    Cap = 2
    WitnessFailAfter = 3
    MaxFaults = 1
CHECK_DEADLOCK FALSE
INVARIANTS
    DaemonSound
    PermitsAddUp
PROPERTIES
    
    DaemonComesBack
    AbsenceIsAnnounced
