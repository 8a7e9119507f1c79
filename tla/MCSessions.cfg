SPECIFICATION Spec
CONSTANTS
    a = a
    b = b
    w1 = w1
    w2 = w2
    w3 = w3
    t1 = t1
    t2 = t2
    NoSession = NoSession
    NoWindow = NoWindow
    NoTty = NoTty
    Session <- MCSession
    Window <- MCWindow
    Tty <- MCTty
    TtyOf <- MCTtyOf
    Programs <- TerminalOrITerm
    Captures <- Found
    MaxRestarts = 1
SYMMETRY SessionSymmetry
CHECK_DEADLOCK FALSE
INVARIANTS
    ClaimsExclusive
    FocusSound
    RosterSound
