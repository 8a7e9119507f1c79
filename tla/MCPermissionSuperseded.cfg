SPECIFICATION Spec
CONSTANTS
    a = a
    b = b
    r1 = r1
    r2 = r2
    None = None
    Session <- OneSession
    Request <- MCRequest
SYMMETRY RequestSymmetry
CHECK_DEADLOCK FALSE
INVARIANTS
    AllowedByOwnAnswer
