CONSTANTS
    A = A
    B = B
    None = None
    Procs <- MCProcs
    InstanceOf <- MCInstanceOf
    FirstProcs <- MCFirstProcs
    Sessions <- MCSessions
    Homes <- MCHomes
    Accounts = {A, B}
    Databases = {"postgres", "sqlite"}
    TTL = 1
    ClaimTries = 2
    MaxUpsets = 2
SPECIFICATION Spec
INVARIANTS TypeOK RegisteredKeepsRow AnchorFollowsAccount
PROPERTIES FencedOwnership
CHECK_DEADLOCK FALSE
SYMMETRY Symmetry
