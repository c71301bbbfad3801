CONSTANTS
    A = A
    B = B
    None = None
    Procs <- MCProcs
    InstanceOf <- MCInstanceOf
    FirstProcs <- MCFirstProcs
    Sessions <- MCSessions
    Homes <- MCHomes
    Accounts = {A, B}
    Databases = {"postgres"}
    TTL = 1
    ClaimTries = 2
    MaxUpsets = 0
SPECIFICATION Spec
PROPERTIES TakeoverOnlyOfLapsedLease
CHECK_DEADLOCK FALSE
