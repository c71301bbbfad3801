CONSTANTS
    t1 = t1
    t2 = t2
    t3 = t3
    None = None
    Tasks = {t1, t2, t3}
    ProcessOf <- MCProcessOf
    CasTries = 1
    FinalTries = 1
    MaxUpsets = 1
SPECIFICATION Spec
INVARIANTS TerminalRowIsDead
CHECK_DEADLOCK FALSE
SYMMETRY Symmetry
