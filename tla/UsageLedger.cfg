SPECIFICATION Spec
CONSTANTS
    Limits = {l1, l2}
    Reservations = {r1, r2}
    Clients = {c1, c2}
    Sweeper = sweeper
    None = None
    MaxValues = {3}
    Budgets = {2}
    Actuals = {3}
    Outcomes = {"finalized"}
    Ages = {"old"}
    UsageResets = FALSE
    MaxUpdates = 0
    MaxWindows = 1
    MaxErrors = 1
SYMMETRY ClientSymmetry
INVARIANTS
    TypeOK
    LedgerExact
PROPERTIES
    NoOverAdmission
CHECK_DEADLOCK FALSE
