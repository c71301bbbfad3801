SPECIFICATION Spec
CONSTANTS
    Limits = {l1}
    Reservations = {r1, r2}
    Clients = {c1}
    Sweeper = sweeper
    None = None
    MaxValues = {3}
    Budgets = {2}
    Actuals = {1}
    Outcomes = {"finalized"}
    Ages = {}
    UsageResets = TRUE
    MaxUpdates = 1
    MaxWindows = 1
    MaxErrors = 0
SYMMETRY ClientSymmetry
PROPERTIES
    ResetStartsAtZero
CHECK_DEADLOCK FALSE
