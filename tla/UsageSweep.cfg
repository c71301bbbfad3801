SPECIFICATION FairSpec
CONSTANTS
    Limits = {l1}
    Reservations = {r1}
    Clients = {c1, c2}
    Sweeper = sweeper
    None = None
    MaxValues = {1, 3}
    Budgets = {0, 2}
    Actuals = {1}
    Outcomes = {"finalized"}
    Ages = {"idle", "old"}
    UsageResets = TRUE
    MaxUpdates = 1
    MaxWindows = 1
    MaxErrors = 1
PROPERTIES
    OrphansReclaimed
    NoOverAdmission
CHECK_DEADLOCK FALSE
