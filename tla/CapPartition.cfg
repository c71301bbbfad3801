CONSTANTS
    Replicas = {1, 2, 3}
    Kinds <- MCKinds
    StartupCaps <- MCStartupCaps
    DashboardCaps <- MCDashboardCaps
    Interval = 1
    StaleAfter = 2
    Grace = 1
    Window = 2
    MaxGap = 1
    MaxUpsets = 2
SPECIFICATION Spec
INVARIANTS TypeOK SharesFitCap
PROPERTIES GrowthEarned CapacityReclaimed
CHECK_DEADLOCK FALSE
