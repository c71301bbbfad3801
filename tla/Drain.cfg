SPECIFICATION FairSpec
CONSTANTS
    None = None
    Requests = {r1}
    Timeout = 1
    HeaderDeadlines = {1}
    MaxDepth = 2
    MaxSignals = 2
    MaxLifecycles = 1
    MaxNow = 2
INVARIANTS
    TypeOK
    PromisedDeadlineKept
    StopVerdictTruthful
    DrainedIsQuiet
PROPERTIES
    ShutdownCompletes
CHECK_DEADLOCK FALSE
