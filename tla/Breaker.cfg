SPECIFICATION FairBreakerSpec
CONSTANTS
    Calls = {c1, c2, c3}
    failure_threshold = 3
    success_threshold = 2
    MaxFailures = 7
INVARIANTS
    BreakerTypeOK
    ProbeSlotOwned
PROPERTIES
    RecoversAfterOutage
