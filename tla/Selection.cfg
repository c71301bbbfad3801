SPECIFICATION FairSpec
CONSTANTS
    hog = hog
    light = light
    r1 = r1
    r2 = r2
    None = None
    Accounts = {h1, p1}
    Probing = {p1}
    Requests = {r1, r2}
    Keys = {hog}
    Class <- PairClass
    response_create_limit = 1
    stream_limit = 1
    MAX_SELECTION_ATTEMPTS = 2
    PROBE_QUIET = 1
    Slow = {r1}
    Lasting = {}
    MaxTime = 1
    MaxPoolChanges = 1
INVARIANTS
    TypeOK
    CountersExact
    CapsRespected
    UnusedProbesReturned
PROPERTIES
    ProbesSpaced
    SelectionEnds
CHECK_DEADLOCK FALSE
