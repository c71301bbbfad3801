SPECIFICATION FairSpec
CONSTANTS
    hog = hog
    light = light
    r1 = r1
    r2 = r2
    None = None
    Accounts = {a1}
    Probing = {}
    Requests = {r1, r2, r3, r4, r5}
    Keys = {hog, light}
    Class <- FairClass
    response_create_limit = 0
    stream_limit = 4
    MAX_SELECTION_ATTEMPTS = 1
    PROBE_QUIET = 1
    Slow = {}
    Lasting = {r1, r2}
    MaxTime = 0
    MaxPoolChanges = 0
PROPERTIES
    ActiveLightKeysServed
CHECK_DEADLOCK FALSE
