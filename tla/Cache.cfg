SPECIFICATION FairSpec
CONSTANTS
    Replicas = {p, q}
    Namespaces = {n1}
    LocalBumpers = {q}
    None = None
    BUMP_RETRY_ATTEMPTS = 2
    MaxWrites = 2
    MaxErrors = 1
    MaxCrashes = 1
INVARIANTS
    TypeOK
    NoLostInvalidation
PROPERTIES
    EventuallyFresh
CHECK_DEADLOCK FALSE
