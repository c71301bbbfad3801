SPECIFICATION Spec
CONSTANTS
    Replicas = {p, q}
    Namespaces = {n1}
    LocalBumpers = {q}
    None = None
    BUMP_RETRY_ATTEMPTS = 3
    MaxWrites = 2
    MaxErrors = 0
    MaxCrashes = 0
PROPERTIES
    AbsorbsOnlyLaterBumps
CHECK_DEADLOCK FALSE
