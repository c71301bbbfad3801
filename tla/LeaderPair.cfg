SPECIFICATION FairSpec
CONSTANTS
    a = a
    b = b
    w1 = w1
    w2 = w2
    w3 = w3
    None = None
    Replicas = {a, b}
    Workers <- PairWorkers
    Owner <- PairOwner
    Mortal = {a}
    TTL = 3
    CancelGrace = 1
    PromptResponses = TRUE
    PromptCommits = FALSE
    MaxErrors = 0
INVARIANTS
    LeaderStaysWithinLease
PROPERTIES
    DeadLeaderReplaced
CHECK_DEADLOCK FALSE
