SPECIFICATION Spec
CONSTANTS
    a = a
    b = b
    w1 = w1
    w2 = w2
    w3 = w3
    None = None
    Replicas = {a}
    Workers <- SiblingWorkers
    Owner <- SiblingOwner
    Mortal = {a}
    TTL = 3
    CancelGrace = 1
    PromptResponses = TRUE
    PromptCommits = TRUE
    MaxErrors = 1
INVARIANTS
    TypeOK
    RunningOwnsLease
    DrainingBodyKeepsLease
CHECK_DEADLOCK FALSE
