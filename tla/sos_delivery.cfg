SPECIFICATION FairSpec
CONSTANTS
    c1 = c1
    c2 = c2
    w1 = w1
    w2 = w2
    Nobody = Nobody
    Contact = {c1, c2}
    Worker = {w1, w2}
    Batch = 2
    Lease = 1
    MaxAttempts = 2
INVARIANTS
    TypeOK
    VerdictsEarned
    AttemptsBounded
PROPERTIES
    PromiseKept
    EveryRowSettles
CHECK_DEADLOCK FALSE
