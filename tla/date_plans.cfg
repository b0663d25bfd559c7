SPECIFICATION FairSpec
CONSTANTS
    m1 = m1
    m2 = m2
    Member = {m1, m2}
    MaxPlans = 2
    MaxTerms = 3
INVARIANTS
    TypeOK
    AgreedTerms
    VerdictIsMutual
PROPERTIES
    PromiseKept
    MissedIsTold
CHECK_DEADLOCK FALSE
