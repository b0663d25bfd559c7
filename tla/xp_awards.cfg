SPECIFICATION FairSpec
CONSTANTS
    a1 = a1
    a2 = a2
    k1 = k1
    Award = {a1, a2}
    NoAward = NoAward
    Call = {k1}
    AwardOf <- MCAwardOf
    Reward = {a2}
    Worker = {w1, w2}
    MaxAttempts = 2
    Faults = {"outage", "statement", "crash", "stall"}
    MaxFaults = 1
INVARIANTS
    TypeOK
    NeverLost
    CompletedIsAwarded
    CompletedIsCounted
PROPERTIES
    RecordedIsSettled
    AwardedIsCounted
CHECK_DEADLOCK FALSE
