SPECIFICATION FairSpec
CONSTANTS
    r1 = r1
    r2 = r2
    r3 = r3
    Nobody = Nobody
    Request = {r1, r2, r3}
    Payload <- MCPayload
    Lease = 1
    TTL = 3
    MaxRun = 2
    Faults = {"crash", "statement", "lostReply", "finish", "lateError", "largeReply"}
    MaxFaults = 2
INVARIANTS
    TypeOK
    OneOwner
    CommittedIsRemembered
    ReplayIsFaithful
PROPERTIES
    PromiseKept
    EveryRequestAnswered
CHECK_DEADLOCK FALSE
