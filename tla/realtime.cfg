SPECIFICATION FairSpec
CONSTANTS
    m1 = m1
    m2 = m2
    Match = {m1, m2}
    Kind = {"message.created", "match.unmatched"}
    Last = 2
    Lookback = 1
    Limit = 1
    MaxDrops = 2
INVARIANTS
    TypeOK
    OnlyTheOvertakenAreMissed
PROPERTIES
    EveryEventArrives
CHECK_DEADLOCK FALSE
