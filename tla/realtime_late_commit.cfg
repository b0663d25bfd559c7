SPECIFICATION Spec
CONSTANTS
    m1 = m1
    m2 = m2
    Match = {m1, m2}
    Kind = {"message.created"}
    Last = 2
    Lookback = 1
    Limit = 2
    MaxDrops = 1
INVARIANTS
    NothingSkipped
CHECK_DEADLOCK FALSE
