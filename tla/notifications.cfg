SPECIFICATION FairSpec
CONSTANTS
    c1 = c1
    w1 = w1
    w2 = w2
    Contact = {c1}
    FanOuts = {"safe", "need_help", "checkin_missed", "cancelled"}
    Worker = {w1, w2}
    MaxDevices = 1
    Nothing = Nothing
    MaxAttempts = 2
    MaxChanges = 2
    MaxJobs = 1
    MaxFaults = 1
INVARIANTS
    TypeOK
    OnlyTheChosenKnow
    WithdrawalStopsPushes
PROPERTIES
    EveryJobSettles
CHECK_DEADLOCK FALSE
