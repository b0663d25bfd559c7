SPECIFICATION Spec
CONSTANTS
    c1 = c1
    w1 = w1
    w2 = w2
    Contact = {c1}
    FanOuts = {"safe", "need_help"}
    Worker = {w1}
    MaxDevices = 1
    Nothing = Nothing
    MaxAttempts = 2
    MaxChanges = 1
    MaxJobs = 3
    MaxFaults = 0
PROPERTIES
    HelpIsHeard
CHECK_DEADLOCK FALSE
