SPECIFICATION FairSpec
CONSTANTS
    c1 = c1
    c2 = c2
    w1 = w1
    w2 = w2
    Checkout = {c1}
    Coins <- MCCoins
    Amount <- MCAmount
    Event <- RefundsAndDisputes
    NoEvent = NoEvent
    Worker = {w1}
    Gift = {g1}
    Price = 1
    Faults = {"statement", "insert", "renewal"}
    MaxFaults = 1
INVARIANTS
    ReversalComplete
PROPERTIES
    PaidIsCredited
    FullRefundTakesAllBack
CHECK_DEADLOCK FALSE
