SPECIFICATION Spec
CONSTANTS
    c1 = c1
    c2 = c2
    w1 = w1
    w2 = w2
    Checkout = {c1}
    Coins <- MCCoins
    Amount <- MCAmount
    Event <- FullRefund
    NoEvent = NoEvent
    Worker = {w1, w2}
    Gift = {}
    Price = 1
    Faults = {}
    MaxFaults = 0
INVARIANTS
    NoCoinsLeftBehind
CHECK_DEADLOCK FALSE
