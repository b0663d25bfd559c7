SPECIFICATION Spec
CONSTANTS
    c1 = c1
    c2 = c2
    w1 = w1
    w2 = w2
    Checkout = {c1, c2}
    Coins <- MCCoins
    Amount <- MCAmount
    Event <- RefundsAndPaid
    NoEvent = NoEvent
    Worker = {w1, w2}
    Gift = {g1}
    Price = 1
    Faults = {"statement", "insert", "finish", "crash", "overlap"}
    MaxFaults = 1
INVARIANTS
    TypeOK
    OneHandlerPerEvent
    CreditedAtMostOnce
    ReversedWithinCredited
    WalletConstraints
    DebtAccounted
    WalletExplained
PROPERTIES
    PromiseKept
CHECK_DEADLOCK FALSE
