--------------------------- MODULE MCCoinPurchases ---------------------------
(* Instances of CoinPurchases for TLC.                                     *)
EXTENDS CoinPurchases, TLC

CONSTANTS c1, c2, w1, w2

MCCoins  == [c \in Checkout |-> 3]
MCAmount == [c \in Checkout |-> 2]

Ev(k, c, m) == [kind |-> k, checkout |-> c, minor |-> m]

\* Half the charge is refunded (1 of 2 minor units: 1.5 of 3 coins, rounded
\* to 2), then all of it.
Refunds(c)  == {Ev("paid", c, 0), Ev("refund", c, 1), Ev("refund", c, 2)}
Disputes(c) == {Ev("paid", c, 0), Ev("disputeOpened", c, 0),
                Ev("disputeLost", c, 0)}
Paid(c)     == {Ev("paid", c, 0)}

RefundsAndPaid  == Refunds(c1) \cup Paid(c2)
RefundsAndDisputes == Refunds(c1) \cup Disputes(c1)
FullRefund      == {Ev("paid", c1, 0), Ev("refund", c1, 2)}

Symmetric == Permutations(Worker)
=============================================================================
