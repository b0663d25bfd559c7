------------------------- MODULE CoinPurchasesProofs -------------------------
(***************************************************************************)
(* Proofs about CoinPurchases, for every set of checkouts, events,         *)
(* handlers and gifts.  Each part strengthens a property to an inductive   *)
(* invariant:                                                              *)
(*   Inv         types, and what a handler's phase says of its event;      *)
(*   ReversalInv + what an open reversal's snapshot may show;              *)
(*   CreditOK    where coins may be between the update of the wallet and   *)
(*               the insert of the purchase row or the compensation;       *)
(*   StrayOK     which failure pays for the coins a failed credit leaves.  *)
(***************************************************************************)
EXTENDS CoinPurchases, TLAPS

\* A handler has an event exactly while it runs, completed checkouts are the
\* only events that reach the credit phases, and they never open a reversal.
HandlerOK ==
    \A w \in Worker :
        /\ (pc[w] = "idle") <=> (task[w] = NoEvent)
        /\ pc[w] \in {"read", "cas", "insert", "rollback", "reconcile"} =>
             task[w].kind = "paid"
        /\ pc[w] \in {"commit", "renew"} => task[w].kind # "paid"

\* The initial state of processWebhook's tables and handlers is well typed.
LEMMA InitType == Init => TypeOK
<1> SUFFICES ASSUME Init PROVE TypeOK
  OBVIOUS
<1>1. payment \in [Checkout -> [status : PayStatus, refunded : Nat]]
  BY DEF Init, PayStatus
<1>2. pc \in [Worker -> Phase]
  BY DEF Init, Phase
<1>3. stale \in [Worker -> BOOLEAN]
  BY Zenon DEF Init
<1>4. /\ evStatus \in [Event -> {"none", "received", "processed", "failed"}]
      /\ gifts \in [Gift -> {"none", "sent", "refunded"}]
      /\ task \in [Worker -> Event \cup {NoEvent}]
      /\ frozen \in BOOLEAN
  BY Zenon DEF Init
<1>5. /\ reversed \in [Checkout -> Nat] /\ added \in [Checkout -> Int]
      /\ stray \in [Checkout -> Int] /\ lapsed \subseteq Checkout
      /\ seen \in [Worker -> Nat] /\ snap \in [Worker -> Nat]
      /\ balance \in Nat /\ debt \in Nat /\ debits \in Nat
      /\ writtenOff \in Nat /\ faults \in Nat
  BY DEF Init
<1>6. /\ emitted \subseteq Event /\ acked \subseteq Event
      /\ purchased \subseteq Checkout /\ debitKeys \subseteq Event \cup LateKey
  BY DEF Init
<1> QED BY <1>1, <1>2, <1>3, <1>4, <1>5, <1>6 DEF TypeOK

\* What a payment owes back is a number of coins, at most those credited.
LEMMA TargetNat ==
  ASSUME NEW c \in Checkout, NEW credited \in Nat,
         NEW p \in [status : PayStatus, refunded : Nat]
  PROVE  Target(c, p, credited) \in Nat /\ Target(c, p, credited) <= credited
<1>1. Amount[c] \in Nat \ {0}
  BY AmountAssumption
<1>2. p.refunded \in Nat
  OBVIOUS
<1> DEFINE X == 2 * credited * p.refunded + Amount[c]
           Y == 2 * Amount[c]
<1>3. X \in Nat /\ Y \in Nat /\ Y > 0
  BY <1>1, <1>2
<1> HIDE DEF X, Y
<1>4. X \div Y \in Nat
  BY <1>3
<1>5. ProRata(c, credited, p.refunded) \in Nat
  BY <1>4 DEF X, Y, ProRata
<1> QED
  BY <1>5 DEF Target, MinOf

\* What reverseCoinPurchaseTx finds owed is an integer.
LEMMA OwedInt ==
  ASSUME NEW c \in Checkout, NEW credited \in Nat,
         NEW p \in [status : PayStatus, refunded : Nat],
         reversed \in [Checkout -> Nat]
  PROVE  /\ Owed(c, p, credited) \in Int
         /\ Owed(c, p, credited) <= credited - reversed[c]
BY TargetNat DEF Owed

\* Moving a handler to a phase of processWebhook keeps the type of pc.
LEMMA PhaseType ==
  ASSUME TypeOK, NEW w \in Worker, NEW p \in Phase, Goto(w, p)
  PROVE  pc' \in [Worker -> Phase]
BY DEF TypeOK, Goto

\* A handler that returns keeps the types of its locals.
LEMMA ReleaseType ==
  ASSUME TypeOK, NEW w \in Worker, Release(w)
  PROVE  /\ pc' \in [Worker -> Phase]
         /\ task' \in [Worker -> Event \cup {NoEvent}]
         /\ seen' \in [Worker -> Nat] /\ snap' \in [Worker -> Nat]
         /\ stale' \in [Worker -> BOOLEAN]
<1>1. pc' \in [Worker -> Phase]
  BY PhaseType DEF Release, Phase
<1>2. task' \in [Worker -> Event \cup {NoEvent}]
  BY DEF TypeOK, Release
<1>3. seen' \in [Worker -> Nat] /\ snap' \in [Worker -> Nat]
  BY DEF TypeOK, Release
<1>4. stale' \in [Worker -> BOOLEAN]
  BY Zenon DEF TypeOK, Release
<1> QED BY <1>1, <1>2, <1>3, <1>4

\* Marking older snapshots stale keeps the type of stale.
LEMMA TouchType ==
  ASSUME TouchWallet PROVE stale' \in [Worker -> BOOLEAN]
BY Zenon DEF TouchWallet

\* A clawback (reverseCoinPurchaseTx) keeps the wallet and ledger types.
LEMMA TakeBackType ==
  ASSUME TypeOK, NEW c \in Checkout, NEW delta \in Int,
         NEW key \in Event \cup LateKey, TakeBack(c, delta, key)
  PROVE  /\ balance' \in Nat /\ debt' \in Nat /\ frozen' \in BOOLEAN
         /\ reversed' \in [Checkout -> Nat] /\ debits' \in Nat
         /\ debitKeys' \subseteq Event \cup LateKey
<1>1. CASE delta <= 0
  BY <1>1 DEF TakeBack, TypeOK
<1>2. CASE delta > 0
  <2>1. Debit(delta) \in Nat /\ Debit(delta) <= balance /\ Debit(delta) <= delta
    BY <1>2 DEF Debit, MinOf, TypeOK
  <2>2. balance' \in Nat /\ debt' \in Nat /\ debits' \in Nat
    BY <1>2, <2>1 DEF TakeBack, Shortfall, TypeOK
  <2>3. reversed' \in [Checkout -> Nat]
    BY <1>2 DEF TakeBack, TypeOK
  <2>4. frozen' \in BOOLEAN
    <3>1. frozen' = (frozen \/ Freezes(delta))
      BY <1>2 DEF TakeBack
    <3> QED BY <3>1
  <2>5. debitKeys' \subseteq Event \cup LateKey
    BY <1>2 DEF TakeBack, TypeOK
  <2> QED BY <2>2, <2>3, <2>4, <2>5
<1> QED BY <1>1, <1>2

\* The UPDATE of a payment row writes a status and a refund of their types.
LEMMA PaymentAfterType ==
  ASSUME TypeOK, NEW e \in Event
  PROVE  PaymentAfter(e) \in [status : PayStatus, refunded : Nat]
<1>1. /\ e.checkout \in Checkout /\ e.kind \in Kind /\ e.minor \in Nat
  BY EventAssumption
<1>2. payment[e.checkout] \in [status : PayStatus, refunded : Nat]
  BY <1>1 DEF TypeOK
<1>3. Amount[e.checkout] \in Nat
  BY <1>1, AmountAssumption
<1> QED BY <1>1, <1>2, <1>3 DEF PaymentAfter, MinOf, PayStatus

\* Every step keeps TypeOK.
LEMMA TypeStep ==
  ASSUME TypeOK, HandlerOK, [Next]_vars
  PROVE  TypeOK'
<1> USE DEF provider, wallet, ledger, local, history
<1>0. ASSUME NEW w \in Worker, pc[w] # "idle"
      PROVE  /\ task[w] \in Event /\ Chk(w) \in Checkout
             /\ Coins[Chk(w)] \in Nat \ {0}
  BY <1>0, EventAssumption, CoinsAssumption DEF TypeOK, HandlerOK, Chk
<1>1. ASSUME NEW e \in Event, Emit(e) PROVE TypeOK'
  BY <1>1 DEF Emit, TypeOK
<1>2. ASSUME NEW e \in Event, AcknowledgeDuplicate(e) PROVE TypeOK'
  BY <1>2, FaultAssumption DEF AcknowledgeDuplicate, Fault, TypeOK
<1>3. ASSUME NEW w \in Worker, NEW e \in Event, Begin(w, e) PROVE TypeOK'
  BY <1>3, PhaseType DEF Begin, Goto, TypeOK, Phase
<1>4. ASSUME NEW w \in Worker, FinishProcessed(w) PROVE TypeOK'
  BY <1>4, <1>0, ReleaseType DEF FinishProcessed, Fault, TypeOK
<1>5. ASSUME NEW w \in Worker, FinishFailed(w) PROVE TypeOK'
  BY <1>5, <1>0, ReleaseType DEF FinishFailed, Fault, TypeOK
<1>6. ASSUME NEW w \in Worker, Crash(w) PROVE TypeOK'
  BY <1>6, ReleaseType DEF Crash, Fault, TypeOK
<1>7. ASSUME NEW w \in Worker, ApplyCheckoutCompleted(w) PROVE TypeOK'
  <2>1. pc' \in [Worker -> Phase]
    BY <1>7, PhaseType DEF ApplyCheckoutCompleted, Phase
  <2>2. payment' \in [Checkout -> [status : PayStatus, refunded : Nat]]
    BY <1>7 DEF ApplyCheckoutCompleted, TypeOK, PayStatus
  <2> QED BY <2>1, <2>2, <1>7 DEF ApplyCheckoutCompleted, TypeOK
<1>8. ASSUME NEW w \in Worker, BeginReversal(w) PROVE TypeOK'
  <2>1. pc' \in [Worker -> Phase]
    BY <1>8, PhaseType DEF BeginReversal, Phase
  <2>2. Credited(Chk(w)) \in Nat
    BY <1>0, <1>8 DEF BeginReversal, Credited
  <2>3. snap' \in [Worker -> Nat]
    BY <2>2, <1>8 DEF BeginReversal, TypeOK
  <2> QED BY <2>1, <2>3, <1>8 DEF BeginReversal, TypeOK
<1>9. ASSUME NEW w \in Worker, RefuseEvent(w) PROVE TypeOK'
  <2>1. pc' \in [Worker -> Phase]
    BY <1>9, PhaseType DEF RefuseEvent, Phase
  <2> QED BY <2>1, <1>9 DEF RefuseEvent, TypeOK
<1>10. ASSUME NEW w \in Worker, CommitReversal(w) PROVE TypeOK'
  <2> DEFINE e == task[w]
             delta == Delta(e, snap[w])
  <2>1. pc[w] = "commit" /\ e \in Event /\ e.checkout \in Checkout
    BY <1>0, <1>10 DEF CommitReversal, Chk
  <2>2. PaymentAfter(e) \in [status : PayStatus, refunded : Nat]
    BY <2>1, PaymentAfterType
  <2>3. delta \in Int
    BY <2>1, <2>2, OwedInt DEF Delta, TypeOK
  <2>4. pc' \in [Worker -> Phase]
    BY <1>10, PhaseType DEF CommitReversal, Phase
  <2>5. CASE Goto(w, "fail") /\ UNCHANGED <<payment, wallet, ledger, stale, lapsed>>
    BY <2>4, <2>5, <1>10 DEF CommitReversal, TypeOK
  <2>6. CASE /\ payment' = [payment EXCEPT ![e.checkout] = PaymentAfter(e)]
             /\ TakeBack(e.checkout, delta, e)
             /\ IF delta > 0 THEN TouchWallet ELSE UNCHANGED stale
             /\ lapsed' = IF SlipsBy(w) THEN lapsed \cup {e.checkout} ELSE lapsed
             /\ UNCHANGED <<purchased, gifts>>
    <3>0. lapsed' \subseteq Checkout
      BY <2>1, <2>6 DEF TypeOK
    <3>1. payment' \in [Checkout -> [status : PayStatus, refunded : Nat]]
      BY <2>1, <2>2, <2>6 DEF TypeOK
    <3>2. stale' \in [Worker -> BOOLEAN]
      BY <2>6, TouchType DEF TypeOK
    <3>3. /\ balance' \in Nat /\ debt' \in Nat /\ frozen' \in BOOLEAN
          /\ reversed' \in [Checkout -> Nat] /\ debits' \in Nat
          /\ debitKeys' \subseteq Event \cup LateKey
      BY <2>1, <2>3, <2>6, TakeBackType
    <3> QED BY <2>4, <2>6, <3>0, <3>1, <3>2, <3>3, <1>10 DEF CommitReversal, TypeOK
  <2> QED BY <2>5, <2>6, <1>10 DEF CommitReversal
<1>11. ASSUME NEW w \in Worker, StatementFails(w) PROVE TypeOK'
  <2>1. pc' \in [Worker -> Phase]
    BY <1>11, PhaseType DEF StatementFails, Phase
  <2> QED BY <2>1, <1>11 DEF StatementFails, Fault, TypeOK
<1>12. ASSUME NEW w \in Worker, StopRenewal(w) PROVE TypeOK'
  <2>1. pc' \in [Worker -> Phase]
    BY <1>12, PhaseType DEF StopRenewal, Phase
  <2> QED BY <2>1, <1>12 DEF StopRenewal, Fault, TypeOK
<1>13. ASSUME NEW w \in Worker, CreditRead(w) PROVE TypeOK'
  <2>1. pc' \in [Worker -> Phase]
    BY <1>13, PhaseType DEF CreditRead, Phase
  <2>2. seen' \in [Worker -> Nat]
    BY <1>13 DEF CreditRead, TypeOK
  <2> QED BY <2>1, <2>2, <1>13 DEF CreditRead, TypeOK
<1>14. ASSUME NEW w \in Worker, CreditUpdateWallet(w) PROVE TypeOK'
  <2>1. pc' \in [Worker -> Phase]
    BY <1>14, PhaseType DEF CreditUpdateWallet, Phase
  <2>2. /\ balance' \in Nat
        /\ added' \in [Checkout -> Int] /\ stray' \in [Checkout -> Int]
        /\ faults' \in Nat
    BY <1>0, <1>14 DEF CreditUpdateWallet, LeavesBehind, Fault, TypeOK
  <2>3. stale' \in [Worker -> BOOLEAN]
    BY <1>14, TouchType DEF CreditUpdateWallet, TypeOK
  <2> QED BY <2>1, <2>2, <2>3, <1>14 DEF CreditUpdateWallet, TypeOK
<1>15. ASSUME NEW w \in Worker, CreditInsertPurchase(w) PROVE TypeOK'
  <2>1. pc' \in [Worker -> Phase]
    BY <1>15, PhaseType DEF CreditInsertPurchase, Phase
  <2>2. purchased' \subseteq Checkout
    BY <1>0, <1>15 DEF CreditInsertPurchase, TypeOK
  <2> QED BY <2>1, <2>2, <1>15 DEF CreditInsertPurchase, Fault, TypeOK
<1>16. ASSUME NEW w \in Worker, RollbackWalletCredit(w) PROVE TypeOK'
  <2>1. pc' \in [Worker -> Phase]
    BY <1>16, PhaseType DEF RollbackWalletCredit, Phase
  <2>2. /\ balance' \in Nat
        /\ added' \in [Checkout -> Int] /\ stray' \in [Checkout -> Int]
    BY <1>0, <1>16 DEF RollbackWalletCredit, LeavesBehind, TypeOK
  <2>3. stale' \in [Worker -> BOOLEAN]
    BY <1>16, TouchType DEF RollbackWalletCredit, TypeOK
  <2> QED BY <2>1, <2>2, <2>3, <1>16 DEF RollbackWalletCredit, TypeOK
<1>17. ASSUME NEW w \in Worker, ReconcileCoinReversal(w) PROVE TypeOK'
  <2> DEFINE c == Chk(w)
             delta == Owed(c, payment[c], Credited(c))
  <2>1. c \in Checkout /\ payment[c] \in [status : PayStatus, refunded : Nat]
    BY <1>0, <1>17 DEF ReconcileCoinReversal, TypeOK
  <2>2. Credited(c) \in Nat
    BY <1>0, <1>17 DEF ReconcileCoinReversal, Credited
  <2>3. delta \in Int
    BY <2>1, <2>2, OwedInt DEF TypeOK
  <2>4. pc' \in [Worker -> Phase]
    BY <1>17, PhaseType DEF ReconcileCoinReversal, Phase
  <2>5. CASE UNCHANGED <<balance, debt, frozen, reversed, debits, debitKeys,
                         stale>>
    BY <2>4, <2>5, <1>17 DEF ReconcileCoinReversal, TypeOK
  <2>6. CASE /\ TakeBack(c, delta, [late |-> c])
             /\ IF delta > 0 THEN TouchWallet ELSE UNCHANGED stale
    <3>1. [late |-> c] \in Event \cup LateKey
      BY <2>1 DEF LateKey
    <3>2. stale' \in [Worker -> BOOLEAN]
      BY <2>6, TouchType DEF TypeOK
    <3>3. /\ balance' \in Nat /\ debt' \in Nat /\ frozen' \in BOOLEAN
          /\ reversed' \in [Checkout -> Nat] /\ debits' \in Nat
          /\ debitKeys' \subseteq Event \cup LateKey
      BY <2>1, <2>3, <2>6, <3>1, TakeBackType
    <3> QED BY <2>4, <3>2, <3>3, <1>17 DEF ReconcileCoinReversal, TypeOK
  <2> QED BY <2>5, <2>6, <1>17 DEF ReconcileCoinReversal
<1>18. ASSUME NEW g \in Gift, SendGift(g) PROVE TypeOK'
  <2>1. stale' \in [Worker -> BOOLEAN]
    BY <1>18, TouchType DEF SendGift
  <2> QED BY <2>1, <1>18, PriceAssumption DEF SendGift, TypeOK
<1>19. ASSUME NEW g \in Gift, ReverseGift(g) PROVE TypeOK'
  <2>1. stale' \in [Worker -> BOOLEAN]
    BY <1>19, TouchType DEF ReverseGift
  <2> QED BY <2>1, <1>19, PriceAssumption DEF ReverseGift, TypeOK
<1>20. ASSUME NEW writeOff \in BOOLEAN, ReviewFrozenWallet(writeOff) PROVE TypeOK'
  <2>1. stale' \in [Worker -> BOOLEAN]
    BY <1>20, TouchType DEF ReviewFrozenWallet
  <2>2. MinOf(debt, balance) \in Nat /\ MinOf(debt, balance) <= balance
        /\ MinOf(debt, balance) <= debt
    BY DEF MinOf, TypeOK
  <2>3. /\ balance' = balance - MinOf(debt, balance)
        /\ debits' = debits + MinOf(debt, balance)
        /\ writtenOff' = writtenOff + (debt - MinOf(debt, balance))
        /\ debt' = 0 /\ frozen' = FALSE
        /\ UNCHANGED <<provider, evStatus, payment, purchased, reversed,
                       debitKeys, gifts, pc, task, seen, snap, added, stray,
                       lapsed, faults>>
    BY <1>20 DEF ReviewFrozenWallet
  <2>4. balance' \in Nat /\ debits' \in Nat /\ writtenOff' \in Nat /\ debt' \in Nat
    BY <2>2, <2>3 DEF TypeOK
  <2> QED BY <2>1, <2>3, <2>4 DEF TypeOK
<1>21. CASE UNCHANGED vars
  BY <1>21 DEF vars, TypeOK
<1>22. ASSUME NEW w \in Worker, Handle(w) PROVE TypeOK'
  BY <1>22, <1>4, <1>5, <1>7, <1>8, <1>9, <1>10, <1>12, <1>13, <1>14, <1>15,
     <1>16, <1>17 DEF Handle
<1> QED
  BY <1>1, <1>2, <1>3, <1>6, <1>11, <1>18, <1>19, <1>20, <1>21, <1>22 DEF Next

-----------------------------------------------------------------------------

\* The phases of settleCoinCheckout, and those of a reversal.
CreditPhase   == {"read", "cas", "insert", "rollback", "reconcile"}
ReversalPhase == {"commit", "renew"}

\* What one handler's move to another phase needs to keep HandlerOK.
LEMMA HandlerMoves ==
  ASSUME TypeOK, HandlerOK, NEW w \in Worker, pc[w] # "idle",
         NEW p \in Phase \ {"idle"}, Goto(w, p), UNCHANGED task,
         p \in CreditPhase => task[w].kind = "paid",
         p \in ReversalPhase => task[w].kind # "paid"
  PROVE  HandlerOK'
BY DEF TypeOK, HandlerOK, Goto, CreditPhase, ReversalPhase

\* A handler that returns keeps HandlerOK.
LEMMA HandlerReleases ==
  ASSUME TypeOK, HandlerOK, NEW w \in Worker, Release(w)
  PROVE  HandlerOK'
BY DEF TypeOK, HandlerOK, Release, Goto

\* Every step keeps HandlerOK.
LEMMA HandlerStep ==
  ASSUME TypeOK, HandlerOK, [Next]_vars
  PROVE  HandlerOK'
<1> USE DEF CreditPhase, ReversalPhase, Phase
<1>1. CASE UNCHANGED <<pc, task>>
  BY <1>1 DEF HandlerOK
<1>2. ASSUME NEW w \in Worker, NEW e \in Event, Begin(w, e) PROVE HandlerOK'
  BY <1>2, EventAssumption DEF Begin, Goto, TypeOK, HandlerOK
<1>3. ASSUME NEW w \in Worker, FinishProcessed(w) \/ FinishFailed(w) \/ Crash(w)
      PROVE  HandlerOK'
  BY <1>3, HandlerReleases DEF FinishProcessed, FinishFailed, Crash
<1>4. ASSUME NEW w \in Worker, ApplyCheckoutCompleted(w) PROVE HandlerOK'
  BY <1>4, HandlerMoves DEF ApplyCheckoutCompleted
<1>5. ASSUME NEW w \in Worker, BeginReversal(w) PROVE HandlerOK'
  BY <1>5, HandlerMoves DEF BeginReversal
<1>6. ASSUME NEW w \in Worker, RefuseEvent(w) \/ StatementFails(w) PROVE HandlerOK'
  BY <1>6, HandlerMoves DEF RefuseEvent, StatementFails
<1>7. ASSUME NEW w \in Worker, CommitReversal(w) PROVE HandlerOK'
  <2>1. /\ pc[w] = "commit" /\ UNCHANGED task
        /\ \/ Goto(w, "fail")
           \/ Goto(w, "renew")
           \/ Goto(w, "finish")
    BY <1>7 DEF CommitReversal
  <2>2. task[w].kind # "paid"
    BY <2>1 DEF HandlerOK
  <2> QED BY <2>1, <2>2, HandlerMoves
<1>8. ASSUME NEW w \in Worker, StopRenewal(w) PROVE HandlerOK'
  BY <1>8, HandlerMoves DEF StopRenewal
<1>9. ASSUME NEW w \in Worker, pc[w] \in CreditPhase, UNCHANGED task,
             NEW p \in {"reconcile", "cas", "insert", "rollback", "fail", "finish"},
             Goto(w, p)
      PROVE  HandlerOK'
  <2>1. task[w].kind = "paid"
    BY <1>9 DEF HandlerOK
  <2> QED BY <2>1, <1>9, HandlerMoves
<1>10. ASSUME NEW w \in Worker, CreditRead(w) PROVE HandlerOK'
  BY <1>9, <1>10 DEF CreditRead
<1>11. ASSUME NEW w \in Worker, CreditUpdateWallet(w) PROVE HandlerOK'
  BY <1>9, <1>11 DEF CreditUpdateWallet
<1>12. ASSUME NEW w \in Worker, CreditInsertPurchase(w) PROVE HandlerOK'
  BY <1>9, <1>12 DEF CreditInsertPurchase
<1>13. ASSUME NEW w \in Worker, RollbackWalletCredit(w) PROVE HandlerOK'
  BY <1>9, <1>13 DEF RollbackWalletCredit
<1>14. ASSUME NEW w \in Worker, ReconcileCoinReversal(w) PROVE HandlerOK'
  BY <1>9, <1>14 DEF ReconcileCoinReversal
<1>15. ASSUME NEW w \in Worker, Handle(w) PROVE HandlerOK'
  BY <1>3, <1>4, <1>5, <1>6, <1>7, <1>8, <1>10, <1>11, <1>12, <1>13, <1>14,
     <1>15 DEF Handle
<1>16. ASSUME NEW e \in Event, Emit(e) \/ AcknowledgeDuplicate(e)
       PROVE  HandlerOK'
  BY <1>1, <1>16 DEF Emit, AcknowledgeDuplicate
<1>17. ASSUME NEW g \in Gift, SendGift(g) \/ ReverseGift(g) PROVE HandlerOK'
  BY <1>1, <1>17 DEF SendGift, ReverseGift
<1>18. ASSUME NEW writeOff \in BOOLEAN, ReviewFrozenWallet(writeOff)
       PROVE  HandlerOK'
  BY <1>1, <1>18 DEF ReviewFrozenWallet
<1>19. CASE UNCHANGED vars
  BY <1>1, <1>19 DEF vars
<1> QED
  BY <1>2, <1>3, <1>6, <1>15, <1>16, <1>17, <1>18, <1>19 DEF Next

\* Steps other than these leave the handlers' tasks and the event rows alone.
LEMMA TaskSteps ==
  ASSUME [Next]_vars
  PROVE  \/ UNCHANGED <<task, evStatus>>
         \/ \E w \in Worker, e \in Event : Begin(w, e)
         \/ \E w \in Worker : FinishProcessed(w) \/ FinishFailed(w) \/ Crash(w)
<1>1. ASSUME NEW w \in Worker, Handle(w)
      PROVE  \/ UNCHANGED <<task, evStatus>>
             \/ FinishProcessed(w) \/ FinishFailed(w)
  BY <1>1 DEF Handle, ApplyCheckoutCompleted, BeginReversal, RefuseEvent,
     CommitReversal, StopRenewal, CreditRead, CreditUpdateWallet,
     CreditInsertPurchase, RollbackWalletCredit, ReconcileCoinReversal
<1>2. CASE UNCHANGED vars
  BY <1>2 DEF vars
<1> QED
  BY <1>1, <1>2 DEF Next, Emit, AcknowledgeDuplicate, StatementFails, SendGift,
     ReverseGift, ReviewFrozenWallet

\* Every step keeps OneHandlerPerEvent: Begin takes an event only when its row
\* is absent or failed, and then no handler has it.
LEMMA MutexStep ==
  ASSUME TypeOK, HandlerOK, OneHandlerPerEvent, [Next]_vars
  PROVE  OneHandlerPerEvent'
<1>1. CASE UNCHANGED <<task, evStatus>>
  BY <1>1 DEF OneHandlerPerEvent
<1>2. ASSUME NEW w \in Worker, NEW e \in Event, Begin(w, e)
      PROVE  OneHandlerPerEvent'
  <2>1. \A v \in Worker : task[v] # e
    BY <1>2, EventAssumption DEF Begin, Opens, OneHandlerPerEvent
  <2>2. /\ task' = [task EXCEPT ![w] = e]
        /\ evStatus' = [evStatus EXCEPT ![e] = "received"]
    BY <1>2 DEF Begin
  <2>3. \A v \in Worker : task'[v] # NoEvent => evStatus'[task'[v]] = "received"
    BY <2>1, <2>2 DEF TypeOK, OneHandlerPerEvent
  <2>4. \A u, v \in Worker : task'[u] = task'[v] /\ task'[u] # NoEvent => u = v
    BY <2>1, <2>2 DEF TypeOK, OneHandlerPerEvent
  <2> QED BY <2>3, <2>4 DEF OneHandlerPerEvent
<1>3. ASSUME NEW w \in Worker, FinishProcessed(w) \/ FinishFailed(w) \/ Crash(w)
      PROVE  OneHandlerPerEvent'
  <2>1. task' = [task EXCEPT ![w] = NoEvent]
    BY <1>3 DEF FinishProcessed, FinishFailed, Crash, Release
  <2>2. \/ evStatus' = evStatus
        \/ evStatus' = [evStatus EXCEPT ![task[w]] = "processed"]
        \/ evStatus' = [evStatus EXCEPT ![task[w]] = "failed"]
    BY <1>3 DEF FinishProcessed, FinishFailed, Crash
  <2>3. task[w] # NoEvent
    BY <1>3 DEF FinishProcessed, FinishFailed, Crash, HandlerOK
  <2>4. \A v \in Worker : task'[v] # NoEvent =>
                            v # w /\ task'[v] = task[v] /\ task[v] # task[w]
    BY <2>1, <2>3 DEF TypeOK, OneHandlerPerEvent
  <2>5. \A v \in Worker : task'[v] # NoEvent => evStatus'[task'[v]] = "received"
    BY <2>2, <2>4 DEF TypeOK, OneHandlerPerEvent
  <2> QED BY <2>4, <2>5 DEF OneHandlerPerEvent
<1> QED BY <1>1, <1>2, <1>3, TaskSteps

\* The inductive invariant of the webhook ledger.
Inv == TypeOK /\ HandlerOK /\ OneHandlerPerEvent

\* The initial state satisfies Inv.
LEMMA InitInv == Init => Inv
BY InitType DEF Init, Inv, HandlerOK, OneHandlerPerEvent

\* The inductive invariant of the webhook ledger (beginWebhookEvent against
\* finishWebhookEvent) holds in every behaviour.
THEOREM InvHolds == Spec => []Inv
<1>1. Inv /\ [Next]_vars => Inv'
  BY TypeStep, HandlerStep, MutexStep DEF Inv
<1> QED BY InitInv, <1>1, PTL DEF Spec

\* Every variable keeps its type, for any number of checkouts, events,
\* handlers and gifts and any failures.
THEOREM TypeCorrect == Spec => []TypeOK
BY InvHolds, PTL DEF Inv

\* The webhook ledger is a mutex per event: see OneHandlerPerEvent.
THEOREM MutualExclusion == Spec => []OneHandlerPerEvent
BY InvHolds, PTL DEF Inv

-----------------------------------------------------------------------------
(* Clawbacks stay within what was credited.                                *)

\* The snapshot of an open reversal never shows more coins than are credited
\* by now: purchase rows are never deleted.
SnapshotWithinCredited ==
    \A w \in Worker : pc[w] = "commit" => snap[w] <= Credited(Chk(w))

\* The inductive invariant of the clawbacks.
ReversalInv == Inv /\ SnapshotWithinCredited /\ ReversedWithinCredited

\* A checkout's credited coins never shrink while purchase rows are kept.
LEMMA CreditedGrows ==
  ASSUME purchased \subseteq purchased', NEW c \in Checkout
  PROVE  /\ Credited(c) \in Nat /\ Credited(c)' \in Nat
         /\ Credited(c) <= Credited(c)'
BY CoinsAssumption DEF Credited

\* What a clawback adds to the reversals of its checkout.
LEMMA TakeBackBounded ==
  ASSUME TypeOK, NEW c \in Checkout, NEW credited \in Nat, NEW key,
         NEW p \in [status : PayStatus, refunded : Nat],
         credited <= Credited(c), TakeBack(c, Owed(c, p, credited), key)
  PROVE  \/ reversed' = reversed
         \/ \E n \in 1..(Credited(c) - reversed[c]) :
              reversed' = [reversed EXCEPT ![c] = @ + n]
<1> DEFINE delta == Owed(c, p, credited)
<1>1. delta \in Int /\ delta <= credited - reversed[c] /\ reversed[c] \in Nat
  BY OwedInt DEF TypeOK
<1>2. Credited(c) \in Nat
  BY CoinsAssumption DEF Credited
<1>3. CASE delta <= 0
  BY <1>3 DEF TakeBack
<1>4. CASE delta > 0
  <2>1. delta \in 1..(Credited(c) - reversed[c])
    BY <1>1, <1>2, <1>4
  <2>2. \/ reversed' = reversed
        \/ reversed' = [reversed EXCEPT ![c] = @ + delta]
    BY <1>4 DEF TakeBack, TypeOK
  <2> QED BY <2>1, <2>2
<1> QED BY <1>1, <1>3, <1>4

\* A step leaves the reversals alone, or adds to one checkout at most what is
\* credited and not yet reversed, and credits nothing.
LEMMA ReversedSteps ==
  ASSUME Inv, SnapshotWithinCredited, [Next]_vars
  PROVE  \/ UNCHANGED reversed
         \/ /\ \E c \in Checkout : \E n \in 1..(Credited(c) - reversed[c]) :
                  reversed' = [reversed EXCEPT ![c] = @ + n]
            /\ UNCHANGED <<purchased, added, stray>>
<1> USE DEF provider, wallet, ledger, local, history
<1> DEFINE Taken == /\ \E c \in Checkout : \E n \in 1..(Credited(c) - reversed[c]) :
                          reversed' = [reversed EXCEPT ![c] = @ + n]
                    /\ UNCHANGED <<purchased, added, stray>>
<1>0. ASSUME NEW w \in Worker, pc[w] # "idle"
      PROVE  task[w] \in Event /\ Chk(w) \in Checkout
  BY <1>0, EventAssumption DEF Inv, TypeOK, HandlerOK, Chk
<1>1. ASSUME NEW w \in Worker, CommitReversal(w)
      PROVE  UNCHANGED reversed \/ Taken
  <2> DEFINE e == task[w]
  <2>1. pc[w] = "commit" /\ UNCHANGED <<added, stray>>
    BY <1>1 DEF CommitReversal
  <2>2. e \in Event /\ e.checkout \in Checkout /\ Chk(w) = e.checkout
    BY <1>0, <2>1 DEF Chk
  <2>3. snap[w] \in Nat /\ snap[w] <= Credited(e.checkout)
    BY <2>1, <2>2 DEF SnapshotWithinCredited, Inv, TypeOK
  <2>4. PaymentAfter(e) \in [status : PayStatus, refunded : Nat]
    BY <2>2, PaymentAfterType DEF Inv
  <2>5. CASE UNCHANGED ledger
    BY <2>5
  <2>6. CASE TakeBack(e.checkout, Delta(e, snap[w]), e) /\ UNCHANGED <<purchased, gifts>>
    <3>1. CASE Delta(e, snap[w]) = 0
      BY <2>6, <3>1 DEF TakeBack
    <3>2. CASE Delta(e, snap[w]) = Owed(e.checkout, PaymentAfter(e), snap[w])
      BY <2>1, <2>2, <2>3, <2>4, <2>6, <3>2, TakeBackBounded DEF Inv
    <3> QED BY <3>1, <3>2 DEF Delta
  <2> QED BY <2>5, <2>6, <1>1 DEF CommitReversal
<1>2. ASSUME NEW w \in Worker, ReconcileCoinReversal(w)
      PROVE  UNCHANGED reversed \/ Taken
  <2> DEFINE c == Chk(w)
  <2>1. pc[w] = "reconcile" /\ UNCHANGED <<purchased, added, stray>>
    BY <1>2 DEF ReconcileCoinReversal
  <2>2. c \in Checkout /\ payment[c] \in [status : PayStatus, refunded : Nat]
    BY <1>0, <2>1 DEF Inv, TypeOK
  <2>3. Credited(c) \in Nat /\ Credited(c) <= Credited(c)
    BY <2>2, CoinsAssumption DEF Credited
  <2>4. \/ UNCHANGED reversed
        \/ TakeBack(c, Owed(c, payment[c], Credited(c)), [late |-> c])
    BY <1>2 DEF ReconcileCoinReversal
  <2> QED BY <2>1, <2>2, <2>3, <2>4, TakeBackBounded DEF Inv
<1>3. ASSUME NEW w \in Worker, Handle(w) PROVE UNCHANGED reversed \/ Taken
  BY <1>1, <1>2, <1>3 DEF Handle, ApplyCheckoutCompleted, BeginReversal,
     RefuseEvent, StopRenewal, CreditRead, CreditUpdateWallet,
     CreditInsertPurchase, RollbackWalletCredit, FinishProcessed, FinishFailed
<1>4. CASE UNCHANGED vars
  BY <1>4 DEF vars
<1>5. ASSUME NEW w \in Worker, StatementFails(w) \/ Crash(w) PROVE UNCHANGED reversed
  BY <1>5 DEF StatementFails, Crash
<1>6. ASSUME NEW w \in Worker, NEW e \in Event, Begin(w, e) PROVE UNCHANGED reversed
  BY <1>6 DEF Begin
<1>7. ASSUME NEW e \in Event, Emit(e) \/ AcknowledgeDuplicate(e)
      PROVE  UNCHANGED reversed
  BY <1>7 DEF Emit, AcknowledgeDuplicate
<1>8. ASSUME NEW g \in Gift, SendGift(g) \/ ReverseGift(g) PROVE UNCHANGED reversed
  BY <1>8 DEF SendGift, ReverseGift
<1>9. ASSUME NEW writeOff \in BOOLEAN, ReviewFrozenWallet(writeOff)
      PROVE  UNCHANGED reversed
  BY <1>9 DEF ReviewFrozenWallet
<1> QED
  BY <1>3, <1>4, <1>5, <1>6, <1>7, <1>8, <1>9 DEF Next

\* Purchase rows are never deleted; only an insert adds one.
LEMMA PurchasedSteps ==
  ASSUME [Next]_vars
  PROVE  \/ UNCHANGED purchased
         \/ \E w \in Worker : /\ CreditInsertPurchase(w)
                              /\ purchased' = purchased \cup {Chk(w)}
<1> USE DEF provider, wallet, ledger, local, history
<1>1. ASSUME NEW w \in Worker, CreditInsertPurchase(w)
      PROVE  UNCHANGED purchased \/ purchased' = purchased \cup {Chk(w)}
  BY <1>1 DEF CreditInsertPurchase
<1>2. ASSUME NEW w \in Worker, Handle(w)
      PROVE  UNCHANGED purchased \/ CreditInsertPurchase(w)
  BY <1>2 DEF Handle, ApplyCheckoutCompleted, BeginReversal, RefuseEvent,
     CommitReversal, StopRenewal, CreditRead, CreditUpdateWallet,
     RollbackWalletCredit, ReconcileCoinReversal, FinishProcessed, FinishFailed
<1>3. CASE UNCHANGED vars
  BY <1>3 DEF vars
<1> QED
  BY <1>1, <1>2, <1>3 DEF Next, Emit, AcknowledgeDuplicate, Begin,
     StatementFails, Crash, SendGift, ReverseGift, ReviewFrozenWallet

\* Only BeginReversal opens a reversal, with the coins credited by then.
LEMMA OpenReversalSteps ==
  ASSUME Inv, [Next]_vars, NEW w \in Worker, pc'[w] = "commit"
  PROVE  /\ task'[w] = task[w]
         /\ \/ pc[w] = "commit" /\ snap'[w] = snap[w]
            \/ snap'[w] = Credited(Chk(w)) /\ UNCHANGED purchased
<1> USE DEF provider, wallet, ledger, local, history
<1>0. pc \in [Worker -> Phase] /\ snap \in [Worker -> Nat]
  BY DEF Inv, TypeOK
<1>1. ASSUME NEW v \in Worker, BeginReversal(v)
      PROVE  /\ task'[w] = task[w]
             /\ \/ pc[w] = "commit" /\ snap'[w] = snap[w]
                \/ snap'[w] = Credited(Chk(w)) /\ UNCHANGED purchased
  BY <1>0, <1>1 DEF BeginReversal, Goto
<1>2. ASSUME NEW v \in Worker, Release(v)
      PROVE  pc[w] = "commit" /\ task'[w] = task[w] /\ snap'[w] = snap[w]
  BY <1>0, <1>2 DEF Release, Goto, Inv, TypeOK
<1>3. ASSUME NEW v \in Worker, FinishProcessed(v) \/ FinishFailed(v) \/ Crash(v)
      PROVE  pc[w] = "commit" /\ task'[w] = task[w] /\ snap'[w] = snap[w]
  BY <1>2, <1>3 DEF FinishProcessed, FinishFailed, Crash
<1>4. ASSUME NEW v \in Worker, NEW p \in Phase, p # "commit", Goto(v, p),
             UNCHANGED <<task, snap>>
      PROVE  pc[w] = "commit" /\ task'[w] = task[w] /\ snap'[w] = snap[w]
  BY <1>0, <1>4 DEF Goto
<1>5. ASSUME NEW v \in Worker, NEW e \in Event, Begin(v, e)
      PROVE  pc[w] = "commit" /\ task'[w] = task[w] /\ snap'[w] = snap[w]
  BY <1>0, <1>5 DEF Begin, Goto, Inv, TypeOK
<1>6. ASSUME NEW v \in Worker,
             \/ ApplyCheckoutCompleted(v) \/ RefuseEvent(v)
             \/ StopRenewal(v) \/ CreditRead(v)
             \/ CreditUpdateWallet(v) \/ CreditInsertPurchase(v)
             \/ RollbackWalletCredit(v) \/ StatementFails(v)
      PROVE  pc[w] = "commit" /\ task'[w] = task[w] /\ snap'[w] = snap[w]
  BY <1>4, <1>6 DEF ApplyCheckoutCompleted, RefuseEvent, StopRenewal,
     CreditRead, CreditUpdateWallet, CreditInsertPurchase,
     RollbackWalletCredit, StatementFails, Phase
<1>7. ASSUME NEW v \in Worker, CommitReversal(v) \/ ReconcileCoinReversal(v)
      PROVE  pc[w] = "commit" /\ task'[w] = task[w] /\ snap'[w] = snap[w]
  <2>1. UNCHANGED <<task, snap>>
    BY <1>7 DEF CommitReversal, ReconcileCoinReversal
  <2>2. Goto(v, "fail") \/ Goto(v, "renew") \/ Goto(v, "finish")
    BY <1>7 DEF CommitReversal, ReconcileCoinReversal
  <2> QED BY <1>4, <2>1, <2>2 DEF Phase
<1>8. CASE UNCHANGED <<pc, task, snap>>
  BY <1>8
<1>9. ASSUME NEW e \in Event, Emit(e) \/ AcknowledgeDuplicate(e)
      PROVE  UNCHANGED <<pc, task, snap>>
  BY <1>9 DEF Emit, AcknowledgeDuplicate
<1>10. ASSUME NEW g \in Gift, SendGift(g) \/ ReverseGift(g)
       PROVE  UNCHANGED <<pc, task, snap>>
  BY <1>10 DEF SendGift, ReverseGift
<1>11. ASSUME NEW writeOff \in BOOLEAN, ReviewFrozenWallet(writeOff)
       PROVE  UNCHANGED <<pc, task, snap>>
  BY <1>11 DEF ReviewFrozenWallet
<1>12. CASE UNCHANGED vars
  BY <1>8, <1>12 DEF vars
<1>13. ASSUME NEW v \in Worker, Handle(v)
       PROVE  /\ task'[w] = task[w]
              /\ \/ pc[w] = "commit" /\ snap'[w] = snap[w]
                 \/ snap'[w] = Credited(Chk(w)) /\ UNCHANGED purchased
  BY <1>1, <1>3, <1>6, <1>7, <1>13 DEF Handle
<1> QED
  BY <1>3, <1>5, <1>6, <1>8, <1>9, <1>10, <1>11, <1>12, <1>13 DEF Next

\* Every step keeps ReversalInv.
LEMMA ReversalStep ==
  ASSUME ReversalInv, [Next]_vars
  PROVE  SnapshotWithinCredited' /\ ReversedWithinCredited'
<1>1. purchased \subseteq purchased'
  BY PurchasedSteps
<1>2. ReversedWithinCredited'
  <2>1. \A c \in Checkout : reversed'[c] <= Credited(c)
    BY ReversedSteps, CoinsAssumption
       DEF ReversalInv, Inv, TypeOK, ReversedWithinCredited, Credited
  <2>2. reversed' \in [Checkout -> Nat]
    BY TypeStep DEF ReversalInv, Inv, TypeOK
  <2>3. \A c \in Checkout : reversed'[c] <= Credited(c)'
    BY <1>1, <2>1, <2>2, CreditedGrows
  <2> QED BY <2>3 DEF ReversedWithinCredited
<1>3. ASSUME NEW w \in Worker, pc'[w] = "commit"
      PROVE  snap'[w] <= Credited(Chk(w))'
  <2>1. task'[w] = task[w]
    BY <1>3, OpenReversalSteps DEF ReversalInv
  <2>2. Chk(w)' = Chk(w)
    BY <2>1 DEF Chk
  <2>3. HandlerOK' /\ TypeOK'
    BY HandlerStep, TypeStep DEF ReversalInv, Inv
  <2>4. Chk(w)' \in Checkout
    BY <1>3, <2>3, EventAssumption DEF TypeOK, HandlerOK, Chk
  <2>5. /\ Credited(Chk(w)) \in Nat /\ Credited(Chk(w))' \in Nat
        /\ Credited(Chk(w)) <= Credited(Chk(w))'
    BY <1>1, <2>2, <2>4, CoinsAssumption DEF Credited
  <2>6. CASE pc[w] = "commit" /\ snap'[w] = snap[w]
    <3>1. snap[w] <= Credited(Chk(w)) /\ snap[w] \in Nat
      BY <2>6 DEF ReversalInv, SnapshotWithinCredited, Inv, TypeOK
    <3> QED BY <2>5, <2>6, <3>1
  <2>7. CASE snap'[w] = Credited(Chk(w)) /\ UNCHANGED purchased
    BY <2>5, <2>7
  <2> QED BY <1>3, <2>6, <2>7, OpenReversalSteps DEF ReversalInv
<1> QED BY <1>2, <1>3 DEF SnapshotWithinCredited

\* The inductive invariant behind the clawback bound (reverseCoinPurchaseTx
\* run with an old snapshot or with current rows) holds in every behaviour.
THEOREM ReversalInvHolds == Spec => []ReversalInv
<1>1. Init => ReversalInv
  BY InitInv, CoinsAssumption
     DEF Init, ReversalInv, SnapshotWithinCredited, ReversedWithinCredited, Credited
<1>2. ReversalInv /\ [Next]_vars => ReversalInv'
  BY ReversalStep, TypeStep, HandlerStep, MutexStep DEF ReversalInv, Inv
<1> QED BY <1>1, <1>2, PTL DEF Spec

\* No sequence of refunds, disputes, credits and failures takes back more
\* coins than the checkout was credited.
THEOREM ClawbackBounded == Spec => []ReversedWithinCredited
BY ReversalInvHolds, PTL DEF ReversalInv

-----------------------------------------------------------------------------
(* Debt always comes with a freeze.                                        *)

\* A clawback keeps migration 084's constraints: it debits at most the
\* balance, and debt it adds freezes the wallet.
LEMMA TakeBackFreezes ==
  ASSUME TypeOK, WalletConstraints, NEW c, NEW delta \in Int, NEW key,
         TakeBack(c, delta, key)
  PROVE  debt' > 0 => frozen'
<1>1. CASE delta <= 0
  BY <1>1 DEF TakeBack, WalletConstraints
<1>2. CASE delta > 0
  <2>1. Shortfall(delta) \in Nat
    BY <1>2 DEF Shortfall, Debit, MinOf, TypeOK
  <2>2. debt' = debt + Shortfall(delta) /\ frozen' = (frozen \/ Freezes(delta))
    BY <1>2 DEF TakeBack
  <2>3. CASE Shortfall(delta) > 0
    BY <2>2, <2>3 DEF Freezes
  <2>4. CASE Shortfall(delta) = 0
    <3>1. debt' = debt
      BY <2>2, <2>4 DEF TypeOK
    <3>2. frozen => frozen'
      BY Zenon, <2>2
    <3>3. debt > 0 => frozen
      BY DEF WalletConstraints
    <3> QED BY <3>1, <3>2, <3>3
  <2> QED BY <2>1, <2>3, <2>4
<1> QED BY <1>1, <1>2

\* Every step keeps WalletConstraints.
LEMMA FreezeStep ==
  ASSUME Inv, WalletConstraints, [Next]_vars
  PROVE  WalletConstraints'
<1> USE DEF provider, wallet, ledger, local, history
<1>0. TypeOK'
  BY TypeStep DEF Inv
<1>1. ASSUME debt' > 0 => frozen' PROVE WalletConstraints'
  BY <1>0, <1>1 DEF WalletConstraints, TypeOK
<1>2. CASE UNCHANGED <<debt, frozen>>
  BY <1>1, <1>2 DEF WalletConstraints
<1>3. ASSUME NEW w \in Worker, pc[w] # "idle"
      PROVE  task[w] \in Event /\ task[w].checkout \in Checkout
  BY <1>3, EventAssumption DEF Inv, TypeOK, HandlerOK
<1>4. ASSUME NEW w \in Worker, CommitReversal(w) PROVE WalletConstraints'
  <2> DEFINE e == task[w]
  <2>1. e \in Event /\ e.checkout \in Checkout
    BY <1>3, <1>4 DEF CommitReversal
  <2>2. Delta(e, snap[w]) \in Int
    BY <2>1, PaymentAfterType, OwedInt DEF Delta, Inv, TypeOK
  <2>3. CASE UNCHANGED wallet
    BY <1>2, <2>3
  <2>4. CASE TakeBack(e.checkout, Delta(e, snap[w]), e)
    BY <1>1, <2>2, <2>4, TakeBackFreezes DEF Inv
  <2> QED BY <1>4, <2>3, <2>4 DEF CommitReversal
<1>5. ASSUME NEW w \in Worker, ReconcileCoinReversal(w) PROVE WalletConstraints'
  <2> DEFINE c == Chk(w)
  <2>1. c \in Checkout /\ payment[c] \in [status : PayStatus, refunded : Nat]
    BY <1>3, <1>5 DEF ReconcileCoinReversal, Chk, Inv, TypeOK
  <2>2. Credited(c) \in Nat
    BY <2>1, CoinsAssumption DEF Credited
  <2>3. Owed(c, payment[c], Credited(c)) \in Int
    BY <2>1, <2>2, OwedInt DEF Inv, TypeOK
  <2>4. \/ UNCHANGED <<debt, frozen>>
        \/ TakeBack(c, Owed(c, payment[c], Credited(c)), [late |-> c])
    BY <1>5 DEF ReconcileCoinReversal
  <2> QED BY <1>1, <1>2, <2>3, <2>4, TakeBackFreezes DEF Inv
<1>6. ASSUME NEW writeOff \in BOOLEAN, ReviewFrozenWallet(writeOff)
      PROVE  WalletConstraints'
  <2>1. debt' = 0
    BY <1>6 DEF ReviewFrozenWallet
  <2> QED BY <1>1, <2>1
<1>7. ASSUME NEW w \in Worker, Handle(w) PROVE WalletConstraints'
  BY <1>2, <1>4, <1>5, <1>7 DEF Handle, ApplyCheckoutCompleted, BeginReversal,
     RefuseEvent, StopRenewal, CreditRead, CreditUpdateWallet,
     CreditInsertPurchase, RollbackWalletCredit, FinishProcessed, FinishFailed
<1>8. ASSUME NEW g \in Gift, SendGift(g) \/ ReverseGift(g)
      PROVE  UNCHANGED <<debt, frozen>>
  BY <1>8 DEF SendGift, ReverseGift
<1>9. ASSUME NEW w \in Worker, StatementFails(w) \/ Crash(w)
      PROVE  UNCHANGED <<debt, frozen>>
  BY <1>9 DEF StatementFails, Crash
<1>10. ASSUME NEW e \in Event, Emit(e) \/ AcknowledgeDuplicate(e)
       PROVE  UNCHANGED <<debt, frozen>>
  BY <1>10 DEF Emit, AcknowledgeDuplicate
<1>11. ASSUME NEW w \in Worker, NEW e \in Event, Begin(w, e)
       PROVE  UNCHANGED <<debt, frozen>>
  BY <1>11 DEF Begin
<1>12. CASE UNCHANGED vars
  BY <1>2, <1>12 DEF vars
<1> QED
  BY <1>2, <1>6, <1>7, <1>8, <1>9, <1>10, <1>11, <1>12 DEF Next

\* Migration 084's table constraints: no interleaving of credits, clawbacks,
\* gifts and reviews drives the balance below zero, and a wallet that owes
\* coins is frozen.
THEOREM DebtIsFrozen == Spec => []WalletConstraints
<1>1. Init => WalletConstraints
  BY DEF Init, WalletConstraints
<1>2. Inv /\ WalletConstraints /\ [Next]_vars => WalletConstraints'
  BY FreezeStep
<1> QED BY <1>1, <1>2, InvHolds, PTL DEF Spec

-----------------------------------------------------------------------------
(* Each checkout's coins count at most once, and the checkouts keep        *)
(* CoinPromise, whatever fails.                                            *)

\* Coins of the checkout entered the wallet in a credit that has not failed,
\* and no purchase row says so.
Loose(c) == Net(c) # 0 /\ c \notin purchased

\* Coins are loose only between the update of the wallet and the insert of
\* the row or its compensation, or after a crash there: then the event stays
\* "received" and no handler takes it again.
CreditOK ==
    /\ \A c \in Checkout : /\ Net(c) \in {0, Coins[c]}
                           /\ c \in purchased => Net(c) = Coins[c]
    /\ \A w \in Worker : task[w] # NoEvent /\ task[w].kind = "paid" =>
         /\ pc[w] = "insert" => Loose(Chk(w))
         /\ pc[w] = "rollback" => Net(Chk(w)) = Coins[Chk(w)]
         /\ pc[w] \notin {"insert", "rollback"} => ~Loose(Chk(w))
         /\ pc[w] = "cas" => Chk(w) \notin purchased
    /\ \A e \in Event : e.kind = "paid" /\ evStatus[e] \in {"none", "failed"} =>
         ~Loose(e.checkout)

\* A handler of a completed checkout is the only one for that checkout, and
\* its event is recorded as received.
LEMMA PaidHandlers ==
  ASSUME Inv, NEW w \in Worker, task[w] # NoEvent, task[w].kind = "paid"
  PROVE  /\ task[w] \in Event /\ Chk(w) \in Checkout
         /\ \A v \in Worker : task[v] # NoEvent /\ task[v].kind = "paid"
                               /\ Chk(v) = Chk(w) => v = w
         /\ \A e \in Event : e.kind = "paid" /\ e.checkout = Chk(w)
                               => evStatus[e] = "received"
BY EventAssumption DEF Inv, TypeOK, OneHandlerPerEvent, Chk

\* A step that neither moves coins of a credit nor adds a purchase row.
LEMMA CreditKept ==
  ASSUME Inv, Inv', CreditOK, UNCHANGED <<added, stray, purchased>>,
         \A w \in Worker : task'[w] # NoEvent =>
           \/ pc'[w] = pc[w] /\ task'[w] = task[w]
           \/ /\ task'[w] = task[w] /\ pc[w] \notin {"insert", "rollback"}
              /\ pc'[w] \notin {"insert", "rollback"}
              /\ pc'[w] = "cas" => Chk(w) \notin purchased
           \/ pc'[w] = "apply" /\ evStatus[task'[w]] \in {"none", "failed"},
         \A e \in Event : evStatus'[e] \in {"none", "failed"} =>
           \/ evStatus[e] = evStatus'[e]
           \/ \E w \in Worker : task[w] = e /\ pc[w] \notin {"insert", "rollback"}
  PROVE  CreditOK'
<1>0. \A c : Net(c)' = Net(c) /\ Loose(c)' = Loose(c)
  BY DEF Loose, Net
<1>1. \A c \in Checkout : /\ Net(c)' \in {0, Coins[c]}
                          /\ c \in purchased' => Net(c)' = Coins[c]
  BY <1>0 DEF CreditOK
<1>2. ASSUME NEW w \in Worker, task'[w] # NoEvent, task'[w].kind = "paid"
      PROVE  /\ pc'[w] = "insert" => Loose(Chk(w)')
             /\ pc'[w] = "rollback" => Net(Chk(w)') = Coins[Chk(w)']
             /\ pc'[w] \notin {"insert", "rollback"} => ~Loose(Chk(w)')
             /\ pc'[w] = "cas" => Chk(w)' \notin purchased
  <2>1. task'[w] \in Event
    BY <1>2 DEF Inv, TypeOK
  <2>2. CASE pc'[w] = pc[w] /\ task'[w] = task[w]
    BY <1>2, <2>2 DEF CreditOK, Chk
  <2>3. CASE /\ task'[w] = task[w] /\ pc[w] \notin {"insert", "rollback"}
             /\ pc'[w] \notin {"insert", "rollback"}
             /\ pc'[w] = "cas" => Chk(w) \notin purchased
    BY <1>2, <2>3 DEF CreditOK, Chk
  <2>4. CASE pc'[w] = "apply" /\ evStatus[task'[w]] \in {"none", "failed"}
    BY <1>2, <2>1, <2>4 DEF CreditOK, Chk
  <2> QED BY <1>2, <2>2, <2>3, <2>4
<1>3. ASSUME NEW e \in Event, e.kind = "paid", evStatus'[e] \in {"none", "failed"}
      PROVE  ~Loose(e.checkout)
  <2>1. CASE evStatus[e] = evStatus'[e]
    BY <1>3, <2>1 DEF CreditOK
  <2>2. ASSUME NEW w \in Worker, task[w] = e, pc[w] \notin {"insert", "rollback"}
        PROVE  ~Loose(e.checkout)
    BY <1>3, <2>2, EventAssumption DEF CreditOK, Chk
  <2> QED BY <1>3, <2>1, <2>2
<1>4. \A w \in Worker : task'[w] # NoEvent /\ task'[w].kind = "paid" =>
         /\ pc'[w] = "insert" => Loose(Chk(w))'
         /\ pc'[w] = "rollback" => Net(Chk(w))' = Coins[Chk(w)']
         /\ pc'[w] \notin {"insert", "rollback"} => ~Loose(Chk(w))'
         /\ pc'[w] = "cas" => Chk(w)' \notin purchased'
  BY <1>2 DEF Loose, Net
<1>5. \A e \in Event : e.kind = "paid" /\ evStatus'[e] \in {"none", "failed"} =>
         ~Loose(e.checkout)'
  BY <1>3 DEF Loose, Net
<1> QED BY <1>1, <1>4, <1>5 DEF CreditOK

\* A handler's move to another phase without an effect on the credit.
LEMMA CreditMoves ==
  ASSUME Inv, Inv', CreditOK, UNCHANGED <<added, stray, purchased, task, evStatus>>,
         NEW w \in Worker, pc[w] \notin {"insert", "rollback"},
         NEW p \in Phase \ {"insert", "rollback"},
         Goto(w, p), p = "cas" => Chk(w) \notin purchased
  PROVE  CreditOK'
<1>1. pc \in [Worker -> Phase]
  BY DEF Inv, TypeOK
<1> QED BY <1>1, CreditKept DEF Goto

\* A statement of a handler's credit touches its own checkout only.
LEMMA CreditOfOne ==
  ASSUME Inv, CreditOK, UNCHANGED <<task, evStatus>>,
         NEW w \in Worker, task[w] # NoEvent, task[w].kind = "paid",
         NEW p \in Phase \ {"cas"}, Goto(w, p),
         \A d \in Checkout : d # Chk(w) => /\ Net(d)' = Net(d)
                                           /\ d \in purchased' <=> d \in purchased,
         Net(Chk(w))' \in {0, Coins[Chk(w)]},
         Chk(w) \in purchased' => Net(Chk(w))' = Coins[Chk(w)],
         p = "insert" => Loose(Chk(w))',
         p = "rollback" => Net(Chk(w))' = Coins[Chk(w)],
         p \notin {"insert", "rollback"} => ~Loose(Chk(w))'
  PROVE  CreditOK'
<1> DEFINE c == Chk(w)
<1>1. /\ task[w] \in Event /\ c \in Checkout
      /\ \A v \in Worker : task[v] # NoEvent /\ task[v].kind = "paid"
                           /\ Chk(v) = c => v = w
      /\ \A e \in Event : e.kind = "paid" /\ e.checkout = c
                          => evStatus[e] = "received"
  BY PaidHandlers
<1>2. pc' = [pc EXCEPT ![w] = p] /\ pc \in [Worker -> Phase]
  BY DEF Goto, Inv, TypeOK
<1>3. \A v \in Worker : Chk(v)' = Chk(v)
  BY DEF Chk
<1>4. \A d \in Checkout : /\ Net(d)' \in {0, Coins[d]}
                          /\ d \in purchased' => Net(d)' = Coins[d]
  BY <1>3 DEF CreditOK
<1>5. \A d \in Checkout : d # c => (Loose(d)' <=> Loose(d))
  BY <1>3 DEF Loose
<1>6. ASSUME NEW v \in Worker, task'[v] # NoEvent, task'[v].kind = "paid"
      PROVE  /\ pc'[v] = "insert" => Loose(Chk(v))'
             /\ pc'[v] = "rollback" => Net(Chk(v))' = Coins[Chk(v)']
             /\ pc'[v] \notin {"insert", "rollback"} => ~Loose(Chk(v))'
             /\ pc'[v] = "cas" => Chk(v)' \notin purchased'
  <2>1. task[v] # NoEvent /\ task[v].kind = "paid" /\ Chk(v) \in Checkout
    BY <1>6, PaidHandlers
  <2>2. CASE v = w
    BY <1>2, <1>3, <2>2
  <2>3. CASE v # w
    <3>1. Chk(v) # c /\ pc'[v] = pc[v]
      BY <1>1, <1>2, <2>1, <2>3
    <3>2. /\ Loose(Chk(v))' <=> Loose(Chk(v))
          /\ Net(Chk(v))' = Net(Chk(v))
          /\ Chk(v)' \in purchased' <=> Chk(v) \in purchased
      BY <1>3, <1>5, <2>1, <3>1 DEF Loose, Net
    <3> QED BY <1>3, <2>1, <3>1, <3>2 DEF CreditOK
  <2> QED BY <2>2, <2>3
<1>7. ASSUME NEW e \in Event, e.kind = "paid", evStatus'[e] \in {"none", "failed"}
      PROVE  ~Loose(e.checkout)'
  <2>1. e.checkout \in Checkout /\ e.checkout # c
    BY <1>1, <1>7, EventAssumption
  <2>2. ~Loose(e.checkout)
    BY <1>7 DEF CreditOK
  <2> QED BY <1>5, <2>1, <2>2 DEF Loose
<1> QED BY <1>4, <1>6, <1>7 DEF CreditOK

\* The compare-and-set of the wallet: the coins enter and count, or the
\* attempt ends and they are stray.
LEMMA CreditUpdateStep ==
  ASSUME Inv, Inv', CreditOK, NEW w \in Worker, CreditUpdateWallet(w)
  PROVE  CreditOK'
<1> USE DEF provider, wallet, ledger, local, history
<1> DEFINE c == Chk(w)
<1>1. /\ pc[w] = "cas" /\ task[w] # NoEvent /\ task[w].kind = "paid"
      /\ UNCHANGED <<evStatus, purchased, task>>
  BY DEF CreditUpdateWallet, Inv, HandlerOK
<1>2. c \in Checkout /\ Chk(w)' = Chk(w)
  BY <1>1, PaidHandlers DEF Chk
<1>3. /\ Net(c) = 0 /\ c \notin purchased /\ Coins[c] \in Nat \ {0}
      /\ added \in [Checkout -> Int] /\ stray \in [Checkout -> Int]
  BY <1>1, <1>2, CoinsAssumption DEF CreditOK, Loose, Inv, TypeOK
<1>4. CASE Goto(w, "fail") /\ UNCHANGED <<added, stray>>
  BY <1>1, <1>4, CreditMoves DEF Phase
<1>5. CASE /\ added' = [added EXCEPT ![c] = @ + Coins[c]]
           /\ Goto(w, "insert") /\ UNCHANGED stray
  <2>1. Net(c)' = Coins[c] /\ \A d \in Checkout : d # c => Net(d)' = Net(d)
    BY <1>2, <1>3, <1>5 DEF Net
  <2>2. Loose(c)'
    BY <1>1, <1>2, <1>3, <2>1 DEF Loose, Net
  <2> QED BY <1>1, <1>2, <1>3, <1>5, <2>1, <2>2, CreditOfOne DEF Phase, Net
<1>6. CASE /\ added' = [added EXCEPT ![c] = @ + Coins[c]]
           /\ LeavesBehind(w) /\ Goto(w, "fail")
  <2>1. stray' = [stray EXCEPT ![c] = @ + Coins[c]]
    BY <1>3, <1>6 DEF LeavesBehind
  <2>2. Net(c)' = 0 /\ \A d \in Checkout : d # c => Net(d)' = Net(d)
    BY <1>2, <1>3, <1>6, <2>1 DEF Net
  <2>3. ~Loose(c)'
    BY <1>1, <1>2, <2>2 DEF Loose, Net
  <2> QED BY <1>1, <1>2, <1>3, <1>6, <2>2, <2>3, CreditOfOne DEF Phase, Net
<1> QED BY <1>4, <1>5, <1>6 DEF CreditUpdateWallet

\* The insert of the purchase row: it lands, or the compensation follows.
LEMMA CreditInsertStep ==
  ASSUME Inv, Inv', CreditOK, NEW w \in Worker, CreditInsertPurchase(w)
  PROVE  CreditOK'
<1> USE DEF provider, wallet, ledger, local, history
<1> DEFINE c == Chk(w)
<1>1. /\ pc[w] = "insert" /\ task[w] # NoEvent /\ task[w].kind = "paid"
      /\ UNCHANGED <<evStatus, task, added, stray>>
  BY DEF CreditInsertPurchase, Inv, HandlerOK
<1>2. c \in Checkout /\ Chk(w)' = Chk(w)
  BY <1>1, PaidHandlers DEF Chk
<1>3. c \notin purchased /\ Net(c) = Coins[c]
  <2>1. Loose(c)
    BY <1>1 DEF CreditOK
  <2>2. Net(c) \in {0, Coins[c]}
    BY <1>2 DEF CreditOK
  <2> QED BY <2>1, <2>2 DEF Loose
<1>4. \A d : Net(d)' = Net(d)
  BY <1>1 DEF Net
<1>5. CASE purchased' = purchased \cup {c} /\ Goto(w, "reconcile")
  <2>1. ~Loose(c)'
    BY <1>2, <1>5 DEF Loose
  <2> QED BY <1>1, <1>2, <1>3, <1>4, <1>5, <2>1, CreditOfOne DEF Phase, Net
<1>6. CASE purchased' \in {purchased, purchased \cup {c}} /\ Goto(w, "rollback")
  BY <1>1, <1>2, <1>3, <1>4, <1>6, CreditOfOne DEF Phase, Net
<1> QED BY <1>3, <1>5, <1>6 DEF CreditInsertPurchase

\* The compensation: the coins of a checkout without a row no longer count,
\* those of a checkout whose row landed still do.
LEMMA RollbackStep ==
  ASSUME Inv, Inv', CreditOK, NEW w \in Worker, RollbackWalletCredit(w)
  PROVE  CreditOK'
<1> USE DEF provider, wallet, ledger, local, history
<1> DEFINE c == Chk(w)
<1>1. /\ pc[w] = "rollback" /\ task[w] # NoEvent /\ task[w].kind = "paid"
      /\ UNCHANGED <<evStatus, purchased, task>> /\ Goto(w, "fail")
  BY DEF RollbackWalletCredit, Inv, HandlerOK
<1>2. c \in Checkout /\ Chk(w)' = Chk(w)
  BY <1>1, PaidHandlers DEF Chk
<1>3. /\ Net(c) = Coins[c] /\ Coins[c] \in Nat \ {0}
      /\ added \in [Checkout -> Int] /\ stray \in [Checkout -> Int]
  BY <1>1, <1>2, CoinsAssumption DEF CreditOK, Inv, TypeOK
<1>4. /\ \A d \in Checkout : d # c => Net(d)' = Net(d)
      /\ Net(c)' = IF c \in purchased THEN Coins[c] ELSE 0
  <2>1. CASE /\ added' = [added EXCEPT ![c] = @ - Coins[c]]
             /\ stray' = IF c \in purchased
                         THEN [stray EXCEPT ![c] = @ - Coins[c]] ELSE stray
    BY <1>2, <1>3, <2>1 DEF Net
  <2>2. CASE LeavesBehind(w) /\ UNCHANGED added
    BY <1>2, <1>3, <2>2 DEF Net, LeavesBehind
  <2> QED BY <2>1, <2>2 DEF RollbackWalletCredit
<1>5. ~Loose(c)'
  BY <1>1, <1>2, <1>4 DEF Loose, Net
<1> QED BY <1>1, <1>2, <1>3, <1>4, <1>5, CreditOfOne DEF Phase, Net

\* Every step keeps CreditOK.
LEMMA CreditStep ==
  ASSUME Inv, CreditOK, [Next]_vars
  PROVE  CreditOK'
<1> USE DEF provider, wallet, ledger, local, history
<1>0. Inv'
  BY TypeStep, HandlerStep, MutexStep DEF Inv
<1>1. CASE UNCHANGED <<added, stray, purchased, task, pc, evStatus>>
  BY <1>0, <1>1, CreditKept
<1>2. ASSUME NEW w \in Worker, NEW e \in Event, Begin(w, e) PROVE CreditOK'
  <2>1. /\ UNCHANGED <<added, stray, purchased>>
        /\ evStatus[e] \in {"none", "failed"}
        /\ evStatus' = [evStatus EXCEPT ![e] = "received"]
        /\ task' = [task EXCEPT ![w] = e]
        /\ pc' = [pc EXCEPT ![w] = "apply"]
    BY <1>2 DEF Begin, Opens, Goto
  <2> QED BY <1>0, <2>1, CreditKept DEF Inv, TypeOK
<1>3. ASSUME NEW w \in Worker, Release(w), UNCHANGED <<added, stray, purchased, evStatus>>
      PROVE  CreditOK'
  <2>1. /\ task' = [task EXCEPT ![w] = NoEvent]
        /\ pc' = [pc EXCEPT ![w] = "idle"]
    BY <1>3 DEF Release, Goto
  <2> QED BY <1>0, <1>3, <2>1, CreditKept DEF Inv, TypeOK
<1>4. ASSUME NEW w \in Worker, FinishProcessed(w) \/ FinishFailed(w)
      PROVE  CreditOK'
  <2>1. /\ task' = [task EXCEPT ![w] = NoEvent]
        /\ pc' = [pc EXCEPT ![w] = "idle"]
        /\ pc[w] \notin {"insert", "rollback"}
        /\ UNCHANGED <<added, stray, purchased>>
    BY <1>4 DEF FinishProcessed, FinishFailed, Release, Goto
  <2>2. \/ evStatus' = evStatus
        \/ evStatus' = [evStatus EXCEPT ![task[w]] = "processed"]
        \/ evStatus' = [evStatus EXCEPT ![task[w]] = "failed"]
    BY <1>4 DEF FinishProcessed, FinishFailed
  <2>3. \A e \in Event : evStatus'[e] \in {"none", "failed"} =>
           \/ evStatus[e] = evStatus'[e]
           \/ task[w] = e /\ pc[w] \notin {"insert", "rollback"}
    BY <2>1, <2>2 DEF Inv, TypeOK
  <2> QED BY <1>0, <2>1, <2>3, CreditKept DEF Inv, TypeOK
<1>5. ASSUME NEW w \in Worker, Crash(w) PROVE CreditOK'
  BY <1>3, <1>5 DEF Crash
<1>6. ASSUME NEW w \in Worker,
             \/ ApplyCheckoutCompleted(w) \/ BeginReversal(w)
             \/ RefuseEvent(w) \/ StopRenewal(w) \/ StatementFails(w)
      PROVE  CreditOK'
  BY <1>0, <1>6, CreditMoves DEF ApplyCheckoutCompleted, BeginReversal,
     RefuseEvent, StopRenewal, StatementFails, Phase
<1>7. ASSUME NEW w \in Worker, CommitReversal(w) \/ ReconcileCoinReversal(w)
      PROVE  CreditOK'
  <2>1. /\ UNCHANGED <<added, stray, purchased, task, evStatus>>
        /\ pc[w] \notin {"insert", "rollback"}
        /\ Goto(w, "fail") \/ Goto(w, "renew") \/ Goto(w, "finish")
    BY <1>7 DEF CommitReversal, ReconcileCoinReversal
  <2> QED BY <1>0, <2>1, CreditMoves DEF Phase
<1>8. ASSUME NEW w \in Worker, CreditRead(w) PROVE CreditOK'
  BY <1>0, <1>8, CreditMoves DEF CreditRead, CreditedAlready, Phase
<1>9. ASSUME NEW w \in Worker, CreditUpdateWallet(w) PROVE CreditOK'
  BY <1>0, <1>9, CreditUpdateStep
<1>10. ASSUME NEW w \in Worker, CreditInsertPurchase(w) PROVE CreditOK'
  BY <1>0, <1>10, CreditInsertStep
<1>11. ASSUME NEW w \in Worker, RollbackWalletCredit(w) PROVE CreditOK'
  BY <1>0, <1>11, RollbackStep
<1>12. ASSUME NEW w \in Worker, Handle(w) PROVE CreditOK'
  BY <1>4, <1>6, <1>7, <1>8, <1>9, <1>10, <1>11, <1>12 DEF Handle
<1>13. ASSUME NEW e \in Event, Emit(e) \/ AcknowledgeDuplicate(e)
       PROVE  CreditOK'
  BY <1>1, <1>13 DEF Emit, AcknowledgeDuplicate
<1>14. ASSUME NEW g \in Gift, SendGift(g) \/ ReverseGift(g) PROVE CreditOK'
  BY <1>1, <1>14 DEF SendGift, ReverseGift
<1>15. ASSUME NEW writeOff \in BOOLEAN, ReviewFrozenWallet(writeOff)
       PROVE  CreditOK'
  BY <1>1, <1>15 DEF ReviewFrozenWallet
<1>16. CASE UNCHANGED vars
  BY <1>1, <1>16 DEF vars
<1> QED
  BY <1>2, <1>5, <1>6, <1>12, <1>13, <1>14, <1>15, <1>16 DEF Next

\* The initial state satisfies CreditOK.
LEMMA InitCredit == Init => CreditOK
<1> SUFFICES ASSUME Init PROVE CreditOK
  OBVIOUS
<1>1. \A c \in Checkout : ~Loose(c) /\ Net(c) = 0 /\ c \notin purchased
  BY DEF Init, Loose, Net
<1>2. \A w \in Worker : task[w] = NoEvent /\ pc[w] = "idle"
  BY DEF Init
<1> QED BY <1>1, <1>2, EventAssumption DEF CreditOK

\* A failure pays for the coins a failed credit leaves behind, and for those a
\* compensation is about to undo.
StrayOK ==
    /\ \A c \in Checkout : stray[c] <= Coins[c] * faults
    /\ \A w \in Worker : pc[w] = "rollback" /\ Chk(w) \notin purchased =>
         stray[Chk(w)] + Coins[Chk(w)] <= Coins[Chk(w)] * faults

\* Failures pay for more coins as they are counted.
LEMMA FaultsPay ==
  ASSUME NEW c \in Checkout, NEW m \in Nat, NEW n \in Nat, m <= n
  PROVE  /\ Coins[c] * m \in Nat /\ Coins[c] * n \in Nat
         /\ Coins[c] * m <= Coins[c] * n
         /\ Coins[c] * (m + 1) = Coins[c] * m + Coins[c]
BY CoinsAssumption

\* What the handlers' statements do to stray coins and to pending
\* compensations.
LEMMA StraySteps ==
  ASSUME Inv, [Next]_vars
  PROVE  \/ /\ UNCHANGED stray /\ faults' \in {faults, faults + 1}
            /\ \A w \in Worker : pc'[w] = "rollback" =>
                                   pc[w] = "rollback" /\ task'[w] = task[w]
         \/ \E w \in Worker : \/ CreditUpdateWallet(w)
                              \/ CreditInsertPurchase(w)
                              \/ RollbackWalletCredit(w)
<1> USE DEF provider, wallet, ledger, local, history, Fault
<1> DEFINE Calm == /\ UNCHANGED stray /\ faults' \in {faults, faults + 1}
                   /\ \A w \in Worker : pc'[w] = "rollback" =>
                                          pc[w] = "rollback" /\ task'[w] = task[w]
<1>0. pc \in [Worker -> Phase] /\ task \in [Worker -> Event \cup {NoEvent}]
  BY DEF Inv, TypeOK
<1>1. ASSUME NEW w \in Worker, Release(w), UNCHANGED stray,
             faults' \in {faults, faults + 1}
      PROVE  Calm
  BY <1>0, <1>1 DEF Release, Goto
<1>2. ASSUME NEW w \in Worker, FinishProcessed(w) \/ FinishFailed(w) \/ Crash(w)
      PROVE  Calm
  BY <1>1, <1>2 DEF FinishProcessed, FinishFailed, Crash
<1>3. ASSUME NEW w \in Worker, NEW p \in Phase \ {"rollback"}, Goto(w, p),
             UNCHANGED <<task, stray>>, faults' \in {faults, faults + 1}
      PROVE  Calm
  BY <1>0, <1>3 DEF Goto
<1>4. ASSUME NEW w \in Worker,
             \/ ApplyCheckoutCompleted(w) \/ BeginReversal(w)
             \/ RefuseEvent(w) \/ StopRenewal(w)
             \/ CreditRead(w) \/ StatementFails(w)
      PROVE  Calm
  BY <1>3, <1>4 DEF ApplyCheckoutCompleted, BeginReversal, RefuseEvent,
     StopRenewal, CreditRead, StatementFails, Phase
<1>5. ASSUME NEW w \in Worker, CommitReversal(w) \/ ReconcileCoinReversal(w)
      PROVE  Calm
  <2>1. /\ UNCHANGED <<task, stray, faults>>
        /\ Goto(w, "fail") \/ Goto(w, "renew") \/ Goto(w, "finish")
    BY <1>5 DEF CommitReversal, ReconcileCoinReversal
  <2> QED BY <1>3, <2>1 DEF Phase
<1>6. ASSUME NEW w \in Worker, NEW e \in Event, Begin(w, e) PROVE Calm
  BY <1>0, <1>6 DEF Begin, Goto
<1>7. CASE /\ UNCHANGED <<pc, task, stray>> /\ faults' \in {faults, faults + 1}
  BY <1>7
<1>8. ASSUME NEW e \in Event, Emit(e) \/ AcknowledgeDuplicate(e) PROVE Calm
  BY <1>7, <1>8 DEF Emit, AcknowledgeDuplicate
<1>9. ASSUME NEW g \in Gift, SendGift(g) \/ ReverseGift(g) PROVE Calm
  BY <1>7, <1>9 DEF SendGift, ReverseGift
<1>10. ASSUME NEW writeOff \in BOOLEAN, ReviewFrozenWallet(writeOff) PROVE Calm
  BY <1>7, <1>10 DEF ReviewFrozenWallet
<1>11. CASE UNCHANGED vars
  BY <1>7, <1>11 DEF vars
<1>12. ASSUME NEW w \in Worker, Handle(w)
       PROVE  \/ Calm \/ CreditUpdateWallet(w) \/ CreditInsertPurchase(w)
              \/ RollbackWalletCredit(w)
  BY <1>2, <1>4, <1>5, <1>12 DEF Handle
<1> QED
  BY <1>2, <1>4, <1>6, <1>8, <1>9, <1>10, <1>11, <1>12 DEF Next

\* A statement of a handler's credit, and what the failures then pay for.
LEMMA StrayOfOne ==
  ASSUME Inv, StrayOK, UNCHANGED task,
         NEW w \in Worker, task[w] # NoEvent, task[w].kind = "paid",
         NEW p \in Phase, Goto(w, p), purchased \subseteq purchased',
         faults' \in {faults, faults + 1},
         \A d \in Checkout : d # Chk(w) => stray'[d] = stray[d],
         stray'[Chk(w)] <= Coins[Chk(w)] * faults',
         p = "rollback" /\ Chk(w) \notin purchased' =>
           stray'[Chk(w)] + Coins[Chk(w)] <= Coins[Chk(w)] * faults',
         stray' \in [Checkout -> Int]
  PROVE  StrayOK'
<1> DEFINE c == Chk(w)
<1>1. /\ c \in Checkout
      /\ \A v \in Worker : task[v] # NoEvent /\ task[v].kind = "paid"
                           /\ Chk(v) = c => v = w
  BY PaidHandlers
<1>2. pc' = [pc EXCEPT ![w] = p] /\ pc \in [Worker -> Phase]
  BY DEF Goto, Inv, TypeOK
<1>3. /\ faults \in Nat /\ faults' \in Nat /\ faults <= faults'
      /\ stray \in [Checkout -> Int]
  BY DEF Inv, TypeOK
<1>4. \A d \in Checkout : /\ Coins[d] * faults \in Nat /\ Coins[d] * faults' \in Nat
                          /\ Coins[d] * faults <= Coins[d] * faults'
  BY <1>3, FaultsPay
<1>5. \A d \in Checkout : stray'[d] <= Coins[d] * faults'
  BY <1>3, <1>4 DEF StrayOK
<1>6. ASSUME NEW v \in Worker, pc'[v] = "rollback", Chk(v) \notin purchased'
      PROVE  stray'[Chk(v)] + Coins[Chk(v)] <= Coins[Chk(v)] * faults'
  <2>1. CASE v = w
    BY <1>2, <1>6, <2>1
  <2>2. CASE v # w
    <3>1. pc[v] = "rollback" /\ task[v] # NoEvent /\ task[v].kind = "paid"
      BY <1>2, <1>6, <2>2 DEF Inv, HandlerOK
    <3>2. Chk(v) \in Checkout /\ Chk(v) # c
      BY <1>1, <2>2, <3>1, PaidHandlers
    <3>3. stray[Chk(v)] + Coins[Chk(v)] <= Coins[Chk(v)] * faults
      BY <1>6, <3>1 DEF StrayOK
    <3>4. stray[Chk(v)] \in Int /\ Coins[Chk(v)] \in Int
      BY <1>3, <3>2, CoinsAssumption
    <3> QED BY <1>4, <3>2, <3>3, <3>4
  <2> QED BY <2>1, <2>2
<1>7. \A v \in Worker : Chk(v)' = Chk(v)
  BY DEF Chk
<1> QED BY <1>5, <1>6, <1>7 DEF StrayOK

\* Every step keeps StrayOK.
LEMMA StrayStep ==
  ASSUME Inv, CreditOK, StrayOK, [Next]_vars
  PROVE  StrayOK'
<1> USE DEF provider, wallet, ledger, local, history
<1>0. /\ faults \in Nat /\ stray \in [Checkout -> Int]
      /\ stray' \in [Checkout -> Int] /\ faults' \in Nat
  BY TypeStep DEF Inv, TypeOK
<1>1. purchased \subseteq purchased'
  BY PurchasedSteps
<1>2. CASE /\ UNCHANGED stray /\ faults' \in {faults, faults + 1}
           /\ \A w \in Worker : pc'[w] = "rollback" =>
                                  pc[w] = "rollback" /\ task'[w] = task[w]
  <2>1. \A d \in Checkout : /\ Coins[d] * faults \in Nat /\ Coins[d] * faults' \in Nat
                            /\ Coins[d] * faults <= Coins[d] * faults'
    BY <1>0, <1>2, FaultsPay
  <2>2. \A c \in Checkout : stray'[c] <= Coins[c] * faults'
    BY <1>0, <1>2, <2>1 DEF StrayOK
  <2>3. ASSUME NEW w \in Worker, pc'[w] = "rollback", Chk(w)' \notin purchased'
        PROVE  stray'[Chk(w)'] + Coins[Chk(w)'] <= Coins[Chk(w)'] * faults'
    <3>1. pc[w] = "rollback" /\ Chk(w)' = Chk(w) /\ Chk(w) \notin purchased
      BY <1>1, <1>2, <2>3 DEF Chk
    <3>2. task[w] # NoEvent /\ task[w].kind = "paid"
      BY <3>1 DEF Inv, HandlerOK
    <3>3. Chk(w) \in Checkout
      BY <3>2, PaidHandlers
    <3>4. stray[Chk(w)] + Coins[Chk(w)] <= Coins[Chk(w)] * faults
      BY <3>1 DEF StrayOK
    <3>5. stray[Chk(w)] \in Int /\ Coins[Chk(w)] \in Int
      BY <1>0, <3>3, CoinsAssumption
    <3> QED BY <1>2, <2>1, <3>1, <3>3, <3>4, <3>5
  <2> QED BY <2>2, <2>3 DEF StrayOK
<1>3. ASSUME NEW w \in Worker, pc[w] \in {"cas", "insert", "rollback"}
      PROVE  /\ task[w] # NoEvent /\ task[w].kind = "paid" /\ Chk(w) \in Checkout
             /\ stray[Chk(w)] \in Int /\ Coins[Chk(w)] \in Nat
             /\ stray[Chk(w)] <= Coins[Chk(w)] * faults
             /\ Coins[Chk(w)] * faults \in Nat
             /\ Coins[Chk(w)] * (faults + 1) = Coins[Chk(w)] * faults + Coins[Chk(w)]
  <2>1. task[w] # NoEvent /\ task[w].kind = "paid"
    BY <1>3 DEF Inv, HandlerOK
  <2>2. Chk(w) \in Checkout
    BY <2>1, PaidHandlers
  <2> QED BY <1>0, <2>1, <2>2, FaultsPay, CoinsAssumption DEF StrayOK
<1>4. ASSUME NEW w \in Worker, CreditUpdateWallet(w) PROVE StrayOK'
  <2>1. pc[w] = "cas" /\ UNCHANGED <<task, purchased>>
    BY <1>4 DEF CreditUpdateWallet
  <2>2. CASE UNCHANGED <<stray, faults>>
    <3>1. Goto(w, "fail") \/ Goto(w, "insert")
      BY <1>4 DEF CreditUpdateWallet, Fault
    <3> QED BY <1>0, <1>3, <2>1, <2>2, <3>1, StrayOfOne DEF Phase
  <2>3. CASE faults' = faults + 1 /\ LeavesBehind(w) /\ Goto(w, "fail")
    <3>1. Chk(w) \notin purchased
      BY <1>3, <2>1 DEF CreditOK
    <3>2. stray' = [stray EXCEPT ![Chk(w)] = @ + Coins[Chk(w)]]
      BY <2>3, <3>1 DEF LeavesBehind
    <3>3. stray'[Chk(w)] <= Coins[Chk(w)] * faults'
      BY <1>0, <1>3, <2>1, <2>3, <3>2
    <3>4. \A d \in Checkout : d # Chk(w) => stray'[d] = stray[d]
      BY <1>0, <3>2
    <3> QED BY <1>0, <1>3, <2>1, <2>3, <3>3, <3>4, StrayOfOne DEF Phase
  <2> QED BY <1>4, <2>2, <2>3 DEF CreditUpdateWallet, Fault
<1>5. ASSUME NEW w \in Worker, CreditInsertPurchase(w) PROVE StrayOK'
  <2>1. pc[w] = "insert" /\ UNCHANGED <<task, stray>>
    BY <1>5 DEF CreditInsertPurchase
  <2>2. CASE UNCHANGED faults /\ Goto(w, "reconcile")
    BY <1>0, <1>1, <1>3, <2>1, <2>2, StrayOfOne DEF Phase
  <2>3. CASE Chk(w) \in purchased /\ UNCHANGED faults /\ Goto(w, "rollback")
    BY <1>0, <1>1, <1>3, <2>1, <2>3, StrayOfOne DEF Phase
  <2>4. CASE faults' = faults + 1 /\ Goto(w, "rollback")
    BY <1>0, <1>1, <1>3, <2>1, <2>4, StrayOfOne DEF Phase
  <2> QED BY <1>5, <2>2, <2>3, <2>4 DEF CreditInsertPurchase, Fault
<1>6. ASSUME NEW w \in Worker, RollbackWalletCredit(w) PROVE StrayOK'
  <2>1. /\ pc[w] = "rollback" /\ UNCHANGED <<task, purchased, faults>>
        /\ Goto(w, "fail")
    BY <1>6 DEF RollbackWalletCredit
  <2>2. Chk(w) \notin purchased =>
          stray[Chk(w)] + Coins[Chk(w)] <= Coins[Chk(w)] * faults
    BY <2>1 DEF StrayOK
  <2>3. /\ stray'[Chk(w)] <= Coins[Chk(w)] * faults
        /\ \A d \in Checkout : d # Chk(w) => stray'[d] = stray[d]
    BY <1>0, <1>3, <1>6, <2>1, <2>2 DEF RollbackWalletCredit, LeavesBehind
  <2> QED BY <1>0, <1>3, <2>1, <2>3, StrayOfOne DEF Phase
<1> QED BY <1>2, <1>4, <1>5, <1>6, StraySteps

\* The two parts hold together in every behaviour.
LEMMA CreditHolds == Spec => [](Inv /\ CreditOK /\ StrayOK)
<1>1. Init => StrayOK
  BY CoinsAssumption DEF Init, StrayOK
<1>2. Inv /\ CreditOK /\ [Next]_vars => CreditOK'
  BY CreditStep
<1>3. Inv /\ CreditOK /\ StrayOK /\ [Next]_vars => StrayOK'
  BY StrayStep
<1> QED BY InitCredit, <1>1, <1>2, <1>3, InvHolds, PTL DEF Spec

\* No interleaving of redeliveries, crashes, conflicts, failed statements and
\* compensations credits a checkout twice, but for the coins failed credits
\* leave in the wallet, one credit for each failure.
THEOREM CreditIdempotent == Spec => []CreditedAtMostOnce
<1>1. Inv /\ CreditOK /\ StrayOK => CreditedAtMostOnce
  <2> SUFFICES ASSUME Inv, CreditOK, StrayOK, NEW c \in Checkout
               PROVE  /\ added[c] <= Coins[c] + stray[c]
                      /\ stray[c] <= Coins[c] * faults
    BY DEF CreditedAtMostOnce
  <2>1. Net(c) \in {0, Coins[c]} /\ stray[c] <= Coins[c] * faults
    BY DEF CreditOK, StrayOK
  <2>2. added[c] \in Int /\ stray[c] \in Int /\ Coins[c] \in Nat
    BY CoinsAssumption DEF Inv, TypeOK
  <2> QED BY <2>1, <2>2 DEF Net
<1> QED BY <1>1, CreditHolds, PTL

-----------------------------------------------------------------------------
(* The refinement.                                                         *)

\* A compare-and-set, or its compensation, is a step of CoinPromise.
LEMMA CreditKeepsPromise ==
  ASSUME Inv, CreditOK, ReversedWithinCredited, NEW w \in Worker,
         CreditUpdateWallet(w) \/ RollbackWalletCredit(w)
  PROVE  [Promise!Next]_<<added, stray, reversed>>
<1> USE DEF provider, wallet, ledger, local, history
<1> DEFINE c == Chk(w)
<1>1. /\ pc[w] \in {"cas", "rollback"} /\ task[w] # NoEvent /\ task[w].kind = "paid"
      /\ UNCHANGED reversed
  BY DEF CreditUpdateWallet, RollbackWalletCredit, Inv, HandlerOK
<1>2. /\ c \in Checkout /\ Coins[c] \in Nat \ {0}
      /\ added \in [Checkout -> Int] /\ stray \in [Checkout -> Int]
      /\ reversed[c] \in Nat /\ reversed[c] <= Credited(c)
  BY <1>1, PaidHandlers, CoinsAssumption DEF Inv, TypeOK, ReversedWithinCredited
<1>3. Promise!Kept(c) = Net(c)
  BY DEF Promise!Kept, Net
<1>4. CASE CreditUpdateWallet(w)
  <2>1. c \notin purchased /\ Net(c) = 0
    BY <1>1, <1>2, <1>4 DEF CreditUpdateWallet, CreditOK, Loose
  <2>2. CASE UNCHANGED <<added, stray>>
    BY <1>1, <2>2
  <2>3. CASE added' = [added EXCEPT ![c] = @ + Coins[c]] /\ UNCHANGED stray
    <3>1. Promise!Grant(c)
      BY <1>1, <1>3, <2>1, <2>3 DEF Promise!Grant
    <3> QED BY <1>2, <3>1 DEF Promise!Next
  <2>4. CASE added' = [added EXCEPT ![c] = @ + Coins[c]] /\ LeavesBehind(w)
    <3>1. Promise!Stray(c)
      BY <1>1, <2>1, <2>4 DEF Promise!Stray, LeavesBehind
    <3> QED BY <1>2, <3>1 DEF Promise!Next
  <2> QED BY <1>4, <2>2, <2>3, <2>4 DEF CreditUpdateWallet
<1>5. CASE RollbackWalletCredit(w)
  <2>1. Net(c) = Coins[c]
    BY <1>1, <1>5 DEF RollbackWalletCredit, CreditOK
  <2>2. CASE c \in purchased
    <3>1. CASE UNCHANGED <<added, stray>>
      BY <1>1, <3>1
    <3>2. CASE /\ added' = [added EXCEPT ![c] = @ - Coins[c]]
               /\ stray' = [stray EXCEPT ![c] = @ - Coins[c]]
      <4>0. /\ added[c] - Coins[c] = added[c] + (0 - Coins[c])
            /\ stray[c] - Coins[c] = stray[c] + (0 - Coins[c])
        BY <1>2
      <4>1. /\ added' = [added EXCEPT ![c] = @ + (0 - Coins[c])]
            /\ stray' = [stray EXCEPT ![c] = @ + (0 - Coins[c])]
        BY <3>2, <4>0, Zenon
      <4>2. Promise!Stray(c)
        BY <1>1, <4>1 DEF Promise!Stray
      <4> QED BY <1>2, <4>2 DEF Promise!Next
    <3> QED BY <1>5, <2>2, <3>1, <3>2 DEF RollbackWalletCredit, LeavesBehind
  <2>3. CASE c \notin purchased
    <3>1. reversed[c] = 0
      BY <1>2, <2>3 DEF Credited
    <3>2. \/ added' = [added EXCEPT ![c] = @ - Coins[c]] /\ UNCHANGED stray
          \/ stray' = [stray EXCEPT ![c] = @ + Coins[c]] /\ UNCHANGED added
      BY <1>5, <2>3 DEF RollbackWalletCredit, LeavesBehind
    <3>3. Promise!Withdraw(c)
      BY <1>1, <1>3, <2>1, <3>1, <3>2 DEF Promise!Withdraw
    <3> QED BY <1>2, <3>3 DEF Promise!Next
  <2> QED BY <2>2, <2>3
<1> QED BY <1>4, <1>5

\* Only the update of the wallet and its compensation change what entered it.
LEMMA AddedSteps ==
  ASSUME [Next]_vars
  PROVE  \/ UNCHANGED <<added, stray>>
         \/ \E w \in Worker : CreditUpdateWallet(w) \/ RollbackWalletCredit(w)
<1> USE DEF provider, wallet, ledger, local, history
<1>1. ASSUME NEW w \in Worker, Handle(w)
      PROVE  \/ UNCHANGED <<added, stray>>
             \/ CreditUpdateWallet(w) \/ RollbackWalletCredit(w)
  BY <1>1 DEF Handle, ApplyCheckoutCompleted, BeginReversal, RefuseEvent,
     CommitReversal, StopRenewal, CreditRead, CreditInsertPurchase,
     ReconcileCoinReversal, FinishProcessed, FinishFailed
<1>2. CASE UNCHANGED vars
  BY <1>2 DEF vars
<1> QED
  BY <1>1, <1>2 DEF Next, Emit, AcknowledgeDuplicate, Begin,
     StatementFails, Crash, SendGift, ReverseGift, ReviewFrozenWallet

\* A step of the handlers is a step of CoinPromise, or leaves it alone.
LEMMA PromiseStep ==
  ASSUME ReversalInv, CreditOK, [Next]_vars
  PROVE  [Promise!Next]_<<added, stray, reversed>>
<1> USE DEF ReversalInv
<1>1. CASE UNCHANGED <<added, stray, reversed>>
  BY <1>1
<1>2. CASE \E w \in Worker : CreditUpdateWallet(w) \/ RollbackWalletCredit(w)
  BY <1>2, CreditKeepsPromise
<1>3. CASE /\ UNCHANGED <<added, stray>>
           /\ \E c \in Checkout : \E n \in 1..(Credited(c) - reversed[c]) :
                reversed' = [reversed EXCEPT ![c] = @ + n]
  <2>1. PICK c \in Checkout : \E n \in 1..(Credited(c) - reversed[c]) :
                reversed' = [reversed EXCEPT ![c] = @ + n]
    BY <1>3
  <2>2. PICK n \in 1..(Credited(c) - reversed[c]) :
                reversed' = [reversed EXCEPT ![c] = @ + n]
    BY <2>1
  <2>3. reversed[c] \in Nat /\ Coins[c] \in Nat
    BY CoinsAssumption DEF Inv, TypeOK
  <2>4. c \in purchased
    BY <2>2, <2>3 DEF Credited
  <2>5. Credited(c) = Promise!Kept(c)
    BY <2>4 DEF Credited, CreditOK, Net, Promise!Kept
  <2>6. n \in 1..(Promise!Kept(c) - reversed[c])
    BY <2>2, <2>5
  <2> QED BY <1>3, <2>2, <2>6 DEF Promise!Next, Promise!Take
<1> QED BY <1>1, <1>2, <1>3, AddedSteps, ReversedSteps

\* CoinPurchases implements CoinPromise whatever fails: the coins of a
\* checkout count once and in one piece, a credit that fails is withdrawn only
\* while nothing was claimed of it, and claims never exceed what counts.
THEOREM Refinement == Spec => PromiseKept
<1>1. Init => Promise!Init
  BY DEF Init, Promise!Init
<1>2. ReversalInv /\ CreditOK /\ [Next]_vars
        => [Promise!Next]_<<added, stray, reversed>>
  BY PromiseStep
<1> QED
  BY <1>1, <1>2, CreditHolds, ReversalInvHolds, PTL
     DEF Spec, PromiseKept, Promise!Spec
=============================================================================
