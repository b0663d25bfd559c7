---------------------------- MODULE CoinPurchases ----------------------------
(***************************************************************************)
(* How a coin purchase of one member becomes coins in the wallet, and how  *)
(* a refund or a lost dispute takes them back.                             *)
(*                                                                         *)
(* The payment provider delivers signed events at least once and in any    *)
(* order.  Every delivery runs processWebhook in some HTTP handler (a      *)
(* Worker): the event is recorded, applied in one serializable             *)
(* transaction, and a completed checkout is then credited to the wallet by *)
(* four separate statements that are NOT one transaction (read the wallet, *)
(* compare-and-set its balance, insert the purchase row, or undo the       *)
(* compare-and-set), followed by a reconciling transaction.  The member's  *)
(* gift sends, an operator's gift reversals and wallet reviews change the  *)
(* same wallet row in between.                                             *)
(*                                                                         *)
(* One member is modelled: events, payments and wallets of different       *)
(* members share no row.                                                   *)
(***************************************************************************)
EXTENDS Integers, FiniteSets, FiniteSetsExt

CONSTANTS
    Checkout,   \* the member's coin checkouts
    Coins,      \* Coins[c]: coins checkout c buys
    Amount,     \* Amount[c]: what checkout c charges, in minor units
    Event,      \* provider events that may be emitted in this instance
    NoEvent,    \* "the handler has no event"
    Worker,     \* HTTP handlers, on any instance, that run processWebhook
    Gift,       \* paid gift sends (match, sender, idempotency key)
    Price,      \* coins one gift costs
    Faults,     \* the kinds of failure this instance exercises
    MaxFaults   \* bound on how many failures happen in a behaviour

Kind      == {"paid", "refund", "disputeOpened", "disputeLost", "disputeWon"}
FaultKind == {"statement", "renewal", "insert", "finish", "crash", "overlap"}

ASSUME CoinsAssumption  == Coins \in [Checkout -> Nat \ {0}]
ASSUME AmountAssumption == Amount \in [Checkout -> Nat \ {0}]
ASSUME PriceAssumption  == Price \in Nat \ {0}
ASSUME EventAssumption  ==
    /\ Event \subseteq [kind : Kind, checkout : Checkout, minor : Nat]
    /\ NoEvent \notin Event
    \* a checkout session completes once: one event id per checkout
    /\ \A e, f \in Event :
         e.kind = "paid" /\ f.kind = "paid" /\ e.checkout = f.checkout => e = f
ASSUME FaultAssumption  == Faults \subseteq FaultKind /\ MaxFaults \in Nat
\* a member has finitely many rows of each kind
ASSUME FiniteAssumption == IsFiniteSet(Checkout) /\ IsFiniteSet(Gift)

VARIABLES
    emitted,    \* events the provider has created and (re)delivers
    acked,      \* events some delivery of which was answered 200
    evStatus,   \* billing_webhook_events.status, "none" before the row exists
    payment,    \* billing_payments_runtime: status and refunded minor units
    balance,    \* user_wallets.coin_balance
    debt,       \* user_wallets.debt_coins
    frozen,     \* user_wallets.frozen_at IS NOT NULL
    purchased,  \* checkouts with a row in wallet_coin_purchases
    reversed,   \* per checkout, SUM(coins_requested) of its reversal debits
    debits,     \* SUM(coins_debited) over wallet_coin_debits
    debitKeys,  \* provider_event_id of the reversal debits
    gifts,      \* match_gift_sends.status, "none" before the row exists
    pc,         \* where each handler is in processWebhook
    task,       \* the event it processes
    seen,       \* the balance its creditWalletCoins read
    snap,       \* the credited coins its applyEvent snapshot holds
    stale,      \* the wallet row changed after that snapshot
    added,      \* history: net coins the credit path put in per checkout
    stray,      \* history: those that failed credits left, less those undone
                \* although their purchase row had landed
    lapsed,     \* history: checkouts one of whose reversals slipped by
    writtenOff, \* history: debt forgiven by operator reviews
    faults      \* failures so far, bounded by MaxFaults

provider == <<emitted, acked>>
wallet   == <<balance, debt, frozen>>
ledger   == <<purchased, reversed, debits, debitKeys, gifts>>
local    == <<seen, snap, stale>>
history  == <<added, stray, lapsed, writtenOff>>
vars     == <<provider, evStatus, payment, wallet, ledger, pc, task, local,
              history, faults>>

PayStatus == {"none", "success", "partially_refunded", "refunded",
              "disputed", "chargeback"}
Phase     == {"idle", "apply", "commit", "renew", "read", "cas", "insert",
              "rollback", "reconcile", "finish", "fail"}
LateKey   == [late : Checkout]   \* "late-credit:<checkout>"

\* Mutant: the reconciliation does not look for chargebacks.
ReversalsButChargeback == {"refunded", "partially_refunded"}

\* The payment states the reconciliation of a credit looks for.
Reversals == {"refunded", "partially_refunded", "chargeback"}

MinOf(a, b) == IF a <= b THEN a ELSE b
Chk(w)      == task[w].checkout
Credited(c) == IF c \in purchased THEN Coins[c] ELSE 0

\* math.Round(credited * refundedMinor / amount), all of them non-negative.
ProRata(c, credited, minor) ==
    (2 * credited * minor + Amount[c]) \div (2 * Amount[c])

\* Mutant: takes back what the checkout sold, credited or not.
TargetOfCheckout(c, p, credited) ==
    CASE p.status \in {"refunded", "chargeback"} -> Coins[c]
      [] p.status = "partially_refunded"         -> ProRata(c, credited, p.refunded)
      [] OTHER                                   -> 0

\* Coins owed back for payment p of checkout c when `credited` are visible.
Target(c, p, credited) ==
    CASE p.status \in {"refunded", "chargeback"} -> credited
      [] p.status = "partially_refunded"         ->
            MinOf(credited, ProRata(c, credited, p.refunded))
      [] OTHER                                   -> 0

\* Mutant: does not subtract what was reversed already.
OwedInFull(c, p, credited) == Target(c, p, credited)

Owed(c, p, credited) == Target(c, p, credited) - reversed[c]

-----------------------------------------------------------------------------

Init ==
    /\ emitted = {} /\ acked = {}
    /\ evStatus = [e \in Event |-> "none"]
    /\ payment = [c \in Checkout |-> [status |-> "none", refunded |-> 0]]
    /\ balance = 0 /\ debt = 0 /\ frozen = FALSE
    /\ purchased = {}
    /\ reversed = [c \in Checkout |-> 0]
    /\ debits = 0 /\ debitKeys = {}
    /\ gifts = [g \in Gift |-> "none"]
    /\ pc = [w \in Worker |-> "idle"]
    /\ task = [w \in Worker |-> NoEvent]
    /\ seen = [w \in Worker |-> 0]
    /\ snap = [w \in Worker |-> 0]
    /\ stale = [w \in Worker |-> FALSE]
    /\ added = [c \in Checkout |-> 0]
    /\ stray = [c \in Checkout |-> 0]
    /\ lapsed = {}
    /\ writtenOff = 0
    /\ faults = 0

Goto(w, p) == pc' = [pc EXCEPT ![w] = p]

\* The handler returns; what it had read is gone.
Release(w) ==
    /\ Goto(w, "idle")
    /\ task'  = [task EXCEPT ![w] = NoEvent]
    /\ seen'  = [seen EXCEPT ![w] = 0]
    /\ snap'  = [snap EXCEPT ![w] = 0]
    /\ stale' = [stale EXCEPT ![w] = FALSE]

\* A committed write to the wallet row dooms every serializable transaction
\* whose snapshot is older, should it lock that row.
TouchWallet == stale' = [v \in Worker |-> stale[v] \/ pc[v] = "commit"]

Fault(k) ==
    /\ k \in Faults /\ faults < MaxFaults
    /\ faults' = faults + 1

-----------------------------------------------------------------------------
(* The payment provider.                                                   *)

EmittedFor(c, kinds) == {e \in emitted : e.checkout = c /\ e.kind \in kinds}

Emittable(e) ==
    /\ e.kind # "paid" => EmittedFor(e.checkout, {"paid"}) # {}
    /\ e.kind = "refund" =>
         /\ \A f \in EmittedFor(e.checkout, {"refund"}) : f.minor < e.minor
         /\ EmittedFor(e.checkout, {"disputeLost"}) = {}
    /\ e.kind = "disputeOpened" =>
         EmittedFor(e.checkout, {"disputeLost", "disputeWon"}) = {}
    /\ e.kind \in {"disputeLost", "disputeWon"} =>
         /\ EmittedFor(e.checkout, {"disputeOpened"}) # {}
         /\ EmittedFor(e.checkout, {"disputeLost", "disputeWon"}) = {}

Emit(e) ==
    /\ e \in Event \ emitted
    /\ Emittable(e)
    /\ emitted' = emitted \cup {e}
    /\ UNCHANGED <<acked, evStatus, payment, wallet, ledger, pc, task, local,
                   history, faults>>

-----------------------------------------------------------------------------
(* The webhook ledger.                                                     *)

\* Mutant: a recorded event is taken although its handler still runs.
OpensUnlessProcessed(e) == evStatus[e] # "processed"

\* Mutant: a failed event is not reopened.
OpensOnce(e) == evStatus[e] = "none"

\* INSERT ... ON CONFLICT DO NOTHING, then UPDATE ... WHERE status='failed'.
Opens(e) == evStatus[e] \in {"none", "failed"}

\* beginWebhookEvent inserts the row, or retryFailedWebhookEvent reopens it.
Begin(w, e) ==
    /\ pc[w] = "idle"
    /\ e \in emitted
    /\ Opens(e)
    /\ evStatus' = [evStatus EXCEPT ![e] = "received"]
    /\ task' = [task EXCEPT ![w] = e]
    /\ Goto(w, "apply")
    /\ UNCHANGED <<provider, payment, wallet, ledger, local, history, faults>>

Held(e) == \E w \in Worker : task[w] = e

\* A delivery of an event whose row exists and is not failed is answered 200.
\* The provider sends one while an earlier delivery still runs only after it
\* gave up waiting for it ("overlap").
AcknowledgeDuplicate(e) ==
    /\ e \in emitted \ acked
    /\ evStatus[e] \in {"received", "processed"}
    /\ IF Held(e) THEN Fault("overlap") ELSE UNCHANGED faults
    /\ acked' = acked \cup {e}
    /\ UNCHANGED <<emitted, evStatus, payment, wallet, ledger, pc, task,
                   local, history>>

\* finishWebhookEvent(..., "processed") and the 200 answer; its error is
\* ignored by the handler, so the row may stay "received".
FinishProcessed(w) ==
    /\ pc[w] = "finish"
    /\ \/ /\ evStatus' = [evStatus EXCEPT ![task[w]] = "processed"]
          /\ UNCHANGED faults
       \/ Fault("finish") /\ UNCHANGED evStatus
    /\ acked' = acked \cup {task[w]}
    /\ Release(w)
    /\ UNCHANGED <<emitted, payment, wallet, ledger, history>>

\* Mutant: a failed attempt is recorded as processed.
FinishFailedAsProcessed(w) ==
    /\ pc[w] = "fail"
    /\ evStatus' = [evStatus EXCEPT ![task[w]] = "processed"]
    /\ Release(w)
    /\ UNCHANGED <<provider, payment, wallet, ledger, history, faults>>

\* finishWebhookEvent(..., "failed") and the 500 answer; same ignored error.
FinishFailed(w) ==
    /\ pc[w] = "fail"
    /\ \/ /\ evStatus' = [evStatus EXCEPT ![task[w]] = "failed"]
          /\ UNCHANGED faults
       \/ Fault("finish") /\ UNCHANGED evStatus
    /\ Release(w)
    /\ UNCHANGED <<provider, payment, wallet, ledger, history>>

\* The process dies between two statements; an open transaction rolls back.
Crash(w) ==
    /\ pc[w] # "idle"
    /\ Fault("crash")
    /\ Release(w)
    /\ UNCHANGED <<provider, evStatus, payment, wallet, ledger, history>>

-----------------------------------------------------------------------------
(* applyEvent: one serializable transaction per event.                     *)

\* The payment row another open transaction has updated is locked.
PaymentLocked(c, w) ==
    \E v \in Worker \ {w} : pc[v] = "commit" /\ Chk(v) = c

\* checkout.session.completed: recordCoinCheckoutPayment.  A payment row that
\* exists keeps its status.
ApplyCheckoutCompleted(w) ==
    /\ pc[w] = "apply" /\ task[w].kind = "paid"
    /\ ~PaymentLocked(Chk(w), w)
    /\ payment' = [payment EXCEPT ![Chk(w)] =
                     IF @.status = "none" THEN [@ EXCEPT !.status = "success"]
                                          ELSE @]
    /\ Goto(w, "read")
    /\ UNCHANGED <<provider, evStatus, wallet, ledger, task, local, history,
                   faults>>

\* Does the UPDATE of billing_payments_runtime match a row?
Applies(e) ==
    /\ payment[e.checkout].status # "none"
    /\ e.kind = "refund" => payment[e.checkout].status # "chargeback"

\* The first statement of a refund or dispute transaction: it takes the
\* snapshot every later read uses, and locks the payment row.
BeginReversal(w) ==
    /\ pc[w] = "apply" /\ task[w].kind # "paid"
    /\ Applies(task[w])
    /\ ~PaymentLocked(Chk(w), w)
    /\ snap' = [snap EXCEPT ![w] = Credited(Chk(w))]
    /\ Goto(w, "commit")
    /\ UNCHANGED <<provider, evStatus, payment, wallet, ledger, task, seen,
                   stale, history, faults>>

\* "refund for unknown charge", or a serialization failure behind a row lock
\* whose holder commits.
RefuseEvent(w) ==
    /\ pc[w] = "apply"
    /\ \/ task[w].kind # "paid" /\ ~Applies(task[w])
       \/ PaymentLocked(Chk(w), w)
    /\ Goto(w, "fail")
    /\ UNCHANGED <<provider, evStatus, payment, wallet, ledger, task, local,
                   history, faults>>

PaymentAfter(e) ==
    LET p    == payment[e.checkout]
        kept == p.status \in {"refunded", "partially_refunded"}
    IN  CASE e.kind = "refund" ->
               [status   |-> IF e.minor >= Amount[e.checkout]
                             THEN "refunded" ELSE "partially_refunded",
                refunded |-> MinOf(Amount[e.checkout],
                                   IF e.minor > p.refunded THEN e.minor
                                                           ELSE p.refunded)]
          [] e.kind = "disputeLost"   -> [p EXCEPT !.status = "chargeback"]
          [] e.kind = "disputeOpened" ->
               [p EXCEPT !.status = IF kept THEN @ ELSE "disputed"]
          [] OTHER ->
               [p EXCEPT !.status = IF kept THEN @ ELSE "success"]

\* Mutant: the debit is not limited to the balance.
DebitInFull(delta) == delta

Debit(delta) == MinOf(delta, balance)

\* Mutant: what the balance does not cover is forgotten.
ShortfallForgotten(delta) == 0

Shortfall(delta) == delta - Debit(delta)

\* Mutant: only a wallet without coins is frozen.
FreezesEmpty(delta) == balance = 0

Freezes(delta) == Shortfall(delta) > 0

\* reverseCoinPurchaseTx: debit what the balance covers, owe the rest, freeze.
\* The debit row is inserted ON CONFLICT DO NOTHING on its event key.
TakeBack(c, delta, key) ==
    LET lands == key \notin debitKeys
    IN  IF delta <= 0
        THEN UNCHANGED <<balance, debt, frozen, reversed, debits, debitKeys>>
        ELSE /\ balance' = balance - Debit(delta)
             /\ debt' = debt + Shortfall(delta)
             /\ frozen' = (frozen \/ Freezes(delta))
             /\ reversed' = [reversed EXCEPT ![c] =
                               IF lands THEN @ + delta ELSE @]
             /\ debits' = IF lands THEN debits + Debit(delta) ELSE debits
             /\ debitKeys' = debitKeys \cup {key}

Delta(e, credited) ==
    IF e.kind \in {"refund", "disputeLost"}
    THEN Owed(e.checkout, PaymentAfter(e), credited)
    ELSE 0

\* The checkout has still to be reconciled: by the handler of its payment, or
\* by the redelivery of a failed one (or never, if that handler died).
CreditPending(c) ==
    \E e \in Event :
      /\ e.kind = "paid" /\ e.checkout = c
      /\ \/ evStatus[e] = "failed"
         \/ /\ evStatus[e] = "received"
            /\ \A w \in Worker : task[w] = e => pc[w] # "finish"

\* Two reversals that leave coins behind: a snapshot from before the purchase
\* row, committed after the reconciliation looked; and a dispute opened that
\* is applied after the same dispute was lost, and overwrites the chargeback.
SlipsBy(w) ==
    LET c == Chk(w)
    IN  \/ /\ task[w].kind \in {"refund", "disputeLost"}
           /\ snap[w] # Credited(c)
           /\ ~CreditPending(c)
        \/ /\ task[w].kind = "disputeOpened"
           /\ payment[c].status = "chargeback"

\* The rest of the transaction: it locks the wallet row only when it has
\* coins to take, and then a newer version of the row is a serialization
\* failure.
CommitReversal(w) ==
    LET e     == task[w]
        delta == Delta(e, snap[w])
    IN  /\ pc[w] = "commit"
        /\ \/ /\ delta > 0 /\ stale[w]
              /\ Goto(w, "fail")
              /\ UNCHANGED <<payment, wallet, ledger, stale, lapsed>>
           \/ /\ delta <= 0 \/ ~stale[w]
              /\ payment' = [payment EXCEPT ![e.checkout] = PaymentAfter(e)]
              /\ TakeBack(e.checkout, delta, e)
              /\ IF delta > 0 THEN TouchWallet ELSE UNCHANGED stale
              /\ Goto(w, IF e.kind = "disputeLost" THEN "renew" ELSE "finish")
              /\ lapsed' = IF SlipsBy(w) THEN lapsed \cup {e.checkout} ELSE lapsed
              /\ UNCHANGED <<purchased, gifts>>
        /\ UNCHANGED <<provider, evStatus, task, seen, snap, added, stray,
                       writtenOff, faults>>

\* A database statement of applyEvent, creditWalletCoins or the reconciliation
\* fails without effect (an open transaction rolls back) and ends the attempt;
\* CreditInsertPurchase and RollbackWalletCredit have failures of their own.
StatementFails(w) ==
    /\ pc[w] \in {"apply", "commit", "read", "cas", "reconcile"}
    /\ Fault("statement")
    /\ Goto(w, "fail")
    /\ UNCHANGED <<provider, evStatus, payment, wallet, ledger, task, local,
                   history>>

\* stopRenewalAfterChargeback: a coin payment has no subscription to stop,
\* but looking for one can fail.
StopRenewal(w) ==
    /\ pc[w] = "renew"
    /\ \/ Goto(w, "finish") /\ UNCHANGED faults
       \/ Fault("renewal") /\ Goto(w, "fail")
    /\ UNCHANGED <<provider, evStatus, payment, wallet, ledger, task, local,
                   history>>

-----------------------------------------------------------------------------
(* settleCoinCheckout: creditWalletCoins, then reconcile.                  *)

\* Mutant: no look-up of an earlier purchase row.
CreditedNever(c) == FALSE

\* findWalletCoinPurchaseByIdempotency.
CreditedAlready(c) == c \in purchased

\* getWallet and findWalletCoinPurchaseByIdempotency.
CreditRead(w) ==
    /\ pc[w] = "read"
    /\ IF CreditedAlready(Chk(w))
       THEN Goto(w, "reconcile") /\ UNCHANGED seen
       ELSE Goto(w, "cas") /\ seen' = [seen EXCEPT ![w] = balance]
    /\ UNCHANGED <<provider, evStatus, payment, wallet, ledger, task, snap,
                   stale, history, faults>>

\* Mutant: the balance read earlier is not compared.
MatchesAny(expected) == TRUE

\* The filter coin_balance=eq.<expected> of a wallet update.
Matches(expected) == balance = expected

\* The coins of a failed credit stay in the wallet, and no purchase row has them.
LeavesBehind(w) ==
    stray' = IF Chk(w) \in purchased THEN stray
             ELSE [stray EXCEPT ![Chk(w)] = @ + Coins[Chk(w)]]

\* UPDATE user_wallets ... WHERE coin_balance = <the balance read>.  When its
\* answer is lost the attempt ends, and nothing undoes it.
CreditUpdateWallet(w) ==
    LET c == Chk(w)
    IN  /\ pc[w] = "cas"
        /\ \/ /\ ~Matches(seen[w])
              /\ Goto(w, "fail")
              /\ UNCHANGED <<balance, added, stray, stale, faults>>
           \/ /\ Matches(seen[w])
              /\ balance' = seen[w] + Coins[c]
              /\ added' = [added EXCEPT ![c] = @ + Coins[c]]
              /\ TouchWallet
              /\ \/ Goto(w, "insert") /\ UNCHANGED <<stray, faults>>
                 \/ Fault("insert") /\ LeavesBehind(w) /\ Goto(w, "fail")
        /\ UNCHANGED <<provider, evStatus, payment, debt, frozen, ledger,
                       task, seen, snap, lapsed, writtenOff>>

\* INSERT INTO wallet_coin_purchases, unique on (user, "checkout:" || id).
\* An error sends the handler to the compensation even when the row landed.
CreditInsertPurchase(w) ==
    LET c == Chk(w)
    IN  /\ pc[w] = "insert"
        /\ \/ /\ c \notin purchased
              /\ purchased' = purchased \cup {c}
              /\ Goto(w, "reconcile")
              /\ UNCHANGED faults
           \/ /\ c \in purchased
              /\ Goto(w, "rollback")
              /\ UNCHANGED <<purchased, faults>>
           \/ /\ Fault("insert")
              /\ purchased' \in {purchased, purchased \cup {c}}
              /\ Goto(w, "rollback")
        /\ UNCHANGED <<provider, evStatus, payment, wallet, reversed, debits,
                       debitKeys, gifts, task, local, history>>

\* rollbackWalletCredit: undo, whether or not the row landed.  The balance may
\* have moved meanwhile, and the update may fail like the insert before it:
\* then the coins stay.
RollbackWalletCredit(w) ==
    LET c == Chk(w)
    IN  /\ pc[w] = "rollback"
        /\ \/ /\ Matches(seen[w] + Coins[c])
              /\ balance' = seen[w]
              /\ added' = [added EXCEPT ![c] = @ - Coins[c]]
              /\ stray' = IF c \in purchased
                          THEN [stray EXCEPT ![c] = @ - Coins[c]] ELSE stray
              /\ TouchWallet
           \/ LeavesBehind(w) /\ UNCHANGED <<balance, added, stale>>
        /\ Goto(w, "fail")
        /\ UNCHANGED <<provider, evStatus, payment, debt, frozen, ledger,
                       task, seen, snap, lapsed, writtenOff, faults>>

\* reconcileCoinReversalForCheckout: a READ COMMITTED transaction that looks
\* for a committed reversal of the payment and, finding one, locks the row
\* (waiting for its holder) and takes back what is owed.
ReconcileCoinReversal(w) ==
    LET c == Chk(w)
        p == payment[c]
        found == p.status \in Reversals
        delta == Owed(c, p, Credited(c))
    IN  /\ pc[w] = "reconcile"
        /\ \/ ~found /\ UNCHANGED <<balance, debt, frozen, reversed, debits,
                                    debitKeys, stale>>
           \/ /\ found /\ ~PaymentLocked(c, w)
              /\ TakeBack(c, delta, [late |-> c])
              /\ IF delta > 0 THEN TouchWallet ELSE UNCHANGED stale
        /\ Goto(w, "finish")
        /\ UNCHANGED <<provider, evStatus, payment, purchased, gifts, task,
                       seen, snap, history, faults>>

-----------------------------------------------------------------------------
(* The other writers of the wallet row, each one transaction under its     *)
(* lock.                                                                   *)

\* giftSendLedger.send of a paid gift.
SendGift(g) ==
    /\ gifts[g] = "none"
    /\ ~frozen
    /\ balance >= Price
    /\ balance' = balance - Price
    /\ gifts' = [gifts EXCEPT ![g] = "sent"]
    /\ TouchWallet
    /\ UNCHANGED <<provider, evStatus, payment, debt, frozen, purchased,
                   reversed, debits, debitKeys, pc, task, seen, snap, history,
                   faults>>

\* giftSendLedger.reverse.
ReverseGift(g) ==
    /\ gifts[g] = "sent"
    /\ balance' = balance + Price
    /\ gifts' = [gifts EXCEPT ![g] = "refunded"]
    /\ TouchWallet
    /\ UNCHANGED <<provider, evStatus, payment, debt, frozen, purchased,
                   reversed, debits, debitKeys, pc, task, seen, snap, history,
                   faults>>

\* reviewFrozenWallet: collect_and_unfreeze is refused while debt would
\* remain, write_off_and_unfreeze forgives it.
ReviewFrozenWallet(writeOff) ==
    LET collect == MinOf(debt, balance)
    IN  /\ frozen
        /\ writeOff \/ debt <= balance
        /\ balance' = balance - collect
        /\ debits' = debits + collect
        /\ writtenOff' = writtenOff + (debt - collect)
        /\ debt' = 0 /\ frozen' = FALSE
        /\ TouchWallet
        /\ UNCHANGED <<provider, evStatus, payment, purchased, reversed,
                       debitKeys, gifts, pc, task, seen, snap, added, stray,
                       lapsed, faults>>

-----------------------------------------------------------------------------

Handle(w) ==
    \/ ApplyCheckoutCompleted(w)
    \/ BeginReversal(w)
    \/ RefuseEvent(w)
    \/ CommitReversal(w)
    \/ StopRenewal(w)
    \/ CreditRead(w)
    \/ CreditUpdateWallet(w)
    \/ CreditInsertPurchase(w)
    \/ RollbackWalletCredit(w)
    \/ ReconcileCoinReversal(w)
    \/ FinishProcessed(w)
    \/ FinishFailed(w)

Next ==
    \/ \E e \in Event : Emit(e)
    \/ \E e \in Event : AcknowledgeDuplicate(e)
    \/ \E w \in Worker, e \in Event : Begin(w, e)
    \/ \E w \in Worker : Handle(w)
    \/ \E w \in Worker : StatementFails(w)
    \/ \E w \in Worker : Crash(w)
    \/ \E g \in Gift : SendGift(g)
    \/ \E g \in Gift : ReverseGift(g)
    \/ \E writeOff \in BOOLEAN : ReviewFrozenWallet(writeOff)

Spec == Init /\ [][Next]_vars

\* A handler that runs keeps running, and the provider redelivers an event
\* until a delivery is answered 200.
Redeliver(e) == e \notin acked /\ \E w \in Worker : Begin(w, e)

FairSpec ==
    /\ Spec
    /\ \A w \in Worker : WF_vars(Handle(w))
    /\ \A e \in Event : SF_vars(Redeliver(e))

-----------------------------------------------------------------------------
(* Properties.                                                             *)

TypeOK ==
    /\ emitted \subseteq Event /\ acked \subseteq Event
    /\ evStatus \in [Event -> {"none", "received", "processed", "failed"}]
    /\ payment \in [Checkout -> [status : PayStatus, refunded : Nat]]
    /\ balance \in Nat /\ debt \in Nat /\ frozen \in BOOLEAN
    /\ purchased \subseteq Checkout
    /\ reversed \in [Checkout -> Nat]
    /\ debits \in Nat
    /\ debitKeys \subseteq Event \cup LateKey
    /\ gifts \in [Gift -> {"none", "sent", "refunded"}]
    /\ pc \in [Worker -> Phase]
    /\ task \in [Worker -> Event \cup {NoEvent}]
    /\ seen \in [Worker -> Nat]
    /\ snap \in [Worker -> Nat]
    /\ stale \in [Worker -> BOOLEAN]
    /\ added \in [Checkout -> Int]
    /\ stray \in [Checkout -> Int]
    /\ lapsed \subseteq Checkout
    /\ writtenOff \in Nat
    /\ faults \in Nat

\* The webhook ledger is a mutex: redelivered, duplicated and retried
\* deliveries never have two handlers process one event at the same time, and
\* an event in a handler's hands is recorded as received (beginWebhookEvent
\* and retryFailedWebhookEvent against finishWebhookEvent).
OneHandlerPerEvent ==
    /\ \A w \in Worker : task[w] # NoEvent => evStatus[task[w]] = "received"
    /\ \A v, w \in Worker : task[v] = task[w] /\ task[v] # NoEvent => v = w

\* settleCoinCheckout "is idempotent on the checkout id, so a retried webhook
\* cannot credit twice": over any sequence of deliveries, conflicts, failed
\* statements and compensations a checkout's coins are in the wallet at most
\* once, but for those that failed credits left there (a compensation that
\* lost its compare-and-set or failed itself, an update whose answer was
\* lost), and each failure leaves one credit at most.
CreditedAtMostOnce ==
    \A c \in Checkout :
        /\ added[c] <= Coins[c] + stray[c]
        /\ stray[c] <= Coins[c] * faults

\* The clawback of a payment, computed from a snapshot in one transaction and
\* from current rows in another, never takes more than was credited.
ReversedWithinCredited == \A c \in Checkout : reversed[c] <= Credited(c)

\* Migration 084: balances never go negative and debt always comes with a
\* freeze, whichever of the wallet's writers interleave.
WalletConstraints == balance >= 0 /\ debt >= 0 /\ (debt > 0 => frozen)

\* coinLiability: credits (purchases, gift refunds) minus gift spends minus
\* coin debits.
LedgerBalance ==
    MapThenSumSet(LAMBDA c : Coins[c], purchased)
    - Price * Cardinality({g \in Gift : gifts[g] = "sent"})
    - debits

\* What the credits of a checkout that did not fail put in the wallet.
Net(c) == added[c] - stray[c]

\* Checkouts whose coins are in the wallet while their purchase row is not:
\* a handler is about to insert it, or died before it could.
Unrecorded == {c \in Checkout \ purchased : Net(c) # 0}

\* "balance must equal credits minus gift spends minus debits" (coinLiability):
\* the balance is what the ledger explains, but for the coins of failed
\* credits, and of checkouts whose row is still missing; such a checkout's
\* event is still recorded as received.  No writer of the wallet loses
\* another's update.
WalletExplained ==
    /\ balance = LedgerBalance + MapThenSumSet(LAMBDA c : Coins[c], Unrecorded)
                   + MapThenSumSet(LAMBDA c : stray[c], Checkout)
    /\ \A c \in Unrecorded :
         \E e \in Event : e.checkout = c /\ evStatus[e] = "received"

\* Every coin a reversal asked for was debited, is owed, or was forgiven by
\* an operator (debits also count collected debt).
DebtAccounted ==
    MapThenSumSet(LAMBDA c : reversed[c], Checkout)
        = debits + debt + writtenOff

\* The checkout's coins, as the wallet and the reversal debits see them, keep
\* CoinPromise: one grant, which is withdrawn only before anything was claimed
\* of it, and claims that never exceed it.
Promise == INSTANCE CoinPromise WITH granted <- added, strayed <- stray, taken <- reversed
PromiseKept == Promise!Spec

\* The coins the provider's event takes back.
OwesBy(e) ==
    LET c == e.checkout
    IN  CASE e.kind = "disputeLost" -> Credited(c)
          [] e.kind = "refund"      ->
               MinOf(Credited(c), ProRata(c, Credited(c), MinOf(e.minor, Amount[c])))
          [] OTHER                  -> 0

\* The payment's own event is in a handler's hands, waits for a retry, or was
\* left behind by a handler that died.
Unsettled(c) ==
    \E e \in Event : e.kind = "paid" /\ e.checkout = c
                     /\ evStatus[e] \in {"received", "failed"}

\* "the order in which the provider's events arrive cannot leave coins
\* behind": once a checkout's payment is settled, every refund and lost dispute
\* the provider was told is processed has its coins back.
NoCoinsLeftBehind ==
    \A e \in Event :
        (evStatus[e] = "processed" /\ ~Unsettled(e.checkout))
          => reversed[e.checkout] >= OwesBy(e)

\* What is true of that claim, for any order of the events and any number of
\* handlers, crashes and failed statements: coins are left behind by the two
\* reversals that slip by, and in no other way.
ReversalComplete ==
    \A e \in Event :
        (evStatus[e] = "processed" /\ ~Unsettled(e.checkout) /\ e.checkout \notin lapsed)
          => reversed[e.checkout] >= OwesBy(e)

\* "a processed or ignored event is acknowledged": a 200 tells the provider
\* the event was applied.
AcknowledgedIsProcessed == \A e \in acked : evStatus[e] = "processed"

\* A completed checkout the provider reports is credited in the end, whatever
\* conflicts with the wallet's other writers and whatever retries it takes.
PaidIsCredited ==
    \A e \in {f \in Event : f.kind = "paid"} :
        e \in emitted ~> e.checkout \in purchased

FullRefunds == {e \in Event : e.kind = "refund" /\ e.minor >= Amount[e.checkout]}

\* A full refund takes every coin back in the end, even when it is delivered
\* before the payment it reverses; a charge that is disputed as well is left out,
\* since a dispute opened that arrives late hides what the charge owes.
FullRefundTakesAllBack ==
    \A e \in FullRefunds :
        e \in emitted ~> \/ reversed[e.checkout] = Coins[e.checkout]
                         \/ EmittedFor(e.checkout, {"disputeOpened"}) # {}
=============================================================================
