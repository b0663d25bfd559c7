# Verification of the dating backend

TLA+ modules, TLC configurations and TLAPS proofs for the Go backend under
`src/backend`. The product is a Flutter application, a Go backend-for-frontend
(`src/backend/internal/bff/mobile`), a few gRPC services, PostgreSQL, and a
Django control panel. Nearly all protocol logic is in the backend-for-frontend
and in the statements it sends to PostgreSQL; several instances of it run
against one database, so every handler and worker below may run on any
instance, at the same time as every other.

Tools: `tlc -config X.cfg MCM.tla` checks a run, `tlapm M.tla` a proof module.
`PROJECT.json` lists the runs, the code each definition stands for, the
mutants, the hazards, the findings and the theorems.

## Inventory

| Part | State | Operations | What is hard |
|---|---|---|---|
| Coin purchases (`billing_checkout.go`, `billing_repository_postgres.go`, `billing_wallet_integrity.go`) | `billing_webhook_events`, `billing_payments_runtime`, `wallet_coin_debits` | webhook deliveries, refunds, disputes, clawback, reconciliation, operator review | deliveries at least once and in any order; a credit made of four separate statements after the transaction; crashes between them; old snapshots |
| Wallet and gifts (`gifts_repository.go`, `gift_send_ledger.go`) | `user_wallets`, `wallet_coin_purchases`, `match_gift_sends` | credit, send, reverse | compare-and-set against row locks; compensation |
| Subscriptions (`billing_repository_postgres.go`, `billing_entitlements.go`) | `billing_subscriptions_runtime` | subscription and invoice events, supersede, expiry, chargeback end | event order per subscription, one live subscription |
| Request idempotency (`idempotency_postgres.go`, `server_resilience.go`) | `idempotency_records`, in-memory entries | claim, replay, finish, expire | owners that die or stall, leases, two different stores |
| XP awards (`level_progression.go`, `progression_award_durability.go`) | `xp_ledger`, `xp_award_repair_queue`, spool file | award, write-ahead, repair, replay of the spool | crashes, an unreachable database, torn files, leases |
| Notification delivery (`notification_worker.go`, `notification_repository.go`) | `notification_outbox`, `user_notifications`, `notification_deliveries` | enqueue, claim, recover, in-app, push, finish, withdraw | recovery at start only, a finish without a fence, consent withdrawn meanwhile |
| Realtime streams (`realtime_wake_hub.go`, `server_chat_realtime.go`, `chat_realtime_repository.go`, `replay_recovery.go`) | `realtime_outbox`, cursors of socket and device, hub high-water mark, checkpoints | append, scan, wake, poll, write, resume, prune, recover | sequences allocated before commit, cursors, missed wakes |
| Matching and unlock (`services/matching/service.go`, `quest_repository.go`) | swipes, matches, quest workflows | swipe, unmatch, submit and review quests | two swipes at once, rematch, states that must agree |
| Emergency delivery (`sos_delivery.go`, `safety_repository_postgres.go`) | `sos_alerts`, `sos_delivery_outbox` | trigger, claim, send, finish, take over, resolve, erase | a batch that outlives its lease, a provider that is not heard |
| Date plans (`date_plans.go`, `date_plan_collaboration.go`, `date_plan_sharing.go`, scripts 091, 092, 099) | `match_date_plans`, participants, debriefs, shares | propose, counter, decide, cancel, check in, debrief, sweep, share | devices that answer what they read before, a sweep older than its locks, consent that changes while notifications are in flight |
| Account erasure (`account_erasure.go`, `account_erasure_worker.go`) | erasure requests, storage releases | schedule, cancel, erase, release objects | a worker days later, failing object storage |

The remaining parts (graduation, safety and trust, support, groups and
rooms, content, profiles and media, HTTP edge, platform, reporting, clients) are
listed in `PROJECT.json` with the reason each is left out: mostly single-row
transactions, reads, or I/O.

How they interact: the payment provider calls the webhook handler, which writes
the billing tables and then the wallet through the gift repository; gift sends
and reviews write the same wallet row; product actions award XP and append to
the notification and realtime outboxes inside their own transactions; workers
on every instance drain those outboxes; all non-GET requests pass through the
idempotency middleware first.

## Modules

Each component has its module, an `MC` module with instances for TLC, and a
`Proofs` module; the sums of the wallet's books have a second one,
`CoinLedgerProofs`. `CoinPromise`, `OncePromise`, `SosPromise` and `DatePromise` are
abstract specifications, what a component promises without saying how. Definitions
whose comment begins with "Mutant" are not part of a specification: each is the
form a bug would give to the definition beside it, and `PROJECT.json` names the
property that refutes it.

### CoinPurchases

One member: their checkouts, the provider's events about them, the wallet. A
`Worker` is an HTTP handler on any instance.

| Module | Code |
|---|---|
| `Begin`, `AcknowledgeDuplicate`, `FinishProcessed`, `FinishFailed` | the event ledger in `processWebhook`: insert or reopen, answer 200 without work, record the outcome |
| `ApplyCheckoutCompleted`, `BeginReversal`, `CommitReversal`, `RefuseEvent` | `applyEvent` for a completed checkout, a refund and a dispute. A reversal has two steps because its serializable snapshot is taken at its first statement (`snap`); `CommitReversal` fails when it needs the wallet row and a newer version of it exists (`stale`) |
| `TakeBack`, `Target`, `Owed`, `Debit`, `Shortfall`, `Freezes` | `reverseCoinPurchaseTx` |
| `CreditRead`, `CreditUpdateWallet`, `CreditInsertPurchase`, `RollbackWalletCredit` | `creditWalletCoins`: four statements, no transaction. The update of the wallet may take effect although its answer is lost, the insert may fail with or without effect, the compensation may lose its compare-and-set or fail: `stray` counts the coins such failures leave |
| `ReconcileCoinReversal` | `reconcileCoinReversalForCheckout` |
| `StopRenewal` | `stopRenewalAfterChargeback` (a coin payment has no subscription to stop, but the look-up can fail) |
| `SendGift`, `ReverseGift`, `ReviewFrozenWallet` | the other writers of the wallet row, each one transaction under its lock |
| `StatementFails`, `Crash` | a failing statement; a process that dies |
| `Emit` | the provider (external): which events it creates, in which order |

`creditWalletCoins` reads the wallet and then looks the purchase up; the model
does both in one step, because only the handler that holds the checkout's event
can change the look-up's answer. Delivery is a choice, not a queue: any emitted
event may reach any idle handler at any time, again and again, which is
at-least-once delivery in any order.

Two histories name what the code lets happen, so that the properties can say
that nothing else does. `stray` holds the coins of failed credits: of an update
whose answer was lost, and of a compensation that did not take effect. `lapsed`
holds the checkouts one of whose reversals slipped by (`SlipsBy`): a refund or
lost dispute that commits from a snapshot older than the purchase row after the
reconciliation has looked, and a dispute opened that is applied after the dispute
was lost.

`CoinPromise` says, per checkout, that coins count once and in one piece, that a
purchase that fails is withdrawn only while nothing was claimed of it, and that
claims never exceed what counts; coins of failed attempts stray and are never
claimed. `CoinPurchases` refines it, with every kind of failure, with
`granted <- added, strayed <- stray, taken <- reversed`. `FiniteAssumption` (a
member has finitely many checkouts and gifts) is what the sums over them need.

### Idempotency

The requests that carry one cache key, and the one row of
`platform.idempotency_records` they compete for. A retry of a client is one more
request. Nothing is held between the statements of a claim, so each is a step.

| Module | Code |
|---|---|
| `Arrive`, `GiveUp` | `serveSharedIdempotent`: enter, and answer 408 when the request's context ends |
| `Insert`, `InsertReplyLost`, `Look`, `Verdict`, `DeleteExpired`, `Poll`, `StatementFails` | the loop of `claim`; `InsertReplyLost` is an INSERT that takes effect although its error says otherwise |
| `Execute`, `ExecuteUncached` | the handler: it commits and answers, refuses, fails before its commit, or (`ExecuteUncached`) commits and answers what the store does not keep |
| `Finish`, `Owns`, `FinishFails` | `finish`: store the response, or delete the row, where `owner_token` still matches |
| `ArchiveExpired`, `Retained` | the retention worker and `platform.archive_expired_idempotency` |
| `Crash`, `Tick` | a process that dies; the database's clock |

Time is the age of each claim; all ages grow together and stop at
`Old == TTL + MaxRun`, past which no comparison can tell them apart.

`OncePromise` has no row and no clock: one request runs at a time, a response
that counts opens a window, nobody runs while it is open, and whoever is answered
without a run is given that response, for the same payload. `Idempotency` refines
it with `Runners`, `Live` (storable responses, refusals too, whose claim is
younger than `TTL`) and `Replayed`.

### XPAwards

One member's awards, from the product action to the level. A `Call` is one run
of `awardProgressionDurably`, a `Worker` the projection engine of an instance.

| Module | Code |
|---|---|
| `WriteIntent`, `SpoolAppend`, `CheckFlag`, `DirectAward`, `CloseIntent`, `EnqueueRepair` | the statements of `awardProgressionDurably`, in order; each may fail, and a failed one may have taken effect |
| `QueueReward` | `queueReward`, inside a product transaction |
| `Grant`, `Refusable` | `awardXP`: the ledger entry with its outbox row in one transaction; the cap, cooldown and freeze rules are one choice to refuse an award that is not a duplicate |
| `Replay`, `ReplayInterrupted` | the replay of the spool file, under the file's mutex |
| `ClaimAwards`, `RepairAward`, `FinishRepair` | `runAwardRepairs` and `finishAwardRepair`; stale leases are recovered by the claim |
| `ClaimLevels`, `SumLedger`, `ProjectUser`, `Postpone` | `runBatch` and `projectUser` over `projection_outbox`. The sum and the commit are two steps: `awardXP` takes another lock and commits entries between them; other projections wait (`LevelBusy`, the advisory lock) |
| `CallDies`, `WorkerDies`, `StallPastLease`, `Outage`, `DatabaseBack` | failures |
| `RipenAward`, `RipenLevel` | `available_at` or the end of a lease is reached |

`available_at` and `locked_at` are one Boolean, `ripe`: delays differ in length,
and no property depends on which of two delays is longer. A lease ripens by
itself only when nobody holds the row; a holder that outlives its lease is the
failure `stall`. The member's level is represented by the set of ledger entries
its total was computed from.

### SosDelivery

One emergency alert: its row in `sos_alerts` and one row of
`sos_delivery_outbox` per trusted contact. Alerts share no row.

| Module | Code |
|---|---|
| `Trigger`, `Resolve` | `createSOSAlertPostgres`, `resolveSOSAlertPostgres` |
| `Erase`, `Expire`, `RunRetention` | account erasure, `expires_at`, `platform.run_trust_retention` |
| `Reclaim`, `Claim` | the two statements of `claimSOSDeliveries`, which are not one transaction |
| `StartSend`, `Send` | the loop of `processBatch` and `send`; the provider accepts and is heard, accepts without being heard, or refuses |
| `Verdict`, `Finishable`, `Finish`, `FinishFails` | `finishSOSDelivery`: guarded by `status='processing'`, not by the worker |
| `Crash`, `Tick`, `Ripen` | a process that dies with a batch; eight seconds, the time limit of a send; the end of a backoff |

The clock matters here, because the lease is compared with the length of a
batch: `Tick` may happen once per send and never between two sends, so a batch
of `n` rows lasts at most `n` ticks, and a lease of one tick is one that a batch
of two outlives, as 120 seconds are outlived by 25 sends of eight.

`SosPromise` has one fate per contact: a row is open until it is delivered, given
up or cancelled, once; delivered only to a contact who was told, given up only
after `MaxAttempts` attempts; attempts are made of open rows only, and not
without end. `SosDelivery` refines it with `Outcome`, in which waiting and in
hand are both open; leases, workers and lost answers do not show.

### Realtime

One member's chat stream, end to end: the triggers of script 054, the hub, the
loop of `streamChatEvents`, and the device's cursor in `message_provider.dart`.

| Module | Code |
|---|---|
| `Insert`, `Commit`, `Rollback`, `HoldsMatch` | the triggers; a sequence is taken at the insert and seen from the commit. Writers of one match hold its row, except read receipts |
| `Age`, `Expire`, `Prune` | the look-back in seconds, `expires_at`, the runtime retention with the trigger that advances the checkpoint |
| `Block`, `Unblock` | blocks, which hide events and change none |
| `HubPrime`, `HubTick`, `Wake` | `tick`, `signal` and the wake branch of `waitForRealtimePoll` |
| `Connect`, `Rejected`, `Disconnect` | the start of the stream, 410 `REPLAY_CURSOR_EXPIRED`, every way a connection ends |
| `Poll`, `List`, `Write`, `PollDue` | the socket's loop: `listEvents`, `writePendingChatEvents`, the fallback ticker |
| `Passes`, `Unordered` | what a read goes past: rows a block hides, and sequences that have not committed and share no lock with one that is read. The history `overtaken` collects them until a device connects with an earlier cursor |
| `Receive`, `Recover` | the device: its cursor only grows, except for the one recovery that reads a snapshot and starts from zero |

### Notifications

One member's share of one date plan, and what the notification engine makes of
it: the consent, the feed, the outbox, the workers, the inbox and the pushes. A
job is named by what it tells and whom, which is its `dedupe_key`; a worker
holds one job, a batch being several workers.

| Module | Code |
|---|---|
| `UpdateSharing`, `Withdrawn`, `Recipients`, `Allowed` | `updateSharing`, and `date_plan_trusted_recipients` and its users in script 099 |
| `BeginTelling` | the snapshot of `checkin`, `cancel` and the sweep: who is to be told, as they read it |
| `Tell`, `Told`, `Enqueued` | their commit, as far as it tells the circle: `notify_date_plan_status`, `enqueue_notification` |
| `EventOf`, `KeyReused`, `Abandon` | `publish_domain_event` of a check-in, which raises when its key was used with another number of recipients; that, a serialization failure and a death roll the whole transaction back |
| `Befriend`, `Part` | friendship, blocks and bans, as far as `date_plan_trusted_recipients` asks about them |
| `Sweep`, `Claim`, `Start` | `claim`, `recoverStale` |
| `Check`, `CreateInApp`, `Recheck`, `NextDevice`, `Send`, `Fail` | `process` |
| `Outcome`, `Finish` | `finish`: by id alone |
| `Lose`, `GrowStale` | a worker that dies or whose finish fails; two minutes, which a slow worker may outlive |

Telling has two steps because a choice may change between them. `checkin` and
`cancel` are SERIALIZABLE, with a snapshot their first `SELECT ... FOR UPDATE`
takes before it waits for the plan's row; `updateSharing` is READ COMMITTED and
locks that row without changing it, so whoever waited behind it goes on with the
contacts of before (`date_plans.go:797-803` against
`date_plan_sharing.go:63,69`). The sweep reads the contacts without that lock
(091:474-486). The history `late` holds the feed rows such a transaction adds.
The run starts with the plan accepted and told to those chosen then, the member
not checked in yet or having given every answer once.

### DatePlans

The plans of one matched pair, of which the last may be open (a unique index
allows one). Transactions lock the plan's row and are serializable, so each is
one step; the sweep locks only the rows of participants, so its scan and each of
its escalations are steps.

| Module | Code |
|---|---|
| `Propose`, `Decide`, `Cancel`, `CheckIn` | the functions of `date_plans.go` |
| `Counter` | `date_plan_collaboration.go` |
| `Debrief`, `Verdict` | `debrief` and `resolve_date_plan_from_debriefs` (script 092) |
| `Read`, `Fits` | what a device has shown its member, and the `lock_version` it sends back |
| `Expire`, `Scan`, `StillMissing`, `Escalate` | `date_plan_checkin_sweep` (script 091) |
| `Unmatch`, `Block`, `Unblock`, `Pair` | what `activeDatingPair` asks about |
| `Tick` | the window opens, is over, and is over by three hours |

`DatePromise` has the last plan of the pair and who agreed to its present terms:
new terms start over, both agree before it is accepted, only the answers of both
resolve it, alarms are late and never about a member who was there, and what is
closed stays so. `DatePlans` refines it with `Agreed`, the members whose consent
names the present terms; devices, versions and the snapshot of a sweep do not
show.

`DatePlans` and `Notifications` meet in three places: what a member's check-in, an
escalation and a cancellation tell the circle. `DatePlans` decides when they happen,
`Notifications` what becomes of them.

## Runs

Every run sets `CHECK_DEADLOCK FALSE`: once all events are delivered, requests
answered, rows settled and bounds spent, the system is quiet, which is a
legitimate end.

| Run | Shows |
|---|---|
| `coin_races` | two handlers, two checkouts, half and full refund, a gift, reviews, one failure of any kind but a look-up of a subscription, a failed credit among them: types, mutual exclusion per event, credit at most once but for what a failed credit leaves, bounded clawback, wallet constraints, the account of reversed coins and of the balance, the refinement of `CoinPromise` |
| `coin_settles` | one checkout with refunds and disputes in any order, one handler at a time, a failing statement, credit or look-up: nothing owed is left behind but by a dispute opened that is applied after it was lost, a paid checkout is credited, and a full refund takes everything back, in the end |
| `coin_ack_lost`, `coin_snapshot_race` | violations, findings 1 and 2 |
| `idem_window` | three requests, one of another payload, two failures: one owner at a time, a commit is remembered for the window, a replay is of the same payload, every request is answered, and the store refines `OncePromise`: no second run within a window |
| `xp_awards` | one award a call makes and one a product transaction queues, two workers, one failure (outages among them): a recorded award is never lost, completed repairs are in the ledger, completed projections are counted although the other entry is committed while one is open, and everything settles |
| `sos_delivery` | two contacts, two workers whose batch outlives its lease, a provider that is not heard, crashes, failed finishes, resolution, erasure, retention: a verdict is earned, attempts are bounded, every row settles, and the queue refines `SosPromise`: no fate is revised by a late worker |
| `realtime` | two matches, two events in any order of commits, drops, expiry, pruning, blocks, a hub that may miss anything: behind the cursor only what a read overtook is missed, and every other event that stays visible arrives |
| `realtime_late_commit` | violation, finding 3 |
| `notifications` | one contact, two workers, two changes of choice, friendship or check-in, also a choice between the snapshot and the commit of a check-in, a missed check-in or a cancellation; one crash or slow worker: inbox and pushes follow the member's choice, the feed but for the rows in `late`, and every job settles if servers start again |
| `help_again` | violation, finding 4 |
| `date_plans` | two plans, three sets of terms, devices with old versions, an unmatch, blocks, a sweep: nobody is bound to terms they have not seen, verdicts are mutual, a missing member is missed, and the plans refine `DatePromise`: one agreement, true alarms |

Bounds. Coins: three coins for two minor units make a partial refund round (1.5
coins to 2), so rounding and the final difference both occur; one gift of one
coin moves the balance between a read and a write and leaves a shortfall; two
handlers reach each pair of conflicting steps. `coin_races` has one failure: a
failed insert and its compensation meet the other handler's compare-and-set.
Idempotency: a lease of one tick and a window of three around runs of at most
two ticks give an owner that is late, one whose lease is over, and one whose row
is gone. XP: two attempts before a row is dead-lettered (eight in the code)
reach both branches; two workers are one that stalls and one that takes over, or
one that has summed the ledger while the second entry is committed; the one call
and the one reward are different awards, so calls for one award at the same time
are left to the theorems. `MaxFaults` is 1 or 2: each finding needs at most one.
SOS: a batch of two and a lease of one send give the batch that outlives its
lease; two attempts reach retry and dead letter, and a late finish that adds
one. Realtime: two events of two matches are the one at the cursor and the one
behind it, in one match or in two; a read returns one at most, so a batch is
cut; a look-back of one row makes the hub miss one; two failures hit a
connection and the recovery from an expired cursor. Notifications: of the two
changes, one opens a check-in, a missed check-in or a cancellation and one
withdraws inside it, or one withdraws and the other shares again or parts; at
most one job is open at a time (`MaxJobs`); the two workers are the slow one and
the one that takes over. Date plans: two plans give answers to a plan that is no
longer the last, three terms a counter of a counter.

Fairness. `CoinPurchases`: a handler that runs keeps running, since Go schedules
goroutines and the database answers or fails, and the provider redelivers an
event until it is answered 200 (its retry schedule; the code relies on it by
answering 5xx). The redelivery is strongly fair because a delivery is possible
again and again, not continuously, while handlers are busy. `Idempotency`:
claims and handlers keep running and time passes; no client has to give up.
`XPAwards`: some call that runs goes on, some engine works or claims, some delay
ends, the file is replayed and the database comes back. Nothing is asked of a
particular worker or row: attempts are bounded, so no row is taken for ever and
the others get their turn. `SosDelivery`: workers poll, time passes, retention
runs on its schedule; a crash needs a claimed row, and every claim counts an
attempt, so crashes run out by themselves. `Realtime`: the socket's loop runs,
since its fallback ticker always fires, the device reconnects and reads its
frames; nothing is asked of the hub or of the retention. `Notifications`: some
worker runs, which is enough because all share one queue, and time passes.
Nothing in the code makes a server start again, and `recoverStale` runs at no
other time, so `EveryJobSettles` has the restart as its condition:
`[]<>(Recoverable = {})`, lost jobs do not wait for ever. `DatePlans`: time
passes and the sweep's ticker fires; nothing is asked of members. Nothing is
assumed of crashes, failures, members or operators.

## Proofs

For every value of the constants, and every set of failures unless said
otherwise.

`CoinPurchasesProofs`:

- `TypeCorrect` and `MutualExclusion` from the inductive invariant `Inv`: types,
  one handler per event, and `HandlerOK`, which says which kind of event each
  phase handles. Mutual exclusion alone is not inductive: that `Begin` finds no
  other handler follows from the event's row being `received` while one has it.
- `ClawbackBounded` from `ReversalInv`, which adds `SnapshotWithinCredited`: a
  reversal computes with an old snapshot, which can only show fewer coins than
  are credited by now, because purchase rows are never deleted.
- `DebtIsFrozen`: types give the balance, `TakeBackFreezes` the freeze.
- `CreditIdempotent` and `Refinement`, with every kind of failure, from
  `CreditOK` and `StrayOK`. Coins that count for a checkout without a purchase row
  exist only while a handler is between the update and the insert or its
  compensation, or after a crash there, when the event stays `received` and no
  handler takes it again (`CreditOK`); whatever else a failed credit leaves is
  stray, and each stray credit was paid for by a failure (`StrayOK`), so a
  checkout cannot be credited more often than once and once per failure.

`CoinLedgerProofs`:

- A sum over a finite set is the library's `MapThenSumSet`, a recursion over the
  set in the order of `CHOOSE`. The induction theorems of the library cannot be
  instantiated here, so the lemmas about `Total` argue with a smallest
  counterexample: of the sets a lemma fails for, `SmallestSet` picks one with
  none below it, and taking one element out of it gives the contradiction. From
  them, one checkout's change is the sum's change.
- `ReversalsAccounted` from `BooksInv`: `ReversalInv`, the two books, and what
  keeps the books true while a reversal works on an old snapshot: the snapshot
  shows the credit whole or not (`SnapshotWhole`), and the key of
  a debit is of an event that owes nothing any more (`DebitKeysOK`): a refund or
  a reconciliation is applied once, and a lost dispute, which a failing
  `stopRenewalAfterChargeback` applies again, has taken all there is. So the
  `ON CONFLICT DO NOTHING` on the key never drops a debit.
- `BalanceExplained`, with every kind of failure: the books say what the balance
  is in terms of the coins added; `CreditOK` says which of those are stray, which
  have a purchase row, and which handler, or which event left `received`, stands
  for the rest.
- `ReversalsCaughtUp`, with any number of handlers, crashes and failures:
  `CaughtUp` says that a payment has its coins back, or its checkout has still to
  be reconciled (`CreditPending`), or a reversal slipped by (`lapsed`). It speaks of
  the payment row, and an event applied later rewrites that row, so `Remembered`
  adds that the row keeps telling of every reversal that was committed
  (`InEffect`), which needs `LockedOK` (a transaction commits on the row it
  locked) and `EmittedOK` (a dispute is closed once). Both exceptions are needed:
  the first is finding 2, the second the late dispute below.

`IdempotencyProofs`:

- `TypeCorrect`; `ReplayCorrect` from `ReplayInv`: a completed row holds the
  response of its owner, whose run is over and may be stored.
- `SingleOwner`, assuming `MaxRun < TTL`, from `RunInv`: whoever runs the command
  owns the row and made its claim at most `MaxRun` ago, so the row is not expired
  and no DELETE of another request matches it.
- `OncePerWindow` and `Remembered`, from the same assumption and `WindowInv`: a
  commit the store may keep, younger than the window, owns the row, so the claim
  of any other commit is at least `TTL` away from it. Without the assumption an
  owner could still run when its row is deleted as expired.
- `Refinement`, from the same assumption and `LiveInv`: a storable response in its
  window has the row, so no INSERT lands, and a request that runs is alone and
  finds nothing live. By `RunInv` no window closes while its own request still
  runs; by `ReplayInv` the row's response is the live one.

`XPAwardsProofs`:

- `TypeCorrect`.
- `NothingLost`, assuming `"tear" \notin Faults`, from `KeptInv`: the file ends
  at the end of a line, rows are never deleted, a line leaves the file only for a
  row, and a finish never writes an empty status.
- `CompletedAwarded` from `AwardedInv`: a call about to close its intent as
  completed, and a worker about to finish with that verdict, have the award in
  the ledger, from which nothing is removed. That is why the missing fence of
  `finishAwardRepair` (it updates by id, not by holder) does no harm here.
- `CompletedCounted` from `CountedInv`, for any number of awards, calls and
  workers: one projection is open at a time (the advisory lock), so the sum it
  read covers every entry whose row was completed before, and its own; entries
  committed since have rows of their own. Without the lock two projections could
  write their sums in the order in which they did not read them (the mutant
  `RowBusy`).

`SosDeliveryProofs`:

- `TypeCorrect`, and `FinalForGood`, which needs types only: each writer of a
  status looks at it first.
- `Refinement`: `SosDelivery` implements `SosPromise`. Each action is a stutter,
  attempts of open rows, an acceptance, or ends of one kind; that an end was
  earned is `VerdictInv`, and that attempts stay within their bound is `Counted`
  of `Bounded`.
- `Earned` from `VerdictInv`, which adds `HandsOK`: what a worker read of a row is
  an attempt that was made, and no two workers hold the same attempt. A row that
  is finished by a worker whose lease is gone is still one the provider took, or
  one whose last attempt was made.
- `Bounded`: at most `2 * MaxAttempts - 1` attempts. A worker that lost its lease
  and read an early attempt may put a row back that was on its last one; the
  potential `Counted` counts the early attempts still in hands (`Stale`), each of
  which can do so once and is gone. `Counted` is stated only past the limit,
  where no new early attempt can arise.

`RealtimeProofs`:

- `StreamTypes`, without assumptions: a checkpoint and a high-water mark are the
  greatest of a finite set of sequences (`GreatestSequence`).
- `OvertakenOnly`, without assumptions, from `StreamInv`, for any number of
  matches, whatever commits late and whatever blocks hide. What is coming
  (`Coming`: open transactions and retained rows, hidden or not) and is behind the
  device's cursor was received or overtaken (`BehindInv`); what is behind the
  socket's may also be on the wire (`PassedInv`); a batch has no other holes
  (`BatchInv`). Only a read extends these sets (`ListOvertakes`): a lower sequence
  it does not return is hidden, or has not committed and, by `LockInv`, shares no
  lock with what it returns. Commits, blocks and time only take from `Coming`
  (`ComingShrinks`), so nothing else ever comes up behind a cursor.

`NotificationsProofs`:

- `TypesHold`; `ConsentRules`, with any number of open transactions and workers,
  from `ViewInv`: a transaction that read the present version of the sharing row
  tells only members who are chosen. So the rows of one that commits are of such
  members or in `late`; every writer of the inbox checks the choice in its own
  transaction, under the plan's lock; and each choice takes back the others'
  copies, late ones too.
- `DevicesFallSilent` from `PushInv`: the workers about to push to a contact who
  is not chosen are at most as many as were when the choice was made. That a
  push follows a recheck is what keeps a worker from joining them.

`DatePlansProofs`:

- `TypesHold`, `TermsAreAgreed`, `VerdictsAreMutual` from `PlansInv`: a device
  that names the present version of the present plan shows its present terms
  (`ReadInv`), who proposed them agreed (`OwnerInv`), no device has read a plan
  to come (`PlanInv`), and what a sweep holds is of a plan that was accepted and
  is late (`ScanInv`). Agreement alone is not inductive: an acceptance names a
  version, and only `ReadInv` says which terms a version stands for.
- `AlarmsAreTrue`: `ScanInv` gives the hour, the recheck under the lock the rest.
- `Refinement`: `DatePlans` implements `DatePromise`. `PlansInv` makes an
  acceptance one of the present terms; `ConsentInv` adds that terms are numbered
  in order and that, while a plan is open to an answer, only whoever proposed its
  terms stands by them, so that fresh terms void the other's consent.

Only model-checked: the liveness properties (`PaidIsCredited`,
`FullRefundTakesAllBack`, `EveryRequestAnswered`, `RecordedIsSettled`,
`AwardedIsCounted`, `EveryRowSettles`, `EveryEventArrives`, `EveryJobSettles`,
`MissedIsTold`), since fairness and ENABLED are outside the prover's reach. Every
invariant and every action property of a passing run is a theorem, under the
assumptions named above.

## Findings

1. `coin_ack_lost`: an event whose handler died, or whose finish failed, stays
   `received`; its redelivery is answered 200 and it is never applied.
2. `coin_snapshot_race`: a refund and the credit it reverses can miss each
   other, and a fully refunded checkout keeps its coins (`NoCoinsLeftBehind`;
   `ReversalComplete` says which two steps do this and that no other does).
3. `realtime_late_commit`: two matches of one member share no lock, so a lower
   sequence may commit after the cursor has passed a higher one (`NothingSkipped`;
   `OnlyTheOvertakenAreMissed` says that nothing else is missed); neither the
   fallback poll nor a reconnection reads it.
4. `help_again`: need_help, safe, need_help: the second call for help adds a row
   to the feed and neither an inbox row nor a push.

Limitations of the code that follow from its design, seen while modelling and
without a run of their own:

- A dispute-opened event delivered after the dispute was lost moves the payment
  from `chargeback` back to `disputed`; if the credit is retried after that, the
  reconciliation finds nothing owed and the coins stay, against what
  `billing_checkout.go:413-414` says of the order of events. `NoCoinsLeftBehind`
  is false for this order too; `ReversalComplete` names it in its exception
  (`lapsed`), and `FullRefundTakesAllBack` speaks of checkouts without a dispute.
- A credit that fails may leave its coins in the wallet: its compensation lost
  its compare-and-set or failed, or the answer to the update was lost. The retry
  credits again. A compensation that undoes a row which had landed takes coins
  out that are recorded as credited. `stray` counts both; `coin_races` has the
  failures, and the second writer that makes the compensation miss.
- A crash inside the credit leaves coins in the wallet that no purchase row
  explains; `WalletExplained` counts them as such, with their event `received`.
- The look-up of an earlier purchase row reads the primary of PostgreSQL
  (`postgresdata/client.go:120`). The REST transport of the hosted mode may read a
  replica, and would then find a row late and credit twice; it is not modelled.
- A checkout paid with a delayed method is left open: the event that settles it
  is not one the parser knows.
- A command that commits and then answers a server error (`createIntro` in
  `friend_social.go` commits and then reads its view), or a response too long to
  store, loses its idempotency row; the same request then runs again. The
  properties of the window speak of what the store keeps (`Kept`, `Live`).
- The comment at `idempotency_postgres.go:73-74` speaks of taking over a request
  whose lease expired; the code never does, it answers that the outcome is
  uncertain, which is what `OncePromise` needs.
- An award appended behind a partly written line of the spool file is reported
  as written and dropped by the replay (the fault `tear`, outside the run).
- An award refused by a disabled flag is still made when its intent is only in
  the spool file or is already claimed by a worker; an award whose flag check
  failed is repaired without one.
- A batch of 25 emergency messages at eight seconds each outlives the lease of
  two minutes, although `sos_delivery.go:155-157` takes a row that old for one
  whose worker crashed; a contact may then be alerted twice. `VerdictsEarned`,
  `AttemptsBounded` and `SosPromise` hold all the same.
- Resolving an alert leaves the rows in a worker's hands: such a row may be sent
  after the resolution, and retried.
- `match.unmatched` is written and never delivered, because `listEvents` reads
  events of active matches only.
- An event that a block hides is passed over by the events of the member's other
  matches; an unblock does not bring it back to the stream, only a recovery or a
  reload of the conversation does. `overtaken` names such events.
- `recoverStale` runs only when a server starts; until then a lost job waits, on
  servers that keep running for ever.
- A check-in, a cancellation or a missed check-in that had read the choice before
  a withdrawal committed leaves a row in the feed of a contact who is no longer
  chosen (`late`); the next choice takes it back. It enqueues a job too, which the
  worker's check suppresses, so neither inbox nor devices hear of it. The other
  way round, a contact who is newly chosen is not told of such a check-in.
- A check-in whose recipients have changed in number since an earlier one of the
  same status, without a new choice (a friend lost or regained), reuses the key of
  a domain event with other content; `publish_domain_event` raises (075:126-135)
  and the member cannot check in with that status until the choice changes.
- Friends who part keep the copies they have in feed and inbox; only a change of
  the choice takes copies back. Sharing again after a withdrawal does not enqueue
  a suppressed job again, for the reason of finding 4.
- `Decide` looks at no window: a plan may be accepted after it. The sweep may
  alarm for a plan cancelled between its snapshot and its locks. The fan-out of
  a cancelled plan or a check-in reaches the other member after a block, which
  `match_block_guard.go:11-15` describes as the end of contact.

## Not modelled

In `CoinPurchases`: statements whose commit succeeds although their reply is
lost, except the insert of the purchase row; serialization failures other than
on the wallet and payment rows; charges with several payment rows; the REST
transport of the hosted mode; checkout creation, the sweep, plan changes and
card updates. In `Idempotency`: the in-memory store an instance without a
database uses; the operation status endpoint, which only reads. In `XPAwards`:
reward claims, level transitions and experiments, fraud cases, a key reused for
a different award, rows whose payload cannot be parsed, an instance started
without a spool file, and the loss of a file's contents with its machine. In
`SosDelivery`: the redaction of a cancelled row's contents. In `Realtime`: the
notification stream, whose loop is the same over another table, sessions and
their revocation except as a dropped connection, several sockets of one member.
In `Notifications`: producers other than date plans, what the acceptance itself
tells and choices made before it, the other member's share, a recipient's policy
and devices (choices here), the delay of a retry, reading and listing. In
`DatePlans`: reminders, preferences and availability, the Shows Up badge,
and accounts that are deactivated.

Other components are not modelled at all, with the reason in `PROJECT.json`:
most are single-row transactions, reads, formatting or I/O, with no protocol
between actors that a model would add something about.

## Plan

1. `CoinPurchases`, `Idempotency`, `XPAwards`: done, proved.
2. `SosDelivery`, `Realtime`, `Notifications`, `DatePlans`: done, proved.
3. Matching and unlock: a mutual like makes one match, a rematch, the quest
   workflow and its unlock state, which are written in separate statements: a
   submission between the read and the write of another loses an attempt.
4. Subscriptions: order of provider events, one live subscription; a module that
   shares the event ledger of `CoinPurchases`.
5. Account erasure with its storage releases; graduation.

Theorems worth proving next: an abstract "each award at most once, then settled"
specification that `XPAwards` refines, and one of consent that `Notifications`
refines. Compositions: `DatePlans` with `Notifications`, so that an alarm is
followed to a push; `OncePromise`, in place of `Idempotency`, with one of the
other modules as its command.
