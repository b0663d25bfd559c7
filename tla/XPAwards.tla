------------------------------- MODULE XPAwards -------------------------------
(***************************************************************************)
(* How one member's XP awards reach the ledger and then the member's level.*)
(*                                                                         *)
(* A product action awards XP after its own transaction: it writes an      *)
(* intent to the repair queue first (or, when the database does not        *)
(* answer, a line to a local spool file), then tries the award, then       *)
(* closes the intent or queues a repair.  A worker on every instance takes *)
(* what is due from the repair queue and awards it, and takes the outbox   *)
(* rows of new ledger entries and recomputes the member's level.  Another  *)
(* loop moves the spool file into the repair queue.                        *)
(*                                                                         *)
(* available_at and locked_at are abstracted to `ripe': the time a row     *)
(* waits for, a delay or the end of a lease, has come.                     *)
(***************************************************************************)
EXTENDS Integers, FiniteSets

CONSTANTS
    Award,        \* awards of the member, each with its idempotency key
    NoAward,      \* "the worker has no item in hand"
    Call,         \* runs of awardProgressionDurably, on any instance
    AwardOf,      \* AwardOf[k]: the award call k makes; a retried product
                  \* action makes the same award again
    Reward,       \* awards a product transaction queues itself
    Worker,       \* the projection engines of the instances
    MaxAttempts,  \* failed attempts before a row is dead-lettered (8)
    Faults,       \* the kinds of failure this instance exercises
    MaxFaults     \* bound on how many failures happen in a behaviour

FaultKind == {"outage", "statement", "tear", "crash", "stall"}

ASSUME AwardAssumption   == /\ NoAward \notin Award
                            /\ AwardOf \in [Call -> Award]
                            /\ Reward \subseteq Award
ASSUME AttemptAssumption == MaxAttempts \in Nat \ {0}
ASSUME FaultAssumption   == Faults \subseteq FaultKind /\ MaxFaults \in Nat

VARIABLES
    queue,      \* xp_award_repair_queue, a row per award
    outbox,     \* projection_outbox, a row per ledger entry
    ledger,     \* awards in xp_ledger
    projected,  \* awards counted in user_level_state
    spool,      \* awards with a line of their own in the spool file
    torn,       \* the spool file ends in part of a line
    up,         \* the database answers
    pc,         \* where each call is in awardProgressionDurably
    wpc,        \* where each worker is
    batch,      \* the rows a worker has claimed and not finished
    item,       \* the row it has in hand
    verdict,    \* what its attempt came to
    sum,        \* the ledger as the transaction of its projection read it
    recorded,   \* history: awards whose intent was reported as written
    faults      \* failures so far, bounded by MaxFaults

tables == <<queue, outbox, ledger, projected>>
file   == <<spool, torn>>
worker == <<wpc, batch, item, verdict, sum>>
vars   == <<tables, file, up, pc, worker, recorded, faults>>

Status  == {"none", "pending", "processing", "retry", "completed",
            "suppressed", "dead_letter"}
Row     == [status : Status, attempts : Nat, ripe : BOOLEAN]
Stage   == {"new", "spool", "flag", "award", "complete", "suppress",
            "enqueue", "done", "gone"}
WStage  == {"idle", "award", "finish", "project", "level", "postpone"}
Verdict == {"none", "completed", "suppressed", "failed"}

NoRow   == [status |-> "none", attempts |-> 0, ripe |-> FALSE]

Init ==
    /\ queue = [a \in Award |-> NoRow]
    /\ outbox = [a \in Award |-> NoRow]
    /\ ledger = {} /\ projected = {}
    /\ spool = {} /\ torn = FALSE
    /\ up = TRUE
    /\ pc = [k \in Call |-> "new"]
    /\ wpc = [w \in Worker |-> "idle"]
    /\ batch = [w \in Worker |-> {}]
    /\ item = [w \in Worker |-> NoAward]
    /\ verdict = [w \in Worker |-> "none"]
    /\ sum = [w \in Worker |-> {}]
    /\ recorded = {}
    /\ faults = 0

Goto(k, p) == pc' = [pc EXCEPT ![k] = p]

Fault(x) ==
    /\ x \in Faults /\ faults < MaxFaults
    /\ faults' = faults + 1

\* A statement fails without effect while the database is away; a failure of
\* kind "statement" may also hit one that took effect.
Unreachable == ~up /\ UNCHANGED faults

-----------------------------------------------------------------------------
(* The rows.                                                               *)

Inserted(t, a, isRipe) ==
    [t EXCEPT ![a] = IF @.status = "none"
                     THEN [@ EXCEPT !.status = "pending", !.ripe = isRipe]
                     ELSE @]

\* enqueueAwardRepair: ON CONFLICT DO UPDATE, unless completed or suppressed.
Requeue(r) ==
    CASE r.status \in {"completed", "suppressed"} -> r
      [] r.status = "none" -> [r EXCEPT !.status = "pending", !.ripe = TRUE]
      [] OTHER -> [r EXCEPT !.status = "retry", !.ripe = TRUE]

Enqueued(S) == [a \in Award |-> IF a \in S THEN Requeue(queue[a]) ELSE queue[a]]

\* Mutant: leases are not recovered.
NeverRecovered(r) == r

\* "stale processing lease recovered"
Recovered(r) ==
    IF r.status = "processing" /\ r.ripe THEN [r EXCEPT !.status = "retry"]
                                         ELSE r

Due(t) == {a \in Award : /\ Recovered(t[a]).status \in {"pending", "retry"}
                         /\ t[a].ripe}

Claimed(t) ==
    [a \in Award |->
        IF a \in Due(t)
        THEN [status |-> "processing", attempts |-> t[a].attempts + 1,
              ripe |-> FALSE]
        ELSE t[a]]

\* A failed attempt waits longer each time, or is given up.
AfterFailure(r) ==
    [r EXCEPT !.status = IF r.attempts >= MaxAttempts THEN "dead_letter"
                                                      ELSE "retry",
              !.ripe = FALSE]

-----------------------------------------------------------------------------
(* awardXP: one transaction under the member's advisory lock.              *)

\* Mutant: the ledger entry has no outbox row.
GrantUnannounced(a) ==
    /\ ledger' = ledger \cup {a}
    /\ UNCHANGED outbox

\* The ledger entry and its outbox row; an award that is in the ledger is a
\* duplicate and succeeds.
Grant(a) ==
    /\ ledger' = ledger \cup {a}
    /\ outbox' = Inserted(outbox, a, TRUE)

\* The cap, the cooldown, a freeze (the award is suppressed), a source that is
\* disabled (it fails): none of them is asked about a duplicate.
Refusable(a) == a \notin ledger

-----------------------------------------------------------------------------
(* awardProgressionDurably                                                 *)

WriteIntent(k) ==
    LET a == AwardOf[k]
    IN  /\ pc[k] = "new"
        /\ \/ /\ up /\ UNCHANGED faults
              /\ queue' = Inserted(queue, a, FALSE)
              /\ recorded' = recorded \cup {a}
              /\ Goto(k, "flag")
           \/ /\ \/ Unreachable /\ UNCHANGED queue
                 \/ up /\ Fault("statement")
                       /\ queue' \in {queue, Inserted(queue, a, FALSE)}
              /\ Goto(k, "spool")
              /\ UNCHANGED recorded
        /\ UNCHANGED <<outbox, ledger, projected, file, up, worker>>

\* A line appended behind part of another is one corrupt line with it.
LinesAppended(a) == IF torn THEN spool ELSE spool \cup {a}

SpoolAppend(k) ==
    LET a == AwardOf[k]
    IN  /\ pc[k] = "spool"
        /\ \/ /\ spool' = LinesAppended(a) /\ torn' = FALSE
              /\ recorded' = recorded \cup {a}
              /\ UNCHANGED faults
           \/ /\ Fault("tear")          \* the write fails, or stops part of the way
              /\ torn' \in {torn, TRUE}
              /\ UNCHANGED <<spool, recorded>>
        /\ Goto(k, "flag")
        /\ UNCHANGED <<tables, up, worker>>

CheckFlag(k) ==
    /\ pc[k] = "flag"
    /\ \/ up /\ Goto(k, "award") /\ UNCHANGED faults
       \/ up /\ Goto(k, "suppress") /\ UNCHANGED faults
       \/ /\ Unreachable \/ Fault("statement")
          /\ Goto(k, "enqueue")
    /\ UNCHANGED <<tables, file, up, worker, recorded>>

DirectAward(k) ==
    LET a == AwardOf[k]
    IN  /\ pc[k] = "award"
        /\ \/ up /\ Grant(a) /\ Goto(k, "complete") /\ UNCHANGED faults
           \/ /\ up /\ Refusable(a)
              /\ \E p \in {"suppress", "enqueue"} : Goto(k, p)
              /\ UNCHANGED <<ledger, outbox, faults>>
           \/ /\ \/ Unreachable /\ UNCHANGED <<ledger, outbox>>
                 \/ up /\ Fault("statement")
                       /\ (Grant(a) \/ UNCHANGED <<ledger, outbox>>)
              /\ Goto(k, "enqueue")
        /\ UNCHANGED <<queue, projected, file, up, worker, recorded>>

\* WHERE status='pending'
Closable(r) == r.status = "pending"

\* closeAwardIntent; its error is ignored.
CloseIntent(k) ==
    LET a == AwardOf[k]
        s == IF pc[k] = "complete" THEN "completed" ELSE "suppressed"
    IN  /\ pc[k] \in {"complete", "suppress"}
        /\ \/ /\ up /\ UNCHANGED faults
              /\ queue' = [queue EXCEPT ![a] = IF Closable(@)
                             THEN [@ EXCEPT !.status = s, !.ripe = FALSE]
                             ELSE @]
           \/ (Unreachable \/ Fault("statement")) /\ UNCHANGED queue
        /\ Goto(k, "done")
        /\ UNCHANGED <<outbox, ledger, projected, file, up, worker, recorded>>

\* enqueueProgressionRepair; its error is logged.
EnqueueRepair(k) ==
    /\ pc[k] = "enqueue"
    /\ \/ up /\ queue' = Enqueued({AwardOf[k]}) /\ UNCHANGED faults
       \/ (Unreachable \/ Fault("statement")) /\ UNCHANGED queue
    /\ Goto(k, "done")
    /\ UNCHANGED <<outbox, ledger, projected, file, up, worker, recorded>>

\* The process dies; an append may have written part of its line.
CallDies(k) ==
    /\ pc[k] \notin {"new", "done", "gone"}
    /\ Fault("crash")
    /\ IF pc[k] = "spool" /\ "tear" \in Faults THEN torn' \in {torn, TRUE}
                                               ELSE UNCHANGED torn
    /\ Goto(k, "gone")
    /\ UNCHANGED <<tables, spool, up, worker, recorded>>

\* queueReward: inside the product's own transaction, no direct award.
QueueReward(a) ==
    /\ a \in Reward /\ up
    /\ queue[a].status = "none"
    /\ queue' = Inserted(queue, a, TRUE)
    /\ recorded' = recorded \cup {a}
    /\ UNCHANGED <<outbox, ledger, projected, file, up, pc, worker, faults>>

-----------------------------------------------------------------------------
(* The spool's replay.                                                     *)

\* Mutant: lines that could not be enqueued are not written back.
LinesForgotten(failed) == {}

LinesKept(failed) == failed

\* Every line is enqueued, then the file is replaced by the lines that failed.
\* The file's mutex keeps appends out; corrupt lines are dropped.
Replay ==
    /\ spool # {} \/ torn
    /\ \E failed \in SUBSET spool :
         /\ \/ ~up /\ failed = spool /\ UNCHANGED faults
            \/ up /\ failed = {} /\ UNCHANGED faults
            \/ up /\ failed # {} /\ Fault("statement")
         /\ queue' = Enqueued(spool \ failed)
         /\ spool' = LinesKept(failed)
    /\ torn' = FALSE
    /\ UNCHANGED <<outbox, ledger, projected, up, pc, worker, recorded>>

\* The process dies, or cannot write, before the file is replaced.
ReplayInterrupted ==
    /\ up /\ Fault("crash")
    /\ \E done \in SUBSET spool : queue' = Enqueued(done)
    /\ UNCHANGED <<outbox, ledger, projected, file, up, pc, worker, recorded>>

-----------------------------------------------------------------------------
(* The projection engine: runAwardRepairs, then the projection outbox.     *)

Take(w, S, stage) ==
    /\ wpc' = [wpc EXCEPT ![w] = stage]
    /\ batch' = [batch EXCEPT ![w] = S]
    /\ UNCHANGED <<item, verdict, sum>>

InHand(w, a, v, stage) ==
    /\ wpc' = [wpc EXCEPT ![w] = stage]
    /\ item' = [item EXCEPT ![w] = a]
    /\ verdict' = [verdict EXCEPT ![w] = v]
    /\ sum' = [sum EXCEPT ![w] = {}]
    /\ UNCHANGED batch

PutDown(w, a, stage) ==
    /\ batch' = [batch EXCEPT ![w] = @ \ {a}]
    /\ wpc' = [wpc EXCEPT ![w] = IF batch[w] \ {a} = {} THEN "idle" ELSE stage]
    /\ item' = [item EXCEPT ![w] = NoAward]
    /\ verdict' = [verdict EXCEPT ![w] = "none"]
    /\ sum' = [sum EXCEPT ![w] = {}]

\* Recovers the stale leases, then claims every row that is due.  A pass that
\* finds none changes nothing.
ClaimAwards(w) ==
    /\ wpc[w] = "idle" /\ up
    /\ Due(queue) # {}
    /\ queue' = Claimed(queue)
    /\ Take(w, Due(queue), "award")
    /\ UNCHANGED <<outbox, ledger, projected, file, up, pc, recorded, faults>>

RepairAward(w) ==
    /\ wpc[w] = "award"
    /\ \E a \in batch[w] :
         \/ up /\ Grant(a) /\ InHand(w, a, "completed", "finish")
               /\ UNCHANGED faults
         \/ /\ up /\ Refusable(a)
            /\ \E v \in {"suppressed", "failed"} : InHand(w, a, v, "finish")
            /\ UNCHANGED <<ledger, outbox, faults>>
         \/ /\ \/ Unreachable /\ UNCHANGED <<ledger, outbox>>
               \/ up /\ Fault("statement")
                     /\ (Grant(a) \/ UNCHANGED <<ledger, outbox>>)
            /\ InHand(w, a, "failed", "finish")
    /\ UNCHANGED <<queue, projected, file, up, pc, recorded>>

\* Mutant: a refused award is finished like a granted one.
FinishedAlike(r, v) ==
    IF v = "failed" THEN AfterFailure(r)
                    ELSE [r EXCEPT !.status = "completed", !.ripe = FALSE]

\* Mutant: what the attempt came to is written as it is.
FinishedVerbatim(r, v) == [r EXCEPT !.status = v, !.ripe = FALSE]

Finished(r, v) ==
    IF v = "failed" THEN AfterFailure(r)
                    ELSE [r EXCEPT !.status = v, !.ripe = FALSE]

\* finishAwardRepair: WHERE id=$1, whoever holds the row by now.  Its error is
\* ignored.
FinishRepair(w) ==
    LET a == item[w]
    IN  /\ wpc[w] = "finish"
        /\ \/ /\ up /\ UNCHANGED faults
              /\ queue' = [queue EXCEPT ![a] = Finished(@, verdict[w])]
           \/ (Unreachable \/ Fault("statement")) /\ UNCHANGED queue
        /\ PutDown(w, a, "award")
        /\ UNCHANGED <<outbox, ledger, projected, file, up, pc, recorded>>

ClaimLevels(w) ==
    /\ wpc[w] = "idle" /\ up
    /\ Due(outbox) # {}
    /\ outbox' = Claimed(outbox)
    /\ Take(w, Due(outbox), "project")
    /\ UNCHANGED <<queue, ledger, projected, file, up, pc, recorded, faults>>

\* Mutant: only the row of the level is locked, which a first projection has
\* still to write.
RowBusy == projected # {} /\ \E w \in Worker : wpc[w] = "level"

\* Somebody holds the advisory lock 'level-state'.
LevelBusy == \E w \in Worker : wpc[w] = "level"

\* projectUser up to SUM(awarded_xp), in a READ COMMITTED transaction: awardXP
\* takes another lock, and may commit entries while this one is open.
SumLedger(w) ==
    /\ wpc[w] = "project"
    /\ \E a \in batch[w] :
         \/ /\ up /\ ~LevelBusy /\ UNCHANGED <<batch, verdict, faults>>
            /\ wpc' = [wpc EXCEPT ![w] = "level"]
            /\ item' = [item EXCEPT ![w] = a]
            /\ sum' = [sum EXCEPT ![w] = ledger]
         \/ (Unreachable \/ Fault("statement")) /\ InHand(w, a, "failed", "postpone")
    /\ UNCHANGED <<tables, file, up, pc, recorded>>

\* The level and the outbox row.
Project(w) ==
    /\ projected' = sum[w]
    /\ outbox' = [outbox EXCEPT ![item[w]].status = "completed",
                                ![item[w]].ripe = FALSE]

\* The commit of projectUser, or its failure, also of a commit that took effect.
ProjectUser(w) ==
    /\ wpc[w] = "level"
    /\ \/ up /\ Project(w) /\ PutDown(w, item[w], "project") /\ UNCHANGED faults
       \/ /\ \/ Unreachable /\ UNCHANGED <<projected, outbox>>
             \/ up /\ Fault("statement")
                   /\ (Project(w) \/ UNCHANGED <<projected, outbox>>)
          /\ InHand(w, item[w], "failed", "postpone")
    /\ UNCHANGED <<queue, ledger, file, up, pc, recorded>>

\* The UPDATE after a failed projectUser: WHERE id=$1, its error ignored.
Postpone(w) ==
    LET a == item[w]
    IN  /\ wpc[w] = "postpone"
        /\ \/ /\ up /\ UNCHANGED faults
              /\ outbox' = [outbox EXCEPT ![a] = AfterFailure(@)]
           \/ (Unreachable \/ Fault("statement")) /\ UNCHANGED outbox
        /\ PutDown(w, a, "project")
        /\ UNCHANGED <<queue, ledger, projected, file, up, pc, recorded>>

\* The instance dies; another takes its place.
WorkerDies(w) ==
    /\ wpc[w] # "idle"
    /\ Fault("crash")
    /\ wpc' = [wpc EXCEPT ![w] = "idle"]
    /\ batch' = [batch EXCEPT ![w] = {}]
    /\ item' = [item EXCEPT ![w] = NoAward]
    /\ verdict' = [verdict EXCEPT ![w] = "none"]
    /\ sum' = [sum EXCEPT ![w] = {}]
    /\ UNCHANGED <<tables, file, up, pc, recorded>>

-----------------------------------------------------------------------------
(* Time and the database.                                                  *)

HeldAward(a) == \E w \in Worker : wpc[w] \in {"award", "finish"} /\ a \in batch[w]
HeldLevel(a) ==
    \E w \in Worker : wpc[w] \in {"project", "level", "postpone"} /\ a \in batch[w]

Waits(r) == r.status \in {"pending", "processing", "retry"} /\ ~r.ripe

\* A delay passes (the intent's grace, a backoff), or the lease of a row whose
\* worker is gone.
RipenAward(a) ==
    /\ Waits(queue[a])
    /\ queue[a].status = "processing" => ~HeldAward(a)
    /\ queue' = [queue EXCEPT ![a].ripe = TRUE]
    /\ UNCHANGED <<outbox, ledger, projected, file, up, pc, worker, recorded,
                   faults>>

RipenLevel(a) ==
    /\ Waits(outbox[a])
    /\ outbox[a].status = "processing" => ~HeldLevel(a)
    /\ outbox' = [outbox EXCEPT ![a].ripe = TRUE]
    /\ UNCHANGED <<queue, ledger, projected, file, up, pc, worker, recorded,
                   faults>>

\* A worker outlives its five-minute lease.
StallPastLease(a) ==
    /\ Fault("stall")
    /\ \/ /\ queue[a].status = "processing" /\ HeldAward(a)
          /\ queue' = [queue EXCEPT ![a].ripe = TRUE]
          /\ UNCHANGED outbox
       \/ /\ outbox[a].status = "processing" /\ HeldLevel(a)
          /\ outbox' = [outbox EXCEPT ![a].ripe = TRUE]
          /\ UNCHANGED queue
    /\ UNCHANGED <<ledger, projected, file, up, pc, worker, recorded>>

Outage ==
    /\ up /\ Fault("outage")
    /\ up' = FALSE
    /\ UNCHANGED <<tables, file, pc, worker, recorded>>

DatabaseBack ==
    /\ ~up
    /\ up' = TRUE
    /\ UNCHANGED <<tables, file, pc, worker, recorded, faults>>

-----------------------------------------------------------------------------

Runs(k) ==
    \/ SpoolAppend(k) \/ CheckFlag(k) \/ DirectAward(k)
    \/ CloseIntent(k) \/ EnqueueRepair(k)

Works(w) ==
    \/ RepairAward(w) \/ FinishRepair(w)
    \/ SumLedger(w) \/ ProjectUser(w) \/ Postpone(w)

Next ==
    \/ \E k \in Call : WriteIntent(k) \/ Runs(k) \/ CallDies(k)
    \/ \E a \in Award : QueueReward(a)
    \/ Replay \/ ReplayInterrupted
    \/ \E w \in Worker : ClaimAwards(w) \/ ClaimLevels(w) \/ Works(w)
                         \/ WorkerDies(w)
    \/ \E a \in Award : RipenAward(a) \/ RipenLevel(a) \/ StallPastLease(a)
    \/ Outage \/ DatabaseBack

Spec == Init /\ [][Next]_vars

\* Some goroutine that runs goes on, some ticker fires, time passes, the
\* database comes back: no row is tried without end, so that none is starved.
\* No product action has to happen.
FairSpec ==
    /\ Spec
    /\ WF_vars(\E k \in Call : Runs(k))
    /\ WF_vars(\E w \in Worker : ClaimAwards(w) \/ ClaimLevels(w) \/ Works(w))
    /\ WF_vars(\E a \in Award : RipenAward(a) \/ RipenLevel(a))
    /\ WF_vars(Replay) /\ WF_vars(DatabaseBack)

-----------------------------------------------------------------------------

TypeOK ==
    /\ queue \in [Award -> Row] /\ outbox \in [Award -> Row]
    /\ ledger \subseteq Award /\ projected \subseteq Award
    /\ spool \subseteq Award /\ torn \in BOOLEAN
    /\ up \in BOOLEAN
    /\ pc \in [Call -> Stage]
    /\ wpc \in [Worker -> WStage]
    /\ batch \in [Worker -> SUBSET Award]
    /\ item \in [Worker -> Award \cup {NoAward}]
    /\ verdict \in [Worker -> Verdict]
    /\ sum \in [Worker -> SUBSET Award]
    /\ recorded \subseteq Award
    /\ faults \in Nat

\* "a crash or database outage cannot silently lose it": an award whose intent
\* was reported as written, to the queue or to the spool file, still has its
\* row or its line, whatever is replayed, fails, dies or is closed meanwhile.
NeverLost == \A a \in recorded : queue[a].status # "none" \/ a \in spool

\* A row of the repair queue says "completed" only of an award that is in the
\* ledger, although the direct award, workers with and without a lease, and
\* the replay write its status without regard to each other.
CompletedIsAwarded ==
    \A a \in Award : queue[a].status = "completed" => a \in ledger

\* The member's level counts every ledger entry whose outbox row is completed,
\* although entries are committed while a projection is open, workers project at
\* the same time, and a projection writes the sum it read before.
CompletedIsCounted ==
    \A a \in Award : outbox[a].status = "completed" => a \in projected

Settled(r) == r.status \in {"completed", "suppressed", "dead_letter"}

\* What is recorded is granted, refused or given up in the end, whoever dies
\* with it and however long the database is away: again and again nothing is
\* left to do.
RecordedIsSettled == []<>(\A a \in recorded : Settled(queue[a]))

\* The ledger is counted in the member's level in the end, but for entries whose
\* projection is given up.
AwardedIsCounted ==
    []<>(\A a \in ledger : a \in projected \/ outbox[a].status = "dead_letter")
=============================================================================
