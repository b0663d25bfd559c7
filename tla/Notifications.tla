----------------------------- MODULE Notifications -----------------------------
(***************************************************************************)
(* Telling trusted contacts about a date plan, and taking it back.         *)
(*                                                                         *)
(* A member chooses the friends who may follow one of their accepted date  *)
(* plans.  Sharing it, and every check-in, missed check-in and             *)
(* cancellation after it, adds a row to the feed of each recipient and a   *)
(* job to the notification outbox.  Workers claim jobs, recheck the        *)
(* consent, write the recipient's inbox, push to their devices and record  *)
(* the outcome with an update that no claim guards.  Meanwhile the member  *)
(* withdraws, unfriends or blocks, also between the moment a transaction   *)
(* reads who is to be told and its commit; claims grow old under slow      *)
(* workers, and servers crash and start again.                             *)
(*                                                                         *)
(* One member's share of one plan of an active match is modelled, since no *)
(* other shares its rows.  A job is named by what it tells and whom, which *)
(* is its dedupe_key.  A worker holds one job: a batch is several workers. *)
(* The delay of a retry is left out: any retry may already be due.         *)
(***************************************************************************)
EXTENDS Integers, FiniteSets

CONSTANTS
    Contact,      \* the members who are or may become friends
    FanOuts,      \* the transactions that tell, of those this instance exercises
    Worker,       \* delivery workers, of any server
    MaxDevices,   \* bound on the devices of a contact
    Nothing,      \* no job
    MaxAttempts,  \* NotificationMaxAttempts
    MaxChanges,   \* bound on choices, changes of friends and transactions that tell
    MaxJobs,      \* bound on the jobs that are open when another is enqueued
    MaxFaults     \* bound on crashes, lost updates and slow workers

CheckIns == FanOuts \cap {"safe", "need_help"}
News     == {"accepted"} \cup FanOuts
Job      == News \X Contact

ASSUME FanOutAssumption ==
    FanOuts \subseteq {"safe", "need_help", "checkin_missed", "cancelled"}
ASSUME JobAssumption     == Nothing \notin Job
ASSUME WorkerAssumption  == IsFiniteSet(Worker) /\ IsFiniteSet(Contact)
ASSUME BoundAssumption   == /\ {MaxDevices, MaxChanges, MaxJobs, MaxFaults} \subseteq Nat
                            /\ MaxAttempts \in Nat \ {0}

VARIABLES
    plan,       \* status of the plan, "accepted" at first
    checkin,    \* the member's check-in, "none" at first
    escalated,  \* escalated_at is set: the missed check-in was told
    chosen,     \* contact_ids of the sharing row
    version,    \* version of the sharing row, from its version at the acceptance
    friend,     \* contacts who are accepted friends, active and not blocked
    changes,    \* choices, changes of friends and transactions so far
    telling,    \* open transactions: what they tell, and whom, as they read it
    events,     \* keys and contents of the domain events of check-ins
    feed,       \* friend_activity_feed, as the jobs it tells of
    late,       \* history: rows of the feed whose transaction had read the
                \* choice before the last one
    status,     \* status of a row of notification_outbox, or "absent"
    attempts,   \* attempt_count
    stale,      \* jobs locked for more than two minutes
    inbox,      \* jobs with a row in user_notifications
    pc,         \* where each worker is
    job,        \* the job a worker holds
    mine,       \* the attempt a worker makes
    left,       \* how many devices a worker has still to push to
    delivered,  \* workers that have delivered their job
    failed,     \* workers with a retryable error
    inflight,   \* history: pushes under way when a contact was withdrawn
    faults      \* crashes, lost updates and slow workers so far

standing == <<plan, checkin, escalated>>
choice  == <<chosen, version, friend, changes>>
told    == <<telling, events, feed, late>>
consent == <<standing, choice, told>>
outbox  == <<status, attempts, stale>>
reach   == <<inbox, inflight>>
hands   == <<pc, job, mine, left, delivered, failed>>
vars    == <<consent, outbox, reach, hands, faults>>

Waiting == {"pending", "retry"}
Open    == Waiting \cup {"processing"}
Final   == {"delivered", "suppressed", "dead_letter"}

\* The plan was accepted some time ago, and the member has not checked
\* in since or has given every answer; what that told has been delivered.
Init ==
    /\ plan = "accepted" /\ escalated = FALSE
    /\ chosen \in SUBSET Contact /\ version = 0
    /\ friend = Contact /\ changes = 0
    /\ \E earlier \in {{}, CheckIns} :
         /\ checkin \in IF earlier = {} THEN {"none"} ELSE earlier
         /\ events = {[news |-> n, version |-> 0, count |-> Cardinality(chosen)]
                       : n \in earlier}
         /\ feed = ({"accepted"} \cup earlier) \X chosen
    /\ telling = {} /\ late = {}
    /\ status = [j \in Job |-> IF j \in feed THEN "delivered" ELSE "absent"]
    /\ attempts = [j \in Job |-> IF j \in feed THEN 1 ELSE 0]
    /\ stale = {}
    /\ inbox = feed
    /\ pc = [w \in Worker |-> "idle"]
    /\ job = [w \in Worker |-> Nothing]
    /\ mine = [w \in Worker |-> 0]
    /\ left = [w \in Worker |-> 0]
    /\ delivered = {} /\ failed = {}
    /\ inflight = [c \in Contact |-> 0]
    /\ faults = 0

-----------------------------------------------------------------------------
(* Consent                                                                 *)

\* date_plan_trusted_recipients
Recipients(C) == C \cap friend

Allowed(j) == j[2] \in Recipients(chosen)

\* A job that exists already keeps its status (ON CONFLICT (dedupe_key) DO
\* NOTHING).
Enqueued(old, jobs) ==
    [j \in Job |-> IF j \in jobs /\ old[j] = "absent" THEN "pending" ELSE old[j]]

Room(jobs) == Cardinality({j \in Job : Enqueued(status, jobs)[j] \in Open}) <= MaxJobs

\* checkin and cancel read in a SERIALIZABLE snapshot, which their first
\* statement takes before it waits for the lock of the plan; the sweep reads
\* the recipients without that lock, and holds the participant's row.
BeginTelling(n) ==
    /\ changes < MaxChanges /\ changes' = changes + 1
    /\ plan = "accepted"
    /\ \A t \in telling : t.news # n
    /\ n # checkin
    /\ n = "checkin_missed" => checkin = "none" /\ ~escalated
    /\ telling' = telling \cup
         {[news |-> n, version |-> version, to |-> Recipients(chosen)]}
    /\ UNCHANGED <<standing, chosen, version, friend, events, feed, late, outbox,
                   reach, hands, faults>>

\* notify_date_plan_status
Told(t) == {t.news} \X t.to

\* publish_domain_event: a check-in's key has the version of the sharing and
\* not the number of the check-in, its content how many were told.
EventOf(t) == [news |-> t.news, version |-> t.version, count |-> Cardinality(t.to)]

KeyReused(t) ==
    \E e \in events : /\ e.news = t.news /\ e.version = t.version
                      /\ e.count # Cardinality(t.to)

\* The commit.  updateSharing changes neither the plan's nor the participant's
\* row, so a choice made since the snapshot does not stop it; a check-in is
\* stopped by the participant's row, which the sweep holds and it and another
\* check-in change, and by the plan's, which a cancellation changes.
Tell(t) ==
    /\ ~KeyReused(t) /\ Room(Told(t))
    /\ t.news \in CheckIns => \A u \in telling : u.news # "checkin_missed"
    /\ telling' = {u \in telling \ {t} : u.news \notin CheckIns}
    /\ IF t.news \in CheckIns
       THEN checkin' = t.news /\ events' = events \cup {EventOf(t)}
       ELSE UNCHANGED <<checkin, events>>
    /\ plan' = IF t.news = "cancelled" THEN "cancelled" ELSE plan
    /\ escalated' = (escalated \/ t.news = "checkin_missed")
    /\ feed' = feed \cup Told(t)
    /\ late' = IF t.version < version THEN late \cup Told(t) ELSE late
    /\ status' = Enqueued(status, Told(t))
    /\ UNCHANGED <<choice, attempts, stale, reach, hands, faults>>

\* The transaction is rolled back whole: its event reuses a key with other
\* content, it meets a newer row or another serializable transaction, or it dies.
Abandon(t) ==
    /\ telling' = telling \ {t}
    /\ UNCHANGED <<standing, choice, events, feed, late, outbox, reach, hands, faults>>

Withdrawn(C) == [j \in Job |->
    IF status[j] \in Open /\ j[2] \notin Recipients(C) THEN "suppressed"
    ELSE status[j]]

\* The workers about to push to a contact.
Sending(c) == {w \in Worker : pc[w] = "send" /\ job[w][2] = c}

\* updateSharing, with the version the client has read; one bad contact refuses
\* all.  Whoever is chosen is told the plan's status.
UpdateSharing(C) ==
    LET kept == {j \in Job : j[2] \in Recipients(C)}
        news == {plan} \X Recipients(C)
    IN  /\ changes < MaxChanges /\ changes' = changes + 1
        /\ C \subseteq friend /\ Room(news)
        /\ chosen' = C /\ version' = version + 1
        /\ feed' = (feed \cap kept) \cup news
        /\ late' = {}
        /\ inbox' = inbox \cap kept
        /\ status' = Enqueued(Withdrawn(C), news)
        /\ inflight' = [c \in Contact |->
                         IF c \in chosen \ C THEN Cardinality(Sending(c)) ELSE inflight[c]]
        /\ UNCHANGED <<standing, friend, telling, events, attempts, stale, hands, faults>>

\* acceptFriendTx, an unblock or a lifted ban, with no regard to plans.
Befriend(c) ==
    /\ changes < MaxChanges /\ changes' = changes + 1
    /\ c \notin friend /\ friend' = friend \cup {c}
    /\ UNCHANGED <<standing, chosen, version, told, outbox, reach, hands, faults>>

\* removeFriendPG, a block or a ban: no copy is taken back.
Part(c) ==
    /\ changes < MaxChanges /\ changes' = changes + 1
    /\ c \in friend /\ friend' = friend \ {c}
    /\ UNCHANGED <<standing, chosen, version, told, outbox, reach, hands, faults>>

-----------------------------------------------------------------------------
(* The workers                                                             *)

Goto(w, p) == pc' = [pc EXCEPT ![w] = p]

\* claim, first statement, for a job whose thirty days are over: none is claimed
\* after that.
Sweep(j) ==
    /\ status[j] \in Waiting
    /\ status' = [status EXCEPT ![j] = "suppressed"]
    /\ UNCHANGED <<consent, attempts, stale, reach, hands, faults>>

\* claim, second statement
Claim(w, j) ==
    /\ pc[w] = "idle" /\ status[j] \in Waiting
    /\ status' = [status EXCEPT ![j] = "processing"]
    /\ attempts' = [attempts EXCEPT ![j] = @ + 1]
    /\ stale' = stale \ {j}
    /\ Goto(w, "check")
    /\ job' = [job EXCEPT ![w] = j] /\ mine' = [mine EXCEPT ![w] = attempts'[j]]
    /\ delivered' = delivered \ {w} /\ failed' = failed \ {w}
    /\ UNCHANGED <<consent, reach, left, faults>>

\* process returns finish: the devices that are left are given up.
Done(w) == Goto(w, "finish") /\ left' = [left EXCEPT ![w] = 0]

\* The devices of a recipient who takes pushes, or none.
ReadDevices(w) ==
    Goto(w, "recheck") /\ \E n \in 0 .. MaxDevices : left' = [left EXCEPT ![w] = n]

\* A statement of process fails, and may have taken effect.
Fail(w) ==
    /\ pc[w] \in {"check", "inapp", "recheck"}
    /\ Done(w) /\ failed' = failed \cup {w}
    /\ inbox' \in {inbox, IF pc[w] = "inapp" /\ Allowed(job[w])
                         THEN inbox \cup {job[w]} ELSE inbox}
    /\ UNCHANGED <<consent, outbox, inflight, job, mine, delivered, faults>>

\* planSharingAllowed, then recipientPolicy, which may say anything.
Check(w) ==
    /\ pc[w] = "check"
    /\ IF Allowed(job[w])
       THEN (Goto(w, "inapp") /\ UNCHANGED left) \/ ReadDevices(w)
       ELSE Done(w)
    /\ UNCHANGED <<consent, outbox, reach, job, mine, delivered, failed, faults>>

\* Mutant: createInApp relies on the check at the start of process.
AllowedBefore(w) == TRUE

AllowedNow(w) == Allowed(job[w])

\* createInApp: the recheck and the row under a lock on the plan.
CreateInApp(w) ==
    /\ pc[w] = "inapp"
    /\ \/ /\ AllowedNow(w)
          /\ inbox' = inbox \cup {job[w]}
          /\ delivered' = delivered \cup {w}
          /\ ReadDevices(w)
       \/ /\ ~AllowedNow(w)
          /\ Done(w)
          /\ UNCHANGED <<inbox, delivered>>
    /\ UNCHANGED <<consent, outbox, inflight, job, mine, failed, faults>>

\* Mutant: consent is rechecked once for all devices.
NextDeviceUnchecked(w) == IF left[w] = 0 THEN "finish" ELSE "send"

\* Mutant: the loop runs once past the last device.
NextDevicePastTheLast(w) == IF left[w] < 0 \/ ~Allowed(job[w]) THEN "finish" ELSE "send"

NextDevice(w) ==
    IF left[w] = 0 \/ ~Allowed(job[w]) THEN "finish" ELSE "send"

\* A withdrawal found here discards the errors of the devices before it.
Recheck(w) ==
    /\ pc[w] = "recheck"
    /\ IF NextDevice(w) = "send" THEN Goto(w, "send") /\ UNCHANGED left ELSE Done(w)
    /\ failed' = IF left[w] > 0 /\ ~Allowed(job[w]) THEN failed \ {w} ELSE failed
    /\ UNCHANGED <<consent, outbox, reach, job, mine, delivered, faults>>

\* The provider's answer is recorded, which may fail.  A transient refusal is
\* retried, a permanent one is not.
Send(w) ==
    /\ pc[w] = "send" /\ Goto(w, "recheck")
    /\ left' = [left EXCEPT ![w] = @ - 1]
    /\ \E sent, retry \in BOOLEAN :
          /\ delivered' = IF sent THEN delivered \cup {w} ELSE delivered
          /\ failed' = IF retry THEN failed \cup {w} ELSE failed
    /\ LET c == job[w][2] IN
          inflight' = IF c \in chosen THEN inflight ELSE [inflight EXCEPT ![c] = @ - 1]
    /\ UNCHANGED <<consent, outbox, inbox, job, mine, faults>>

Outcome(w) ==
    IF w \in failed
    THEN IF mine[w] >= MaxAttempts THEN "dead_letter" ELSE "retry"
    ELSE IF w \in delivered THEN "delivered" ELSE "suppressed"

Idle(w) ==
    /\ Goto(w, "idle")
    /\ job' = [job EXCEPT ![w] = Nothing] /\ mine' = [mine EXCEPT ![w] = 0]
    /\ left' = [left EXCEPT ![w] = 0]
    /\ delivered' = delivered \ {w} /\ failed' = failed \ {w}

\* finish: whatever the row has become since it was claimed.
Finish(w) ==
    /\ pc[w] = "finish"
    /\ status' = [status EXCEPT ![job[w]] = Outcome(w)]
    /\ stale' = stale \ {job[w]}
    /\ Idle(w)
    /\ UNCHANGED <<consent, attempts, reach, faults>>

\* The worker dies, or its last update fails: the row stays processing.
Lose(w) ==
    /\ pc[w] # "idle" /\ faults < MaxFaults
    /\ faults' = faults + 1
    /\ Idle(w)
    /\ UNCHANGED <<consent, outbox, reach>>

\* Two minutes pass for a job, which a slow worker may still hold.
GrowStale(j) ==
    /\ status[j] = "processing" /\ j \notin stale
    /\ stale' = stale \cup {j}
    /\ IF \E w \in Worker : job[w] = j
       THEN faults < MaxFaults /\ faults' = faults + 1
       ELSE UNCHANGED faults
    /\ UNCHANGED <<consent, status, attempts, reach, hands>>

\* Mutant: a start recovers nothing.
NothingToRecover == {}

Recoverable == {j \in stale : status[j] = "processing"}

\* recoverStale, when a server starts
Start ==
    /\ Recoverable # {}
    /\ status' = [j \in Job |-> IF j \in Recoverable THEN "retry" ELSE status[j]]
    /\ stale' = stale \ Recoverable
    /\ UNCHANGED <<consent, attempts, reach, hands, faults>>

Work(w) ==
    \/ \E j \in Job : Claim(w, j)
    \/ Check(w) \/ CreateInApp(w) \/ Recheck(w) \/ Send(w)
    \/ Finish(w)

Next ==
    \/ \E n \in FanOuts : BeginTelling(n)
    \/ \E t \in telling : Tell(t) \/ Abandon(t)
    \/ Start
    \/ \E C \in SUBSET Contact : UpdateSharing(C)
    \/ \E c \in Contact : Befriend(c) \/ Part(c)
    \/ \E w \in Worker : Work(w) \/ Fail(w) \/ Lose(w)
    \/ \E j \in Job : Sweep(j) \/ GrowStale(j)

Spec == Init /\ [][Next]_vars

\* Some worker runs, which is enough since none runs forever, and time passes.
\* Nothing makes a server start again.
FairSpec ==
    /\ Spec
    /\ WF_vars(\E w \in Worker : Work(w))
    /\ WF_vars(\E j \in Job : GrowStale(j))

-----------------------------------------------------------------------------
(* Properties                                                              *)

TypeOK ==
    /\ plan \in {"accepted", "cancelled"} \cap News /\ escalated \in BOOLEAN
    /\ checkin \in {"none"} \cup CheckIns
    /\ {chosen, friend} \subseteq SUBSET Contact
    /\ changes \in 0 .. MaxChanges /\ version \in 0 .. changes
    /\ faults \in 0 .. MaxFaults
    /\ telling \subseteq [news : FanOuts, version : Nat, to : SUBSET Contact]
    /\ events \subseteq [news : CheckIns, version : Nat, count : Nat]
    /\ {feed, late, stale, inbox} \subseteq SUBSET Job
    /\ status \in [Job -> {"absent"} \cup Open \cup Final]
    /\ attempts \in [Job -> Nat] /\ inflight \in [Contact -> Int]
    /\ pc \in [Worker -> {"idle", "check", "inapp", "recheck", "send",
                          "finish"}]
    /\ job \in [Worker -> Job \cup {Nothing}] /\ mine \in [Worker -> Nat]
    /\ left \in [Worker -> 0 .. MaxDevices]
    /\ {delivered, failed} \subseteq SUBSET Worker
    /\ \A w \in Worker : job[w] = Nothing <=> pc[w] = "idle"

\* The member's choice rules the server's copies, whatever workers had claimed
\* before it: a contact who is not chosen has no inbox row, and no feed row but
\* of a check-in, a sweep or a cancellation that had read the choice before it
\* was changed and committed after.
OnlyTheChosenKnow ==
    /\ \A j \in inbox : j[2] \in chosen
    /\ \A j \in feed \ late : j[2] \in chosen

\* A withdrawal stops the devices too: no more pushes go out to a contact who is
\* no longer chosen than were under way when the choice was made.
WithdrawalStopsPushes ==
    \A c \in Contact : inflight[c] >= 0

\* A member who asks for help is heard: the recipients their check-in reads have
\* a job to deliver, also when they had asked before and were safe in between.
HelpIsHeard ==
    [][\A t \in telling :
         (t.news = "need_help" /\ checkin # "need_help" /\ checkin' = "need_help")
           => \A c \in t.to : status'[<<"need_help", c>>] \in Open]_vars

\* What was enqueued settles, through crashes, lost updates and slow workers, if
\* servers start again: if it never happens that from some moment on jobs wait
\* to be recovered.  No job comes without a change, and their number is bounded.
EveryJobSettles ==
    []<>(Recoverable = {}) => []<>(\A j \in Job : status[j] \notin Open)
=============================================================================
