-------------------------- MODULE NotificationsProofs --------------------------
(***************************************************************************)
(* Proofs about Notifications, for every number of contacts, workers,      *)
(* devices, attempts, open transactions, changes of mind and faults: who   *)
(* is not chosen has no copy on the server but of a transaction that was   *)
(* open when they were withdrawn, and a withdrawal stops the pushes.       *)
(***************************************************************************)
EXTENDS Notifications, FiniteSetTheorems, TLAPS

\* A worker that is about to push has a device to push to.
TypeInv == TypeOK /\ \A w \in Worker : pc[w] = "send" => left[w] > 0

\* The number of contacts an open transaction tells.
LEMMA CountType ==
  ASSUME NEW C \in SUBSET Contact
  PROVE  Cardinality(C) \in Nat
  BY WorkerAssumption, FS_Subset, FS_CardinalityType

LEMMA InitTypes == Init => TypeInv
  <1> SUFFICES ASSUME Init PROVE TypeInv
    OBVIOUS
  <1>1. chosen \in SUBSET Contact
    BY DEF Init
  <1>2. Cardinality(chosen) \in Nat
    BY <1>1, CountType
  <1>3. PICK earlier \in {{}, CheckIns} :
          /\ checkin \in IF earlier = {} THEN {"none"} ELSE earlier
          /\ events = {[news |-> n, version |-> 0, count |-> Cardinality(chosen)]
                        : n \in earlier}
          /\ feed = ({"accepted"} \cup earlier) \X chosen
    BY DEF Init
  <1>4. /\ checkin \in {"none"} \cup CheckIns
        /\ events \subseteq [news : CheckIns, version : Nat, count : Nat]
    BY <1>2, <1>3
  <1>5. feed \subseteq Job
    BY <1>1, <1>3 DEF Job, News, CheckIns
  <1>6. /\ status \in [Job -> {"absent"} \cup Open \cup Final]
        /\ attempts \in [Job -> Nat]
    BY DEF Init, Final
  <1>7. /\ {feed, late, stale, inbox} \subseteq SUBSET Job
        /\ {chosen, friend} \subseteq SUBSET Contact
        /\ {delivered, failed} \subseteq SUBSET Worker
        /\ telling \subseteq [news : FanOuts, version : Nat, to : SUBSET Contact]
    BY <1>1, <1>5 DEF Init
  <1>8. /\ pc = [w \in Worker |-> "idle"] /\ job = [w \in Worker |-> Nothing]
        /\ mine = [w \in Worker |-> 0] /\ left = [w \in Worker |-> 0]
        /\ inflight = [c \in Contact |-> 0]
    BY DEF Init
  <1>9. /\ plan = "accepted" /\ escalated = FALSE
        /\ changes = 0 /\ version = 0 /\ faults = 0
    BY DEF Init
  <1>10. /\ plan \in {"accepted", "cancelled"} \cap News /\ escalated \in BOOLEAN
         /\ changes \in 0 .. MaxChanges /\ version \in 0 .. changes
         /\ faults \in 0 .. MaxFaults
    <2>1. MaxChanges \in Nat /\ MaxFaults \in Nat
      BY BoundAssumption
    <2>2. plan \in {"accepted", "cancelled"} \cap News /\ escalated \in BOOLEAN
      BY <1>9 DEF News
    <2>3. changes \in 0 .. MaxChanges /\ faults \in 0 .. MaxFaults
      BY <1>9, <2>1
    <2>4. version \in 0 .. changes
      BY <1>9
    <2> QED BY <2>2, <2>3, <2>4
  <1>11. TypeOK
    BY <1>4, <1>6, <1>7, <1>8, <1>10, BoundAssumption DEF TypeOK
  <1> QED
    BY <1>8, <1>11 DEF TypeInv

LEMMA ToldAreJobs ==
  ASSUME TypeOK, NEW t \in telling
  PROVE  Told(t) \subseteq Job
  BY DEF Told, Job, News, TypeOK

LEMMA NewsAreJobs ==
  ASSUME TypeOK, NEW C \in SUBSET Contact
  PROVE  {plan} \X Recipients(C) \subseteq Job
  BY DEF Recipients, Job, TypeOK

LEMMA EnqueuedTypes ==
  ASSUME NEW S, "pending" \in S, NEW old \in [Job -> S], NEW jobs
  PROVE  Enqueued(old, jobs) \in [Job -> S]
  BY DEF Enqueued

LEMMA IdleTypes ==
  ASSUME TypeInv, NEW w \in Worker, Idle(w)
  PROVE  /\ pc' \in [Worker -> {"idle", "check", "inapp", "recheck", "send", "finish"}]
         /\ job' \in [Worker -> Job \cup {Nothing}] /\ mine' \in [Worker -> Nat]
         /\ left' \in [Worker -> 0 .. MaxDevices]
         /\ {delivered', failed'} \subseteq SUBSET Worker
         /\ \A v \in Worker : job'[v] = Nothing <=> pc'[v] = "idle"
         /\ \A v \in Worker : pc'[v] = "send" => left'[v] > 0
  BY BoundAssumption DEF TypeInv, TypeOK, Idle, Goto

LEMMA StepTypes == TypeInv /\ [Next]_vars => TypeInv'
  <1> SUFFICES ASSUME TypeInv, [Next]_vars PROVE TypeInv'
    OBVIOUS
  <1> USE BoundAssumption DEF Open, Waiting, Final
  <1>1. ASSUME NEW t \in telling, Tell(t) PROVE TypeInv'
    <2>1. Told(t) \subseteq Job
      BY ToldAreJobs DEF TypeInv
    <2>2. status' \in [Job -> {"absent"} \cup Open \cup Final]
      BY <1>1, EnqueuedTypes DEF Tell, TypeInv, TypeOK
    <2>3. /\ t \in [news : FanOuts, version : Nat, to : SUBSET Contact]
          /\ Cardinality(t.to) \in Nat
      BY CountType DEF TypeInv, TypeOK
    <2>4. /\ checkin' \in {"none"} \cup CheckIns
          /\ events' \subseteq [news : CheckIns, version : Nat, count : Nat]
      BY <1>1, <2>3 DEF Tell, EventOf, TypeInv, TypeOK
    <2>5. plan' \in {"accepted", "cancelled"} \cap News /\ escalated' \in BOOLEAN
      BY <1>1, <2>3 DEF Tell, TypeInv, TypeOK, News
    <2>6. telling' \subseteq telling /\ {feed', late'} \subseteq SUBSET Job
      BY <1>1, <2>1 DEF Tell, TypeInv, TypeOK
    <2> QED BY <1>1, <2>2, <2>4, <2>5, <2>6 DEF Tell, TypeInv, TypeOK, choice, reach, hands
  <1>15. ASSUME NEW n \in FanOuts, BeginTelling(n) PROVE TypeInv'
    <2>1. telling' \subseteq [news : FanOuts, version : Nat, to : SUBSET Contact]
      BY <1>15 DEF BeginTelling, Recipients, TypeInv, TypeOK
    <2>2. changes' \in 0 .. MaxChanges /\ version' \in 0 .. changes'
      BY <1>15 DEF BeginTelling, TypeInv, TypeOK
    <2> QED BY <1>15, <2>1, <2>2
            DEF BeginTelling, TypeInv, TypeOK, standing, outbox, reach, hands
  <1>16. ASSUME NEW t \in telling, Abandon(t) PROVE TypeInv'
    BY <1>16 DEF Abandon, TypeInv, TypeOK, standing, choice, outbox, reach, hands
  <1>2. ASSUME NEW C \in SUBSET Contact, UpdateSharing(C) PROVE TypeInv'
    <2>1. {plan} \X Recipients(C) \subseteq Job
      BY NewsAreJobs DEF TypeInv
    <2>2. Withdrawn(C) \in [Job -> {"absent"} \cup Open \cup Final]
      BY DEF Withdrawn, TypeInv, TypeOK
    <2>3. status' \in [Job -> {"absent"} \cup Open \cup Final]
      BY <1>2, <2>2, EnqueuedTypes DEF UpdateSharing
    <2>4. inflight' \in [Contact -> Int]
      <3>1. \A c \in Contact : Cardinality(Sending(c)) \in Int
        BY WorkerAssumption, FS_Subset, FS_CardinalityType DEF Sending
      <3> QED BY <1>2, <3>1 DEF UpdateSharing, TypeInv, TypeOK
    <2>5. {feed', late', inbox'} \subseteq SUBSET Job
      BY <1>2, <2>1 DEF UpdateSharing, TypeInv, TypeOK
    <2>6. changes' \in 0 .. MaxChanges /\ version' \in 0 .. changes'
      BY <1>2 DEF UpdateSharing, TypeInv, TypeOK
    <2> QED BY <1>2, <2>3, <2>4, <2>5, <2>6
            DEF UpdateSharing, TypeInv, TypeOK, standing, hands
  <1>3. ASSUME NEW c \in Contact, Befriend(c) \/ Part(c) PROVE TypeInv'
    BY <1>3 DEF Befriend, Part, TypeInv, TypeOK, standing, told, outbox, reach, hands
  <1>4. ASSUME NEW w \in Worker, NEW j \in Job, Claim(w, j) PROVE TypeInv'
    BY <1>4, JobAssumption DEF Claim, Goto, TypeInv, TypeOK, consent, standing, choice, told, reach
  <1>5. ASSUME NEW w \in Worker, Fail(w) PROVE TypeInv'
    <2>1. inbox' \subseteq Job
      BY <1>5 DEF Fail, TypeInv, TypeOK
    <2> QED BY <1>5, <2>1, BoundAssumption
            DEF Fail, Done, Goto, TypeInv, TypeOK, consent, standing, choice, told, outbox
  <1>6. ASSUME NEW w \in Worker, Check(w) PROVE TypeInv'
    <2>1. /\ pc' \in [Worker -> {"idle", "check", "inapp", "recheck", "send", "finish"}]
          /\ left' \in [Worker -> 0 .. MaxDevices]
          /\ pc'[w] \in {"inapp", "recheck", "finish"}
          /\ \A v \in Worker \ {w} : pc'[v] = pc[v] /\ left'[v] = left[v]
      BY <1>6, BoundAssumption DEF Check, ReadDevices, Done, Goto, TypeInv, TypeOK
    <2> QED BY <1>6, <2>1
            DEF Check, TypeInv, TypeOK, consent, standing, choice, told, outbox, reach
  <1>7. ASSUME NEW w \in Worker, CreateInApp(w) PROVE TypeInv'
    <2>1. inbox' \subseteq Job
      BY <1>7 DEF CreateInApp, TypeInv, TypeOK
    <2>2. /\ pc' \in [Worker -> {"idle", "check", "inapp", "recheck", "send", "finish"}]
          /\ left' \in [Worker -> 0 .. MaxDevices]
          /\ pc'[w] \in {"recheck", "finish"}
          /\ \A v \in Worker \ {w} : pc'[v] = pc[v] /\ left'[v] = left[v]
      BY <1>7, BoundAssumption DEF CreateInApp, ReadDevices, Done, Goto, TypeInv, TypeOK
    <2> QED BY <1>7, <2>1, <2>2
            DEF CreateInApp, TypeInv, TypeOK, consent, standing, choice, told, outbox
  <1>8. ASSUME NEW w \in Worker, Recheck(w) PROVE TypeInv'
    BY <1>8, BoundAssumption
    DEF Recheck, NextDevice, Done, Goto, TypeInv, TypeOK, consent, standing, choice,
        told, outbox, reach
  <1>9. ASSUME NEW w \in Worker, Send(w) PROVE TypeInv'
    <2>1. /\ left' \in [Worker -> 0 .. MaxDevices]
          /\ pc' = [pc EXCEPT ![w] = "recheck"]
      BY <1>9 DEF Send, Goto, TypeInv, TypeOK
    <2>2. delivered' \subseteq Worker /\ failed' \subseteq Worker
      BY <1>9 DEF Send, TypeInv, TypeOK
    <2>3. inflight' \in [Contact -> Int]
      <3>1. \/ inflight' = inflight
            \/ inflight' = [inflight EXCEPT ![job[w][2]] = @ - 1]
        BY <1>9 DEF Send
      <3> QED BY <3>1 DEF TypeInv, TypeOK
    <2>4. \A v \in Worker : v # w => left'[v] = left[v] /\ pc'[v] = pc[v]
      BY <1>9, <2>1 DEF Send, TypeInv, TypeOK
    <2> QED BY <1>9, <2>1, <2>2, <2>3, <2>4
            DEF Send, TypeInv, TypeOK, consent, standing, choice, told, outbox
  <1>10. ASSUME NEW w \in Worker, Finish(w) PROVE TypeInv'
    <2>1. status' \in [Job -> {"absent"} \cup Open \cup Final]
      BY <1>10 DEF Finish, Outcome, TypeInv, TypeOK
    <2> QED BY <1>10, <2>1, IdleTypes DEF Finish, TypeInv, TypeOK, consent, standing, choice,
                                           told, reach
  <1>11. ASSUME NEW w \in Worker, Lose(w) PROVE TypeInv'
    BY <1>11, IdleTypes DEF Lose, TypeInv, TypeOK, consent, standing, choice, told,
                                outbox, reach
  <1>12. ASSUME NEW j \in Job, Sweep(j) \/ GrowStale(j) PROVE TypeInv'
    BY <1>12 DEF Sweep, GrowStale, TypeInv, TypeOK, consent, standing, choice, told,
                 reach, hands
  <1>13. CASE Start
    BY <1>13 DEF Start, Recoverable, TypeInv, TypeOK, consent, standing, choice, told,
                 reach, hands
  <1>14. CASE UNCHANGED vars
    BY <1>14 DEF vars, consent, standing, choice, told, outbox, reach, hands, TypeInv,
                 TypeOK
  <1> QED BY <1>1, <1>2, <1>3, <1>4, <1>5, <1>6, <1>7, <1>8, <1>9, <1>10, <1>11,
             <1>12, <1>13, <1>14, <1>15, <1>16 DEF Next, Work

\* The variables keep their types, for every value of the constants.
THEOREM TypesHold == Spec => []TypeOK
  <1>1. TypeInv => TypeOK
    BY DEF TypeInv
  <1> QED BY <1>1, InitTypes, StepTypes, PTL DEF Spec

-----------------------------------------------------------------------------
(* Nobody else's feed or inbox tells of the plan.                          *)

\* An open transaction that has read the latest choice tells only the chosen, and
\* none has read a choice to come.
ViewInv ==
    \A t \in telling : /\ t.version <= version
                       /\ t.version = version => t.to \subseteq chosen

LEMMA StepView == TypeOK /\ ViewInv /\ [Next]_vars => ViewInv'
  <1> SUFFICES ASSUME TypeOK, ViewInv, [Next]_vars PROVE ViewInv'
    OBVIOUS
  <1> USE DEF ViewInv
  <1>1. ASSUME NEW t \in telling, Tell(t) \/ Abandon(t) PROVE ViewInv'
    <2>1. telling' \subseteq telling /\ UNCHANGED <<version, chosen>>
      BY <1>1 DEF Tell, Abandon, choice
    <2> QED BY <2>1
  <1>2. ASSUME NEW n \in FanOuts, BeginTelling(n) PROVE ViewInv'
    <2>1. /\ telling' = telling \cup
               {[news |-> n, version |-> version, to |-> Recipients(chosen)]}
          /\ UNCHANGED <<version, chosen>>
      BY <1>2 DEF BeginTelling
    <2>2. version \in Nat /\ Recipients(chosen) \subseteq chosen
      BY DEF TypeOK, Recipients
    <2> QED BY <2>1, <2>2
  <1>3. ASSUME NEW C \in SUBSET Contact, UpdateSharing(C) PROVE ViewInv'
    <2>1. UNCHANGED telling /\ version' = version + 1
      BY <1>3 DEF UpdateSharing
    <2>2. version \in Nat /\ \A t \in telling : t.version \in Nat
      BY DEF TypeOK
    <2> QED BY <2>1, <2>2
  <1>4. ASSUME UNCHANGED <<telling, version, chosen>> PROVE ViewInv'
    BY <1>4
  <1>5. ASSUME NEW c \in Contact, Befriend(c) \/ Part(c)
        PROVE  UNCHANGED <<telling, version, chosen>>
    BY <1>5 DEF Befriend, Part, told
  <1>6. ASSUME NEW w \in Worker, Work(w) \/ Fail(w) \/ Lose(w)
        PROVE  UNCHANGED consent
    BY <1>6 DEF Work, Claim, Check, CreateInApp, Recheck, Send, Finish, Fail, Lose
  <1>7. ASSUME NEW j \in Job, Sweep(j) \/ GrowStale(j) PROVE UNCHANGED consent
    BY <1>7 DEF Sweep, GrowStale
  <1>8. Start \/ UNCHANGED vars => UNCHANGED consent
    BY DEF Start, vars
  <1>9. UNCHANGED consent => UNCHANGED <<telling, version, chosen>>
    BY DEF consent, choice, told
  <1> QED BY <1>1, <1>2, <1>3, <1>4, <1>5, <1>6, <1>7, <1>8, <1>9 DEF Next

LEMMA StepConsent ==
  TypeOK /\ ViewInv /\ OnlyTheChosenKnow /\ [Next]_vars => OnlyTheChosenKnow'
  <1> SUFFICES ASSUME TypeOK, ViewInv, OnlyTheChosenKnow, [Next]_vars
               PROVE  OnlyTheChosenKnow'
    OBVIOUS
  <1> USE DEF OnlyTheChosenKnow
  <1>1. ASSUME NEW t \in telling, Tell(t) PROVE OnlyTheChosenKnow'
    <2>1. /\ feed' = feed \cup Told(t) /\ UNCHANGED <<inbox, chosen>>
          /\ late' = IF t.version < version THEN late \cup Told(t) ELSE late
      BY <1>1 DEF Tell, choice, reach
    <2>2. CASE t.version < version
      BY <2>1, <2>2
    <2>3. CASE ~(t.version < version)
      <3>1. t.version = version
        BY <2>3 DEF ViewInv, TypeOK
      <3>2. \A j \in Told(t) : j[2] \in chosen
        BY <3>1 DEF ViewInv, Told
      <3> QED BY <2>1, <2>3, <3>2
    <2> QED BY <2>2, <2>3
  <1>2. ASSUME NEW C \in SUBSET Contact, UpdateSharing(C) PROVE OnlyTheChosenKnow'
    <2>1. \A j \in {plan} \X Recipients(C) : j[2] \in C
      BY DEF Recipients
    <2>2. \A j \in Job : j[2] \in Recipients(C) => j[2] \in C
      BY DEF Recipients
    <2> QED BY <1>2, <2>1, <2>2 DEF UpdateSharing
  <1>3. ASSUME NEW w \in Worker, Fail(w) \/ CreateInApp(w) PROVE OnlyTheChosenKnow'
    <2>1. UNCHANGED <<feed, late, chosen>>
      BY <1>3 DEF Fail, CreateInApp, consent, choice, told
    <2>2. inbox' = inbox \/ (inbox' = inbox \cup {job[w]} /\ Allowed(job[w]))
      BY <1>3 DEF Fail, CreateInApp, AllowedNow
    <2> QED BY <2>1, <2>2 DEF Allowed, Recipients
  <1>4. ASSUME UNCHANGED <<feed, late, inbox, chosen>> PROVE OnlyTheChosenKnow'
    BY <1>4
  <1>5. ASSUME (\E n \in FanOuts : BeginTelling(n)) \/ (\E t \in telling : Abandon(t))
               \/ \E c \in Contact : Befriend(c) \/ Part(c)
        PROVE  UNCHANGED <<feed, late, inbox, chosen>>
    BY <1>5 DEF BeginTelling, Abandon, Befriend, Part, choice, told, reach
  <1>6. ASSUME NEW w \in Worker, Work(w), ~CreateInApp(w)
        PROVE  UNCHANGED <<consent, inbox>>
    BY <1>6 DEF Work, Claim, Check, Recheck, Send, Finish, reach
  <1>7. ASSUME NEW w \in Worker, Lose(w) PROVE UNCHANGED <<consent, inbox>>
    BY <1>7 DEF Lose, reach
  <1>8. ASSUME NEW j \in Job, Sweep(j) \/ GrowStale(j)
        PROVE  UNCHANGED <<consent, inbox>>
    BY <1>8 DEF Sweep, GrowStale, reach
  <1>9. Start \/ UNCHANGED vars => UNCHANGED <<consent, inbox>>
    BY DEF Start, vars, reach
  <1>10. UNCHANGED <<consent, inbox>> => UNCHANGED <<feed, late, inbox, chosen>>
    BY DEF consent, choice, told
  <1> QED BY <1>1, <1>2, <1>3, <1>4, <1>5, <1>6, <1>7, <1>8, <1>9, <1>10 DEF Next

\* Whatever the workers had claimed, and whoever the open transactions had read,
\* before the member changed the choice: who is not chosen has no inbox row, and
\* no feed row but of such a transaction.
THEOREM ConsentRules == Spec => []OnlyTheChosenKnow
  <1>1. Init => ViewInv /\ OnlyTheChosenKnow
    BY DEF Init, OnlyTheChosenKnow, ViewInv
  <1>2. TypeInv => TypeOK
    BY DEF TypeInv
  <1> QED BY <1>1, <1>2, InitTypes, StepTypes, StepView, StepConsent, PTL DEF Spec

-----------------------------------------------------------------------------
(* The devices fall silent.                                                *)

\* The pushes under way to a contact who is not chosen were under way when the
\* contact was withdrawn: each that ends is counted, and none starts.
PushInv ==
    \A c \in Contact : IF c \in chosen THEN inflight[c] >= 0
                       ELSE Cardinality(Sending(c)) <= inflight[c]

LEMMA FiniteSending ==
  ASSUME NEW c PROVE IsFiniteSet(Sending(c)) /\ Cardinality(Sending(c)) \in Nat
  BY WorkerAssumption, FS_Subset, FS_CardinalityType DEF Sending

\* A step that starts no push to the contacts who are not chosen.
LEMMA FewerPushes ==
  ASSUME PushInv, UNCHANGED <<chosen, inflight>>, TypeOK,
         \A c \in Contact \ chosen : Sending(c)' \subseteq Sending(c)
  PROVE  PushInv'
  <1> SUFFICES ASSUME NEW c \in Contact
               PROVE  IF c \in chosen THEN inflight[c] >= 0
                      ELSE Cardinality(Sending(c)') <= inflight[c]
    BY DEF PushInv
  <1>1. CASE c \in chosen
    BY <1>1 DEF PushInv
  <1>2. CASE c \notin chosen
    <2>1. Cardinality(Sending(c)') <= Cardinality(Sending(c))
          /\ Cardinality(Sending(c)') \in Nat /\ Cardinality(Sending(c)) \in Nat
      <3>1. Sending(c)' \in SUBSET Sending(c)
        BY <1>2
      <3> HIDE DEF Sending
      <3> QED BY <3>1, FiniteSending, FS_Subset, FS_CardinalityType
    <2> QED BY <1>2, <2>1 DEF PushInv, TypeOK
  <1> QED BY <1>1, <1>2

LEMMA StepPushes == TypeInv /\ PushInv /\ [Next]_vars => PushInv'
  <1> SUFFICES ASSUME TypeOK, PushInv, [Next]_vars PROVE PushInv'
    BY DEF TypeInv
  <1>1. ASSUME NEW C \in SUBSET Contact, UpdateSharing(C) PROVE PushInv'
    <2>1. \A c : Sending(c)' = Sending(c)
      BY <1>1 DEF UpdateSharing, Sending, hands
    <2>2. \A c \in Contact : Cardinality(Sending(c)) \in Nat
      BY FiniteSending
    <2> SUFFICES ASSUME NEW c \in Contact
                 PROVE  IF c \in C THEN inflight'[c] >= 0
                        ELSE Cardinality(Sending(c)) <= inflight'[c]
      BY <1>1, <2>1 DEF PushInv, UpdateSharing
    <2>3. inflight'[c] = IF c \in chosen \ C THEN Cardinality(Sending(c))
                         ELSE inflight[c]
      BY <1>1 DEF UpdateSharing
    <2>4. inflight[c] \in Int
      BY DEF TypeOK
    <2> HIDE DEF Sending
    <2> QED BY <2>2, <2>3, <2>4 DEF PushInv
  <1>2. ASSUME NEW w \in Worker, Send(w) PROVE PushInv'
    <2> DEFINE d == job[w][2]
    <2>1. /\ \A c : Sending(c)' = Sending(c) \ {w}
          /\ chosen' = chosen /\ w \in Sending(d)
      BY <1>2 DEF Send, Goto, Sending, consent, choice, TypeOK
    <2>2. d \in Contact
      BY <1>2 DEF Send, TypeOK, Job
    <2> SUFFICES ASSUME NEW c \in Contact
                 PROVE  IF c \in chosen THEN inflight'[c] >= 0
                        ELSE Cardinality(Sending(c) \ {w}) <= inflight'[c]
      BY <2>1 DEF PushInv
    <2>3. /\ Cardinality(Sending(c) \ {w}) =
               IF w \in Sending(c) THEN Cardinality(Sending(c)) - 1
               ELSE Cardinality(Sending(c))
          /\ Cardinality(Sending(c)) \in Nat
      BY FiniteSending, FS_RemoveElement
    <2>4. inflight'[c] = IF c = d /\ d \notin chosen THEN inflight[c] - 1
                         ELSE inflight[c]
      <3>1. inflight' = IF d \in chosen THEN inflight
                        ELSE [inflight EXCEPT ![d] = inflight[d] - 1]
        BY <1>2 DEF Send
      <3> HIDE DEF d
      <3> QED BY <2>2, <3>1 DEF TypeOK
    <2>5. inflight[c] \in Int
      BY DEF TypeOK
    <2>6. w \in Sending(d)
      BY <2>1
    <2> HIDE DEF d, Sending
    <2> QED BY <2>3, <2>4, <2>5, <2>6 DEF PushInv
  <1>3. ASSUME NEW w \in Worker, Recheck(w) PROVE PushInv'
    <2>1. UNCHANGED <<chosen, inflight, job>> /\ pc' = [pc EXCEPT ![w] = NextDevice(w)]
      BY <1>3 DEF Recheck, NextDevice, Done, Goto, consent, choice, reach
    <2>2. NextDevice(w) = "send" => job[w][2] \in chosen
      BY DEF NextDevice, Allowed, Recipients
    <2>3. \A c \in Contact \ chosen : Sending(c)' \subseteq Sending(c)
      BY <2>1, <2>2 DEF Sending, TypeOK
    <2> QED BY <2>1, <2>3, FewerPushes
  <1>4. ASSUME NEW w \in Worker,
               Work(w) \/ Fail(w) \/ Lose(w), ~Send(w), ~Recheck(w)
        PROVE  PushInv'
    <2>1. UNCHANGED <<chosen, inflight>>
      BY <1>4 DEF Work, Claim, Check, CreateInApp, Finish, Fail, Lose, consent, choice,
                  reach
    <2>2. PICK p : p # "send" /\ pc' = [pc EXCEPT ![w] = p]
      BY <1>4 DEF Work, Claim, Check, CreateInApp, Finish, Fail, Lose, Idle, Goto, Done,
                  ReadDevices
    <2>3. \A v \in Worker : v # w => job'[v] = job[v]
      BY <1>4 DEF Work, Claim, Check, CreateInApp, Finish, Fail, Lose, Idle, TypeOK
    <2>4. \A c : Sending(c)' \subseteq Sending(c)
      BY <2>2, <2>3 DEF Sending, TypeOK
    <2> QED BY <2>1, <2>4, FewerPushes
  <1>5. ASSUME UNCHANGED <<chosen, inflight, pc, job>> PROVE PushInv'
    <2>1. \A c : Sending(c)' = Sending(c)
      BY <1>5 DEF Sending
    <2> QED BY <1>5, <2>1, FewerPushes
  <1>6. ASSUME (\E n \in FanOuts : BeginTelling(n))
               \/ \E t \in telling : Tell(t) \/ Abandon(t)
        PROVE  UNCHANGED <<chosen, inflight, pc, job>>
    BY <1>6 DEF BeginTelling, Tell, Abandon, choice, reach, hands
  <1>7. ASSUME NEW c \in Contact, Befriend(c) \/ Part(c)
        PROVE  UNCHANGED <<chosen, inflight, pc, job>>
    BY <1>7 DEF Befriend, Part, reach, hands
  <1>8. ASSUME NEW j \in Job, Sweep(j) \/ GrowStale(j)
        PROVE  UNCHANGED <<chosen, inflight, pc, job>>
    BY <1>8 DEF Sweep, GrowStale, consent, choice, reach, hands
  <1>9. Start \/ UNCHANGED vars => UNCHANGED <<chosen, inflight, pc, job>>
    BY DEF Start, vars, consent, choice, reach, hands
  <1> QED BY <1>1, <1>2, <1>3, <1>4, <1>5, <1>6, <1>7, <1>8, <1>9 DEF Next

\* No more pushes reach a contact who was withdrawn than were with the provider
\* at that moment, for any number of workers and devices.
THEOREM DevicesFallSilent == Spec => []WithdrawalStopsPushes
  <1>1. Init => PushInv
    <2> SUFFICES ASSUME Init PROVE PushInv
      OBVIOUS
    <2>1. \A c \in Contact : inflight[c] = 0
      BY DEF Init
    <2>2. \A c \in Contact : Sending(c) = {}
      BY DEF Init, Sending
    <2>3. Cardinality({}) = 0
      BY FS_EmptySet
    <2> HIDE DEF Sending
    <2> QED BY <2>1, <2>2, <2>3 DEF PushInv
  <1>2. TypeInv /\ PushInv => WithdrawalStopsPushes
    <2> SUFFICES ASSUME TypeOK, PushInv, NEW c \in Contact PROVE inflight[c] >= 0
      BY DEF TypeInv, WithdrawalStopsPushes
    <2>1. Cardinality(Sending(c)) \in Nat /\ inflight[c] \in Int
      BY FiniteSending DEF TypeOK
    <2> QED BY <2>1 DEF PushInv
  <1> QED BY <1>1, <1>2, InitTypes, StepTypes, StepPushes, PTL DEF Spec
=============================================================================
