---------------------------- MODULE XPAwardsProofs ----------------------------
(***************************************************************************)
(* Proofs about XPAwards, for every set of awards, calls and workers, and  *)
(* any number of failures of any kind a theorem does not exclude.          *)
(***************************************************************************)
EXTENDS XPAwards, TLAPS

-----------------------------------------------------------------------------
(* Rows and tables.                                                        *)

Table == [Award -> Row]

\* What the statements do to one row: none of them deletes it.
LEMMA RowOps ==
  ASSUME NEW r \in Row
  PROVE  /\ Requeue(r) \in Row /\ Requeue(r).status # "none"
         /\ Requeue(r).status = "completed" => r.status = "completed"
         /\ AfterFailure(r) \in Row
         /\ AfterFailure(r).status \in {"retry", "dead_letter"}
         /\ \A v \in Verdict : Finished(r, v) \in Row
         /\ \A v \in Verdict \ {"none"} : Finished(r, v).status # "none"
         /\ \A v \in Verdict :
              Finished(r, v).status = "completed" => v = "completed"
  BY AttemptAssumption DEF Requeue, AfterFailure, Finished, Verdict, Row, Status

\* What they do to a table: a row stays a row, and only the workers' and the
\* calls' own updates complete one.
LEMMA TableOps ==
  ASSUME NEW t \in Table, NEW a \in Award, NEW b \in BOOLEAN
  PROVE  /\ Inserted(t, a, b) \in Table
         /\ Inserted(t, a, b)[a].status # "none"
         /\ \A c \in Award : /\ t[c].status # "none" =>
                                  Inserted(t, a, b)[c].status # "none"
                             /\ Inserted(t, a, b)[c].status = "completed" =>
                                  t[c].status = "completed"
                             /\ c # a => Inserted(t, a, b)[c] = t[c]
  BY DEF Inserted, Table, Row, Status

LEMMA ClaimedOps ==
  ASSUME NEW t \in Table
  PROVE  /\ Claimed(t) \in Table
         /\ Due(t) \subseteq Award
         /\ \A c \in Award : /\ c \in Due(t) => t[c].status # "none"
                             /\ t[c].status # "none" <=>
                                  Claimed(t)[c].status # "none"
                             /\ Claimed(t)[c].status = "completed" =>
                                  t[c].status = "completed"
  BY DEF Claimed, Due, Recovered, Table, Row, Status

LEMMA EnqueuedOps ==
  ASSUME queue \in Table, NEW S \in SUBSET Award
  PROVE  /\ Enqueued(S) \in Table
         /\ \A c \in Award : /\ c \in S => Enqueued(S)[c].status # "none"
                             /\ queue[c].status # "none" =>
                                  Enqueued(S)[c].status # "none"
                             /\ Enqueued(S)[c].status = "completed" =>
                                  queue[c].status = "completed"
  BY RowOps DEF Enqueued, Table

-----------------------------------------------------------------------------
(* Types.                                                                  *)

LEMMA InitType == Init => TypeOK
  <1>1. NoRow \in Row
    BY DEF NoRow, Row, Status
  <1>2. Init => queue \in [Award -> Row] /\ outbox \in [Award -> Row]
    BY <1>1 DEF Init
  <1>3. Init => /\ pc \in [Call -> Stage]
                /\ wpc \in [Worker -> WStage]
                /\ batch \in [Worker -> SUBSET Award]
                /\ item \in [Worker -> Award \cup {NoAward}]
                /\ verdict \in [Worker -> Verdict]
                /\ sum \in [Worker -> SUBSET Award]
    BY DEF Init, Stage, WStage, Verdict
  <1>4. Init => torn \in BOOLEAN /\ up \in BOOLEAN
    BY Zenon DEF Init
  <1>5. Init => /\ ledger \subseteq Award /\ projected \subseteq Award
                /\ spool \subseteq Award /\ recorded \subseteq Award
                /\ faults \in Nat
    BY DEF Init
  <1> QED
    BY <1>2, <1>3, <1>4, <1>5, Zenon DEF TypeOK

\* What a worker holds keeps its type.
WorkerType ==
    /\ wpc \in [Worker -> WStage]
    /\ batch \in [Worker -> SUBSET Award]
    /\ item \in [Worker -> Award \cup {NoAward}]
    /\ verdict \in [Worker -> Verdict]
    /\ sum \in [Worker -> SUBSET Award]

LEMMA TakeType ==
  ASSUME WorkerType, NEW w \in Worker, NEW S \in SUBSET Award,
         NEW s \in WStage, Take(w, S, s)
  PROVE  WorkerType'
  BY DEF WorkerType, Take

LEMMA InHandType ==
  ASSUME WorkerType, NEW w \in Worker, NEW a \in Award, NEW v \in Verdict,
         NEW s \in WStage, InHand(w, a, v, s)
  PROVE  WorkerType'
  BY DEF WorkerType, InHand

LEMMA PutDownType ==
  ASSUME WorkerType, NEW w \in Worker, NEW a, NEW s \in WStage, PutDown(w, a, s)
  PROVE  WorkerType'
  BY DEF WorkerType, PutDown, WStage, Verdict

\* Every step keeps the types.
LEMMA TypeStep == TypeOK /\ [Next]_vars => TypeOK'
  <1> USE AwardAssumption
  <1> SUFFICES ASSUME TypeOK, [Next]_vars PROVE TypeOK'
    OBVIOUS
  <1>0. /\ queue \in Table /\ outbox \in Table /\ WorkerType
        /\ \A x : Fault(x) => faults' \in Nat
        /\ \A k \in Call, p \in Stage : Goto(k, p) => pc' \in [Call -> Stage]
        /\ WorkerType' <=> /\ wpc' \in [Worker -> WStage]
                           /\ batch' \in [Worker -> SUBSET Award]
                           /\ item' \in [Worker -> Award \cup {NoAward}]
                           /\ verdict' \in [Worker -> Verdict]
                           /\ sum' \in [Worker -> SUBSET Award]
        /\ UNCHANGED worker => WorkerType'
    BY DEF TypeOK, Table, WorkerType, Fault, Goto, worker
  <1>1. ASSUME NEW a \in Award, Grant(a)
        PROVE  ledger' \in SUBSET Award /\ outbox' \in Table
    BY <1>0, <1>1, TableOps DEF Grant, TypeOK
  <1>2. ASSUME NEW k \in Call, WriteIntent(k) PROVE TypeOK'
    <2>1. Inserted(queue, AwardOf[k], FALSE) \in Table
      BY <1>0, TableOps
    <2> QED
      BY <1>0, <1>2, <2>1
      DEF WriteIntent, Unreachable, TypeOK, Table, WorkerType, file, worker, Stage
  <1>3. ASSUME NEW k \in Call, SpoolAppend(k) PROVE TypeOK'
    BY <1>0, <1>3
    DEF SpoolAppend, LinesAppended, TypeOK, WorkerType, tables, worker, Stage
  <1>4. ASSUME NEW k \in Call, CheckFlag(k) PROVE TypeOK'
    BY <1>0, <1>4
    DEF CheckFlag, Unreachable, TypeOK, WorkerType, tables, file, worker, Stage
  <1>5. ASSUME NEW k \in Call, DirectAward(k) PROVE TypeOK'
    BY <1>0, <1>1, <1>5
    DEF DirectAward, Unreachable, TypeOK, Table, WorkerType, file, worker, Stage
  <1>6. ASSUME NEW k \in Call, CloseIntent(k) PROVE TypeOK'
    <2>1. ASSUME NEW r \in Row, NEW s \in {"completed", "suppressed"}
          PROVE  [r EXCEPT !.status = s, !.ripe = FALSE] \in Row
      BY DEF Row, Status
    <2>2. AwardOf[k] \in Award
      OBVIOUS
    <2>3. \A s \in {"completed", "suppressed"} :
            [queue EXCEPT ![AwardOf[k]] =
               IF Closable(@) THEN [@ EXCEPT !.status = s, !.ripe = FALSE]
                              ELSE @] \in Table
      BY <1>0, <2>1, <2>2 DEF Table
    <2>4. queue' \in Table
      BY <1>0, <1>6, <2>3 DEF CloseIntent
    <2> QED
      BY <1>0, <1>6, <2>4
      DEF CloseIntent, Unreachable, TypeOK, Table, WorkerType, file, worker, Stage
  <1>7. ASSUME NEW k \in Call, EnqueueRepair(k) PROVE TypeOK'
    <2>1. Enqueued({AwardOf[k]}) \in Table
      BY <1>0, EnqueuedOps
    <2> QED
      BY <1>0, <1>7, <2>1
      DEF EnqueueRepair, Unreachable, TypeOK, Table, WorkerType, file, worker, Stage
  <1>8. ASSUME NEW k \in Call, CallDies(k) PROVE TypeOK'
    BY <1>0, <1>8 DEF CallDies, TypeOK, WorkerType, tables, worker, Stage
  <1>9. ASSUME NEW a \in Award, QueueReward(a) PROVE TypeOK'
    BY <1>0, <1>9, TableOps
    DEF QueueReward, TypeOK, Table, WorkerType, file, worker
  <1>10. CASE Replay
    <2>1. PICK failed \in SUBSET spool :
            /\ queue' = Enqueued(spool \ failed) /\ spool' = failed
            /\ faults' \in Nat
      BY <1>0, <1>10 DEF Replay, LinesKept, TypeOK
    <2>2. Enqueued(spool \ failed) \in Table
      BY <1>0, EnqueuedOps DEF TypeOK
    <2> QED
      BY <1>0, <1>10, <2>1, <2>2 DEF Replay, TypeOK, Table, WorkerType, worker
  <1>11. CASE ReplayInterrupted
    <2>1. PICK done \in SUBSET spool : queue' = Enqueued(done)
      BY <1>11 DEF ReplayInterrupted
    <2>2. Enqueued(done) \in Table
      BY <1>0, EnqueuedOps DEF TypeOK
    <2> QED
      BY <1>0, <1>11, <2>1, <2>2
      DEF ReplayInterrupted, TypeOK, Table, WorkerType, file, worker
  <1>12. ASSUME NEW w \in Worker, ClaimAwards(w) PROVE TypeOK'
    <2>1. Claimed(queue) \in Table /\ Due(queue) \in SUBSET Award
      BY <1>0, ClaimedOps
    <2>2. WorkerType'
      BY <1>0, <1>12, <2>1, TakeType DEF ClaimAwards, WStage
    <2> QED
      BY <1>0, <1>12, <2>1, <2>2
      DEF ClaimAwards, TypeOK, Table, file
  <1>13. ASSUME NEW w \in Worker, ClaimLevels(w) PROVE TypeOK'
    <2>1. Claimed(outbox) \in Table /\ Due(outbox) \in SUBSET Award
      BY <1>0, ClaimedOps
    <2>2. WorkerType'
      BY <1>0, <1>13, <2>1, TakeType DEF ClaimLevels, WStage
    <2> QED
      BY <1>0, <1>13, <2>1, <2>2
      DEF ClaimLevels, TypeOK, Table, file
  <1>14. ASSUME NEW w \in Worker, RepairAward(w) PROVE TypeOK'
    <2>1. PICK a \in batch[w], v \in Verdict : InHand(w, a, v, "finish")
      BY <1>14 DEF RepairAward, Verdict
    <2>2. WorkerType'
      BY <1>0, <2>1, InHandType DEF WorkerType, WStage
    <2>3. ledger' \in SUBSET Award /\ outbox' \in Table /\ faults' \in Nat
      BY <1>0, <1>1, <1>14 DEF RepairAward, Unreachable, TypeOK, Table, WorkerType
    <2> QED
      BY <1>0, <1>14, <2>2, <2>3 DEF RepairAward, TypeOK, Table, file
  <1>15. ASSUME NEW w \in Worker, FinishRepair(w) PROVE TypeOK'
    <2>1. WorkerType'
      BY <1>0, <1>15, PutDownType DEF FinishRepair, WStage
    <2>2. \A a \in Award : Finished(queue[a], verdict[w]) \in Row
      BY <1>0, RowOps DEF Table, WorkerType
    <2>3. queue' \in Table
      BY <1>0, <1>15, <2>2 DEF FinishRepair, Table
    <2> QED
      BY <1>0, <1>15, <2>1, <2>3
      DEF FinishRepair, Unreachable, TypeOK, Table, file
  <1>16. ASSUME NEW w \in Worker, ProjectUser(w) PROVE TypeOK'
    <2>1. PutDown(w, item[w], "project") \/ InHand(w, item[w], "failed", "postpone")
      BY <1>16 DEF ProjectUser
    <2>2. WorkerType'
      <3>1. CASE PutDown(w, item[w], "project")
        BY <1>0, <3>1, PutDownType DEF WStage
      <3>2. CASE InHand(w, item[w], "failed", "postpone")
        BY <1>0, <3>2 DEF InHand, WorkerType, WStage, Verdict
      <3> QED BY <2>1, <3>1, <3>2
    <2>3. ASSUME Project(w)
          PROVE  projected' \in SUBSET Award /\ outbox' \in Table
      BY <1>0, <2>3 DEF Project, Table, Row, Status, WorkerType
    <2>4. projected' \in SUBSET Award /\ outbox' \in Table /\ faults' \in Nat
      BY <1>0, <1>16, <2>3 DEF ProjectUser, Unreachable, TypeOK, Table
    <2> QED
      BY <1>0, <1>16, <2>2, <2>4 DEF ProjectUser, TypeOK, Table, file
  <1>22. ASSUME NEW w \in Worker, SumLedger(w) PROVE TypeOK'
    <2>1. PICK a \in batch[w] :
            \/ /\ UNCHANGED <<batch, verdict, faults>>
               /\ wpc' = [wpc EXCEPT ![w] = "level"]
               /\ item' = [item EXCEPT ![w] = a]
               /\ sum' = [sum EXCEPT ![w] = ledger]
            \/ InHand(w, a, "failed", "postpone")
      BY <1>22 DEF SumLedger
    <2>2. WorkerType'
      <3>1. a \in Award /\ ledger \in SUBSET Award
        BY <1>0 DEF WorkerType, TypeOK
      <3>2. CASE InHand(w, a, "failed", "postpone")
        <4>1. "failed" \in Verdict /\ "postpone" \in WStage
          BY DEF Verdict, WStage
        <4> QED BY <1>0, <3>1, <3>2, <4>1, InHandType
      <3>3. CASE /\ UNCHANGED <<batch, verdict, faults>>
                 /\ wpc' = [wpc EXCEPT ![w] = "level"]
                 /\ item' = [item EXCEPT ![w] = a]
                 /\ sum' = [sum EXCEPT ![w] = ledger]
        <4>1. "level" \in WStage
          BY DEF WStage
        <4> QED BY <1>0, <3>1, <3>3, <4>1 DEF WorkerType
      <3> QED BY <2>1, <3>2, <3>3
    <2>3. faults' \in Nat
      BY <1>0, <1>22 DEF SumLedger, Unreachable, TypeOK
    <2> QED
      BY <1>0, <1>22, <2>2, <2>3 DEF SumLedger, TypeOK, tables, file
  <1>17. ASSUME NEW w \in Worker, Postpone(w) PROVE TypeOK'
    <2>1. WorkerType'
      BY <1>0, <1>17, PutDownType DEF Postpone, WStage
    <2>2. outbox' \in Table
      BY <1>0, <1>17, RowOps DEF Postpone, Table, WorkerType
    <2> QED
      BY <1>0, <1>17, <2>1, <2>2
      DEF Postpone, Unreachable, TypeOK, Table, file
  <1>18. ASSUME NEW w \in Worker, WorkerDies(w) PROVE TypeOK'
    BY <1>0, <1>18
    DEF WorkerDies, TypeOK, WorkerType, tables, file, WStage, Verdict
  <1>19. ASSUME NEW a \in Award,
                RipenAward(a) \/ RipenLevel(a) \/ StallPastLease(a)
         PROVE  TypeOK'
    <2>1. ASSUME NEW u \in Table PROVE [u EXCEPT ![a].ripe = TRUE] \in Table
      BY DEF Table, Row
    <2>2. queue' \in Table /\ outbox' \in Table
      BY <1>0, <1>19, <2>1 DEF RipenAward, RipenLevel, StallPastLease
    <2>3. /\ UNCHANGED <<ledger, projected, file, up, pc, worker, recorded>>
          /\ faults' \in Nat
      BY <1>0, <1>19 DEF RipenAward, RipenLevel, StallPastLease, TypeOK
    <2> QED
      BY <1>0, <2>2, <2>3 DEF TypeOK, Table, WorkerType, file, worker
  <1>20. CASE Outage \/ DatabaseBack
    BY <1>0, <1>20
    DEF Outage, DatabaseBack, TypeOK, WorkerType, tables, file, worker
  <1>21. CASE UNCHANGED vars
    BY <1>21 DEF vars, TypeOK, tables, file, worker
  <1> QED
    BY <1>2, <1>3, <1>4, <1>5, <1>6, <1>7, <1>8, <1>9, <1>10, <1>11, <1>12,
       <1>13, <1>14, <1>15, <1>16, <1>17, <1>18, <1>19, <1>20, <1>21, <1>22
    DEF Next, Runs, Works

\* Every variable keeps its type.
THEOREM TypeCorrect == Spec => []TypeOK
  BY InitType, TypeStep, PTL DEF Spec

-----------------------------------------------------------------------------
(* Nothing recorded is lost.                                               *)

\* Without a torn write the spool file always ends at the end of a line, and a
\* recorded award has its row or its line.  Verdicts are written only once
\* there is one: a finish never writes an empty status.
KeptInv ==
    /\ TypeOK
    /\ torn = FALSE
    /\ NeverLost
    /\ \A w \in Worker : wpc[w] = "finish" => verdict[w] # "none"

\* Rows are never deleted, and what leaves the spool file has a row.
LEMMA KeptFrame ==
  ASSUME KeptInv, TypeOK', torn' = FALSE, recorded' = recorded,
         \A a \in Award : queue[a].status # "none" => queue'[a].status # "none",
         \A a \in spool : a \in spool' \/ queue'[a].status # "none",
         \A w \in Worker : wpc'[w] = "finish" => verdict'[w] # "none"
  PROVE  KeptInv'
  BY DEF KeptInv, NeverLost, TypeOK

\* Every step keeps it, as long as appends are not torn.
LEMMA KeptStep ==
  ASSUME "tear" \notin Faults
  PROVE  KeptInv /\ [Next]_vars => KeptInv'
  <1> USE AwardAssumption
  <1> SUFFICES ASSUME KeptInv, [Next]_vars PROVE KeptInv'
    OBVIOUS
  <1>0. TypeOK /\ TypeOK' /\ queue \in Table /\ outbox \in Table
    BY TypeStep DEF KeptInv, TypeOK, Table
  <1>1. ~Fault("tear")
    BY DEF Fault
  <1>2. ASSUME NEW k \in Call, WriteIntent(k) PROVE KeptInv'
    <2>1. /\ \A a \in Award : queue[a].status # "none" => queue'[a].status # "none"
          /\ \/ recorded' = recorded
             \/ /\ recorded' = recorded \cup {AwardOf[k]}
                /\ queue'[AwardOf[k]].status # "none"
          /\ UNCHANGED <<file, worker>>
      <3>1. AwardOf[k] \in Award
        OBVIOUS
      <3> DEFINE q == Inserted(queue, AwardOf[k], FALSE)
      <3>2. /\ q[AwardOf[k]].status # "none"
            /\ \A a \in Award : queue[a].status # "none" => q[a].status # "none"
        BY <1>0, <3>1, TableOps
      <3>3. /\ UNCHANGED <<file, worker>>
            /\ queue' = queue \/ queue' = q
            /\ \/ recorded' = recorded
               \/ recorded' = recorded \cup {AwardOf[k]} /\ queue' = q
        BY <1>2 DEF WriteIntent
      <3> QED
        BY <3>2, <3>3
    <2> QED
      BY <1>0, <2>1 DEF KeptInv, NeverLost, file, worker, TypeOK
  <1>3. ASSUME NEW k \in Call, SpoolAppend(k) PROVE KeptInv'
    <2>1. /\ spool' = spool \cup {AwardOf[k]} /\ torn' = FALSE
          /\ recorded' = recorded \cup {AwardOf[k]}
          /\ UNCHANGED <<tables, worker>>
      BY <1>1, <1>3 DEF SpoolAppend, LinesAppended, KeptInv
    <2> QED
      BY <1>0, <2>1 DEF KeptInv, NeverLost, tables, worker, TypeOK
  <1>4. ASSUME NEW k \in Call, CheckFlag(k) \/ DirectAward(k) PROVE KeptInv'
    <2>1. UNCHANGED <<queue, file, worker, recorded>>
      <3>1. CASE CheckFlag(k)
        BY <3>1 DEF CheckFlag, tables
      <3>2. CASE DirectAward(k)
        BY <3>2 DEF DirectAward
      <3> QED
        BY <1>4, <3>1, <3>2
    <2> QED
      BY <1>0, <2>1, KeptFrame DEF KeptInv, file, worker
  <1>5. ASSUME NEW k \in Call, CloseIntent(k) PROVE KeptInv'
    <2>1. PICK s \in {"completed", "suppressed"} :
            \/ UNCHANGED queue
            \/ queue' = [queue EXCEPT ![AwardOf[k]] =
                            IF Closable(@)
                            THEN [@ EXCEPT !.status = s, !.ripe = FALSE]
                            ELSE @]
      BY <1>5 DEF CloseIntent
    <2>2. \A a \in Award : queue[a].status # "none" => queue'[a].status # "none"
      <3> SUFFICES ASSUME NEW a \in Award, queue[a].status # "none"
                   PROVE  queue'[a].status # "none"
        OBVIOUS
      <3>1. \/ queue'[a] = queue[a]
            \/ queue'[a] = [queue[a] EXCEPT !.status = s, !.ripe = FALSE]
        BY <1>0, <2>1 DEF Table
      <3>2. queue[a] \in Row
        BY <1>0 DEF Table
      <3> QED
        BY <2>1, <3>1, <3>2 DEF Row
    <2> QED
      BY <1>0, <1>5, <2>2, KeptFrame DEF CloseIntent, KeptInv, file, worker
  <1>6. ASSUME NEW k \in Call, EnqueueRepair(k) PROVE KeptInv'
    <2>1. \A a \in Award : queue[a].status # "none" => queue'[a].status # "none"
      BY <1>0, <1>6, EnqueuedOps DEF EnqueueRepair
    <2> QED
      BY <1>0, <1>6, <2>1, KeptFrame DEF EnqueueRepair, KeptInv, file, worker
  <1>7. ASSUME NEW k \in Call, CallDies(k) PROVE KeptInv'
    BY <1>0, <1>7, KeptFrame DEF CallDies, KeptInv, tables, worker
  <1>8. ASSUME NEW a \in Award, QueueReward(a) PROVE KeptInv'
    <2>1. /\ \A c \in Award : queue[c].status # "none" => queue'[c].status # "none"
          /\ recorded' = recorded \cup {a}
          /\ queue'[a].status # "none"
          /\ UNCHANGED <<file, worker>>
      BY <1>0, <1>8, TableOps DEF QueueReward
    <2> QED
      BY <1>0, <2>1 DEF KeptInv, NeverLost, file, worker, TypeOK
  <1>9. CASE Replay
    <2>1. PICK failed \in SUBSET spool :
            queue' = Enqueued(spool \ failed) /\ spool' = failed
      BY <1>9 DEF Replay, LinesKept
    <2>2. /\ \A a \in Award : queue[a].status # "none" => queue'[a].status # "none"
          /\ \A a \in spool \ failed : queue'[a].status # "none"
      BY <1>0, <2>1, EnqueuedOps DEF TypeOK
    <2> QED
      BY <1>0, <1>9, <2>1, <2>2, KeptFrame DEF Replay, KeptInv, worker
  <1>10. CASE ReplayInterrupted
    <2>1. \A a \in Award : queue[a].status # "none" => queue'[a].status # "none"
      BY <1>0, <1>10, EnqueuedOps DEF ReplayInterrupted, TypeOK
    <2> QED
      BY <1>0, <1>10, <2>1, KeptFrame DEF ReplayInterrupted, KeptInv, file, worker
  <1>11. ASSUME NEW w \in Worker, ClaimAwards(w) PROVE KeptInv'
    <2>1. \A a \in Award : queue[a].status # "none" => queue'[a].status # "none"
      BY <1>0, <1>11, ClaimedOps DEF ClaimAwards
    <2> QED
      BY <1>0, <1>11, <2>1, KeptFrame DEF ClaimAwards, Take, KeptInv, TypeOK, file
  <1>12. ASSUME NEW w \in Worker, ClaimLevels(w) PROVE KeptInv'
    BY <1>0, <1>12, KeptFrame DEF ClaimLevels, Take, KeptInv, TypeOK, file
  <1>13. ASSUME NEW w \in Worker, RepairAward(w) PROVE KeptInv'
    <2>1. PICK a \in batch[w], v \in Verdict \ {"none"} : InHand(w, a, v, "finish")
      BY <1>13 DEF RepairAward, Verdict
    <2>2. UNCHANGED <<queue, file, recorded>>
      BY <1>13 DEF RepairAward
    <2> QED
      BY <1>0, <2>1, <2>2, KeptFrame DEF InHand, KeptInv, TypeOK, file
  <1>14. ASSUME NEW w \in Worker, FinishRepair(w) PROVE KeptInv'
    <2>0. verdict[w] \in Verdict \ {"none"}
      BY <1>0, <1>14 DEF FinishRepair, KeptInv, TypeOK
    <2>1. \A a \in Award : Finished(queue[a], verdict[w]).status # "none"
      BY <1>0, <2>0, RowOps DEF Table
    <2>2. \A a \in Award : queue[a].status # "none" => queue'[a].status # "none"
      BY <1>0, <1>14, <2>1 DEF FinishRepair, Table
    <2> QED
      BY <1>0, <1>14, <2>2, KeptFrame
      DEF FinishRepair, PutDown, KeptInv, TypeOK, file
  <1>15. ASSUME NEW w \in Worker, SumLedger(w) \/ ProjectUser(w) \/ Postpone(w)
         PROVE  KeptInv'
    <2>1. UNCHANGED <<queue, file, recorded>>
      BY <1>15 DEF SumLedger, ProjectUser, Postpone, tables
    <2>2. \A v \in Worker : wpc'[v] = "finish" => wpc[v] = "finish" /\ verdict'[v] = verdict[v]
      BY <1>0, <1>15 DEF SumLedger, ProjectUser, Postpone, PutDown, InHand, TypeOK
    <2> QED
      BY <1>0, <2>1, <2>2, KeptFrame DEF KeptInv, file
  <1>16. ASSUME NEW w \in Worker, WorkerDies(w) PROVE KeptInv'
    BY <1>0, <1>16, KeptFrame DEF WorkerDies, KeptInv, TypeOK, tables, file
  <1>17. ASSUME NEW a \in Award,
                RipenAward(a) \/ RipenLevel(a) \/ StallPastLease(a)
         PROVE  KeptInv'
    <2>1. /\ UNCHANGED <<file, worker, recorded>>
          /\ \A c \in Award : queue[c].status # "none" => queue'[c].status # "none"
      BY <1>0, <1>17
      DEF RipenAward, RipenLevel, StallPastLease, Table, Row
    <2> QED
      BY <1>0, <2>1, KeptFrame DEF KeptInv, file, worker
  <1>18. CASE Outage \/ DatabaseBack \/ UNCHANGED vars
    BY <1>0, <1>18, KeptFrame
    DEF Outage, DatabaseBack, KeptInv, vars, tables, file, worker
  <1> QED
    BY <1>2, <1>3, <1>4, <1>5, <1>6, <1>7, <1>8, <1>9, <1>10, <1>11, <1>12,
       <1>13, <1>14, <1>15, <1>16, <1>17, <1>18
    DEF Next, Runs, Works

\* As long as no append is torn, an award whose intent was reported as written
\* keeps its row or its line through every outage, crash, stall and replay.
THEOREM NothingLost ==
  ASSUME "tear" \notin Faults
  PROVE  Spec => []NeverLost
  <1>1. Init => KeptInv
    BY InitType DEF Init, KeptInv, NeverLost
  <1>2. KeptInv => NeverLost
    BY DEF KeptInv
  <1> QED
    BY <1>1, <1>2, KeptStep, PTL DEF Spec

-----------------------------------------------------------------------------
(* Completed repairs were awarded.                                         *)

\* A call about to close its intent as completed, and a worker about to finish
\* with that verdict, have the award in the ledger: entries are never removed.
AwardedInv ==
    /\ TypeOK
    /\ CompletedIsAwarded
    /\ \A k \in Call : pc[k] = "complete" => AwardOf[k] \in ledger
    /\ \A w \in Worker :
         wpc[w] = "finish" /\ verdict[w] = "completed" => item[w] \in ledger

LEMMA AwardedFrame ==
  ASSUME AwardedInv, TypeOK', ledger \subseteq ledger',
         \A a \in Award : queue'[a].status = "completed" =>
                            queue[a].status = "completed" \/ a \in ledger',
         \A k \in Call : pc'[k] = "complete" =>
                            pc[k] = "complete" \/ AwardOf[k] \in ledger',
         \A w \in Worker :
            wpc'[w] = "finish" /\ verdict'[w] = "completed" =>
               \/ /\ wpc[w] = "finish" /\ verdict[w] = "completed"
                  /\ item'[w] = item[w]
               \/ item'[w] \in ledger'
  PROVE  AwardedInv'
  BY DEF AwardedInv, CompletedIsAwarded

\* The steps of a call.
LEMMA AwardedCall ==
  ASSUME AwardedInv, TypeOK', NEW k \in Call,
         WriteIntent(k) \/ Runs(k) \/ CallDies(k)
  PROVE  AwardedInv'
  <1> USE AwardAssumption
  <1>0. /\ TypeOK /\ queue \in Table /\ pc \in [Call -> Stage]
        /\ AwardOf[k] \in Award
    BY DEF AwardedInv, TypeOK, Table
  <1>1. CASE WriteIntent(k)
    <2>1. queue' = queue \/ queue' = Inserted(queue, AwardOf[k], FALSE)
      BY <1>1 DEF WriteIntent
    <2>2. \A a \in Award : queue'[a].status = "completed" =>
                             queue[a].status = "completed"
      <3>1. CASE queue' = queue
        BY <3>1
      <3>2. CASE queue' = Inserted(queue, AwardOf[k], FALSE)
        BY <1>0, <3>2, TableOps
      <3> QED
        BY <2>1, <3>1, <3>2
    <2>3. UNCHANGED <<ledger, worker>> /\ \E p \in {"flag", "spool"} : Goto(k, p)
      BY <1>1 DEF WriteIntent
    <2> QED
      BY <1>0, <2>2, <2>3, AwardedFrame DEF Goto, worker
  <1>2. CASE SpoolAppend(k) \/ CheckFlag(k) \/ CallDies(k)
    <2>1. /\ UNCHANGED <<tables, worker>>
          /\ \E p \in Stage \ {"complete"} : Goto(k, p)
      BY <1>2 DEF SpoolAppend, CheckFlag, CallDies, Stage
    <2> QED
      BY <1>0, <2>1, AwardedFrame DEF Goto, tables, worker
  <1>3. CASE DirectAward(k)
    <2>1. /\ UNCHANGED <<queue, worker>>
          /\ ledger \subseteq ledger'
          /\ \E p \in Stage : /\ Goto(k, p)
                              /\ p = "complete" => AwardOf[k] \in ledger'
      BY <1>3 DEF DirectAward, Grant, Stage
    <2> QED
      BY <1>0, <2>1, AwardedFrame DEF Goto, worker
  <1>4. CASE CloseIntent(k)
    <2> DEFINE s == IF pc[k] = "complete" THEN "completed" ELSE "suppressed"
    <2>1. /\ UNCHANGED <<ledger, worker>> /\ Goto(k, "done")
          /\ \/ UNCHANGED queue
             \/ queue' = [queue EXCEPT ![AwardOf[k]] =
                            IF Closable(@)
                            THEN [@ EXCEPT !.status = s, !.ripe = FALSE]
                            ELSE @]
      BY <1>4 DEF CloseIntent
    <2>2. pc[k] = "complete" => AwardOf[k] \in ledger
      BY DEF AwardedInv
    <2>3. ASSUME NEW a \in Award, queue'[a].status = "completed"
          PROVE  queue[a].status = "completed" \/ a \in ledger'
      <3>1. \/ queue'[a] = queue[a]
            \/ /\ a = AwardOf[k]
               /\ queue'[a] = [queue[a] EXCEPT !.status = s, !.ripe = FALSE]
        BY <1>0, <2>1 DEF Table
      <3>2. queue[a] \in Row
        BY <1>0 DEF Table
      <3> QED
        BY <2>1, <2>2, <2>3, <3>1, <3>2 DEF Row
    <2> QED
      BY <1>0, <2>1, <2>3, AwardedFrame DEF Goto, worker
  <1>5. CASE EnqueueRepair(k)
    <2>1. queue' = queue \/ queue' = Enqueued({AwardOf[k]})
      BY <1>5 DEF EnqueueRepair
    <2>2. \A a \in Award : queue'[a].status = "completed" =>
                             queue[a].status = "completed"
      BY <1>0, <2>1, EnqueuedOps
    <2> QED
      BY <1>0, <1>5, <2>2, AwardedFrame DEF EnqueueRepair, Goto, worker
  <1> QED
    BY <1>1, <1>2, <1>3, <1>4, <1>5 DEF Runs

\* The steps of a worker.
LEMMA AwardedWorker ==
  ASSUME AwardedInv, TypeOK', NEW w \in Worker,
         ClaimAwards(w) \/ ClaimLevels(w) \/ Works(w) \/ WorkerDies(w)
  PROVE  AwardedInv'
  <1>0. /\ TypeOK /\ queue \in Table /\ WorkerType
    BY DEF AwardedInv, TypeOK, Table, WorkerType
  <1>1. CASE ClaimAwards(w)
    <2>1. \A a \in Award : queue'[a].status = "completed" =>
                             queue[a].status = "completed"
      BY <1>0, <1>1, ClaimedOps DEF ClaimAwards
    <2> QED
      BY <1>0, <1>1, <2>1, AwardedFrame DEF ClaimAwards, Take, WorkerType
  <1>2. CASE ClaimLevels(w)
    BY <1>0, <1>2, AwardedFrame DEF ClaimLevels, Take, WorkerType
  <1>3. CASE RepairAward(w)
    <2>1. PICK a \in batch[w], v \in Verdict :
            /\ InHand(w, a, v, "finish")
            /\ v = "completed" => a \in ledger'
      BY <1>3 DEF RepairAward, Grant, Verdict
    <2>2. UNCHANGED <<queue, pc>> /\ ledger \subseteq ledger'
      BY <1>3 DEF RepairAward, Grant
    <2> QED
      BY <1>0, <2>1, <2>2, AwardedFrame DEF InHand, WorkerType
  <1>4. CASE FinishRepair(w)
    <2>1. verdict[w] \in Verdict
      BY <1>0 DEF WorkerType
    <2>2. verdict[w] = "completed" => item[w] \in ledger
      BY <1>4 DEF FinishRepair, AwardedInv
    <2>3. UNCHANGED <<ledger, pc>> /\ PutDown(w, item[w], "award")
      BY <1>4 DEF FinishRepair
    <2>4. \/ UNCHANGED queue
          \/ queue' = [queue EXCEPT ![item[w]] = Finished(@, verdict[w])]
      BY <1>4 DEF FinishRepair
    <2>5. ASSUME NEW a \in Award, queue'[a].status = "completed"
          PROVE  queue[a].status = "completed" \/ a \in ledger'
      <3>1. \/ queue'[a] = queue[a]
            \/ a = item[w] /\ queue'[a] = Finished(queue[a], verdict[w])
        BY <1>0, <2>4 DEF Table
      <3>2. Finished(queue[a], verdict[w]).status = "completed" =>
              verdict[w] = "completed"
        BY <1>0, <2>1, RowOps DEF Table
      <3> QED
        BY <2>2, <2>3, <2>5, <3>1, <3>2
    <2> QED
      BY <1>0, <2>3, <2>5, AwardedFrame DEF PutDown, WorkerType
  <1>5. CASE SumLedger(w) \/ ProjectUser(w)
    <2>1. UNCHANGED <<queue, ledger, pc>>
      BY <1>5 DEF SumLedger, ProjectUser, tables
    <2>2. \A v \in Worker : wpc'[v] = "finish" =>
            wpc[v] = "finish" /\ verdict'[v] = verdict[v] /\ item'[v] = item[v]
      BY <1>0, <1>5 DEF SumLedger, ProjectUser, PutDown, InHand, WorkerType
    <2> QED
      BY <1>0, <2>1, <2>2, AwardedFrame
  <1>6. CASE Postpone(w)
    BY <1>0, <1>6, AwardedFrame DEF Postpone, PutDown, WorkerType
  <1>7. CASE WorkerDies(w)
    BY <1>0, <1>7, AwardedFrame DEF WorkerDies, WorkerType, tables
  <1> QED
    BY <1>1, <1>2, <1>3, <1>4, <1>5, <1>6, <1>7 DEF Works

\* Everything else leaves the ledger, the calls and the workers alone and
\* completes no row.
LEMMA AwardedStep == AwardedInv /\ [Next]_vars => AwardedInv'
  <1> USE AwardAssumption
  <1> SUFFICES ASSUME AwardedInv, [Next]_vars PROVE AwardedInv'
    OBVIOUS
  <1>0. TypeOK /\ TypeOK' /\ queue \in Table
    BY TypeStep DEF AwardedInv, TypeOK, Table
  <1>1. ASSUME UNCHANGED <<ledger, pc, worker>>,
               \A a \in Award : queue'[a].status = "completed" =>
                                  queue[a].status = "completed"
        PROVE  AwardedInv'
    BY <1>0, <1>1, AwardedFrame DEF worker
  <1>2. ASSUME NEW a \in Award, QueueReward(a) PROVE AwardedInv'
    BY <1>0, <1>1, <1>2, TableOps DEF QueueReward
  <1>3. CASE Replay \/ ReplayInterrupted
    <2>1. PICK S \in SUBSET spool : queue' = Enqueued(S)
      BY <1>3 DEF Replay, ReplayInterrupted
    <2>2. \A a \in Award : queue'[a].status = "completed" =>
                             queue[a].status = "completed"
      BY <1>0, <2>1, EnqueuedOps DEF TypeOK
    <2> QED
      BY <1>1, <1>3, <2>2 DEF Replay, ReplayInterrupted
  <1>4. ASSUME NEW a \in Award,
               RipenAward(a) \/ RipenLevel(a) \/ StallPastLease(a)
        PROVE  AwardedInv'
    <2>1. UNCHANGED <<ledger, pc, worker>>
      BY <1>4 DEF RipenAward, RipenLevel, StallPastLease
    <2>2. \A c \in Award : queue'[c].status = queue[c].status
      BY <1>0, <1>4 DEF RipenAward, RipenLevel, StallPastLease, Table, Row
    <2> QED
      BY <1>1, <2>1, <2>2
  <1>5. CASE Outage \/ DatabaseBack \/ UNCHANGED vars
    BY <1>1, <1>5 DEF Outage, DatabaseBack, vars, tables
  <1> QED
    BY <1>0, <1>2, <1>3, <1>4, <1>5, AwardedCall, AwardedWorker DEF Next

\* A completed repair is in the ledger, whichever of the direct award, the
\* workers and the replay wrote its status, with no failure excluded.
THEOREM CompletedAwarded == Spec => []CompletedIsAwarded
  <1>1. Init => AwardedInv
    BY InitType DEF Init, AwardedInv, CompletedIsAwarded, NoRow
  <1>2. AwardedInv => CompletedIsAwarded
    BY DEF AwardedInv
  <1> QED
    BY <1>1, <1>2, AwardedStep, PTL DEF Spec

-----------------------------------------------------------------------------
(* Completed projections were counted.                                     *)

\* Only ledger entries have an outbox row, and only those are in the hands of
\* a worker that projects.  One projection at a time is open, and since rows are
\* completed by projections, what was completed is in the sum it has read, and
\* so is its own row.
CountedInv ==
    /\ TypeOK
    /\ CompletedIsCounted
    /\ \A a \in Award : outbox[a].status # "none" => a \in ledger
    /\ \A w \in Worker :
         /\ wpc[w] \in {"project", "level", "postpone"} => batch[w] \subseteq ledger
         /\ wpc[w] \in {"level", "postpone"} => item[w] \in ledger
         /\ wpc[w] = "level" => item[w] \in sum[w]
         /\ wpc[w] = "level" =>
              \A a \in Award : outbox[a].status = "completed" => a \in sum[w]
    /\ \A v, w \in Worker : wpc[v] = "level" /\ wpc[w] = "level" => v = w

\* The steps that complete no row and open no projection.
LEMMA CountedFrame ==
  ASSUME CountedInv, TypeOK', ledger \subseteq ledger', projected' = projected,
         \A a \in Award :
            /\ outbox'[a].status = "completed" => outbox[a].status = "completed"
            /\ outbox'[a].status # "none" =>
                 outbox[a].status # "none" \/ a \in ledger',
         \A w \in Worker :
            /\ wpc'[w] \in {"project", "level", "postpone"} =>
                 batch'[w] \subseteq ledger'
            /\ wpc'[w] = "postpone" => item'[w] \in ledger'
            /\ wpc'[w] = "level" =>
                 wpc[w] = "level" /\ item'[w] = item[w] /\ sum'[w] = sum[w]
  PROVE  CountedInv'
  BY DEF CountedInv, CompletedIsCounted

\* Steps that leave the workers and the level alone.
LEMMA CountedElsewhere ==
  ASSUME CountedInv, TypeOK', ledger \subseteq ledger',
         UNCHANGED <<projected, worker>>,
         \A a \in Award :
            /\ outbox'[a].status = "completed" => outbox[a].status = "completed"
            /\ outbox'[a].status # "none" =>
                 outbox[a].status # "none" \/ a \in ledger'
  PROVE  CountedInv'
  BY CountedFrame DEF CountedInv, worker

\* A granted award has a row and an entry.
LEMMA GrantCounted ==
  ASSUME TypeOK, NEW a \in Award, Grant(a) \/ UNCHANGED <<ledger, outbox>>
  PROVE  /\ ledger \subseteq ledger'
         /\ \A c \in Award :
              /\ outbox'[c].status = "completed" => outbox[c].status = "completed"
              /\ outbox'[c].status # "none" =>
                   outbox[c].status # "none" \/ c \in ledger'
  <1>1. outbox \in Table
    BY DEF TypeOK, Table
  <1>2. CASE Grant(a)
    BY <1>1, <1>2, TableOps DEF Grant
  <1>3. CASE UNCHANGED <<ledger, outbox>>
    BY <1>3
  <1> QED
    BY <1>2, <1>3

LEMMA CountedWorker ==
  ASSUME CountedInv, TypeOK', NEW w \in Worker,
         ClaimAwards(w) \/ ClaimLevels(w) \/ Works(w) \/ WorkerDies(w)
  PROVE  CountedInv'
  <1>0. /\ TypeOK /\ outbox \in Table /\ WorkerType
    BY DEF CountedInv, TypeOK, Table, WorkerType
  <1>1. CASE ClaimAwards(w)
    <2>1. UNCHANGED <<outbox, ledger, projected>> /\ Take(w, Due(queue), "award")
      BY <1>1 DEF ClaimAwards
    <2> QED
      BY <1>0, <2>1, CountedFrame DEF Take, WorkerType, CountedInv
  <1>2. CASE ClaimLevels(w)
    <2>1. Due(outbox) \subseteq ledger
      BY <1>0, ClaimedOps DEF CountedInv
    <2>2. /\ UNCHANGED <<ledger, projected>> /\ Take(w, Due(outbox), "project")
          /\ outbox' = Claimed(outbox)
      BY <1>2 DEF ClaimLevels
    <2>3. \A a \in Award :
            /\ outbox'[a].status = "completed" => outbox[a].status = "completed"
            /\ outbox'[a].status # "none" => outbox[a].status # "none"
      BY <1>0, <2>2, ClaimedOps
    <2> QED
      BY <1>0, <2>1, <2>2, <2>3, CountedFrame DEF Take, WorkerType, CountedInv
  <1>3. CASE RepairAward(w)
    <2>1. PICK a \in batch[w] :
            /\ Grant(a) \/ UNCHANGED <<ledger, outbox>>
            /\ \E v \in Verdict : InHand(w, a, v, "finish")
      BY <1>3 DEF RepairAward, Verdict
    <2>2. a \in Award
      BY <1>0, <2>1 DEF WorkerType
    <2>3. UNCHANGED projected
      BY <1>3 DEF RepairAward
    <2> QED
      BY <1>0, <2>1, <2>2, <2>3, GrantCounted, CountedFrame
      DEF InHand, WorkerType, CountedInv
  <1>4. CASE FinishRepair(w)
    <2>1. /\ UNCHANGED <<outbox, ledger, projected>>
          /\ PutDown(w, item[w], "award")
      BY <1>4 DEF FinishRepair
    <2> QED
      BY <1>0, <2>1, CountedFrame DEF PutDown, WorkerType, CountedInv
  <1>5. CASE SumLedger(w)
    <2>1. PICK a \in batch[w] :
            \/ /\ ~LevelBusy /\ UNCHANGED batch
               /\ wpc' = [wpc EXCEPT ![w] = "level"]
               /\ item' = [item EXCEPT ![w] = a]
               /\ sum' = [sum EXCEPT ![w] = ledger]
            \/ InHand(w, a, "failed", "postpone")
      BY <1>5 DEF SumLedger
    <2>2. /\ a \in ledger /\ batch[w] \subseteq ledger
          /\ UNCHANGED <<ledger, outbox, projected>>
      BY <1>5 DEF SumLedger, CountedInv, tables
    <2>3. CASE InHand(w, a, "failed", "postpone")
      BY <1>0, <2>2, <2>3, CountedFrame DEF InHand, WorkerType, CountedInv
    <2>4. CASE /\ ~LevelBusy /\ UNCHANGED batch
               /\ wpc' = [wpc EXCEPT ![w] = "level"]
               /\ item' = [item EXCEPT ![w] = a]
               /\ sum' = [sum EXCEPT ![w] = ledger]
      <3>1. \A v \in Worker : wpc'[v] = "level" => v = w
        BY <1>0, <2>4 DEF LevelBusy, WorkerType
      <3>2. \A c \in Award : outbox[c].status = "completed" => c \in ledger
        BY DEF CountedInv
      <3>3. \A v \in Worker :
              /\ v # w => wpc'[v] = wpc[v] /\ item'[v] = item[v]
              /\ v = w => item'[v] = a /\ sum'[v] = ledger
        BY <1>0, <2>4 DEF WorkerType
      <3> QED
        BY <2>2, <2>4, <3>1, <3>2, <3>3 DEF CountedInv, CompletedIsCounted
    <2> QED
      BY <2>1, <2>3, <2>4
  <1>8. CASE ProjectUser(w)
    <2>1. /\ wpc[w] = "level" /\ UNCHANGED ledger
          /\ \/ PutDown(w, item[w], "project")
             \/ InHand(w, item[w], "failed", "postpone")
          /\ Project(w) \/ UNCHANGED <<projected, outbox>>
      BY <1>8 DEF ProjectUser
    <2>2. /\ item[w] \in sum[w] /\ item[w] \in ledger /\ batch[w] \subseteq ledger
          /\ \A a \in Award : outbox[a].status = "completed" => a \in sum[w]
      BY <2>1 DEF CountedInv
    <2>3. \A v \in Worker : wpc'[v] # "level"
      BY <1>0, <2>1 DEF PutDown, InHand, WorkerType, CountedInv
    <2>4. \A v \in Worker :
            /\ wpc'[v] \in {"project", "postpone"} => batch'[v] \subseteq ledger'
            /\ wpc'[v] = "postpone" => item'[v] \in ledger'
      BY <1>0, <2>1, <2>2 DEF PutDown, InHand, WorkerType, CountedInv
    <2>5. CASE UNCHANGED <<projected, outbox>>
      BY <2>1, <2>3, <2>4, <2>5, CountedFrame
    <2>6. CASE Project(w)
      <3>1. /\ projected' = sum[w]
            /\ \A c \in Award :
                 IF c = item[w] THEN outbox'[c].status = "completed"
                                ELSE outbox'[c] = outbox[c]
        BY <1>0, <2>6 DEF Project, Table, Row
      <3>2. \A c \in Award : outbox'[c].status # "none" => c \in ledger'
        BY <2>1, <2>2, <3>1 DEF CountedInv
      <3>3. CompletedIsCounted'
        BY <2>2, <3>1 DEF CompletedIsCounted
      <3> QED
        BY <2>3, <2>4, <3>2, <3>3 DEF CountedInv
    <2> QED
      BY <2>1, <2>5, <2>6
  <1>6. CASE Postpone(w)
    <2>1. /\ UNCHANGED <<ledger, projected>> /\ PutDown(w, item[w], "project")
          /\ \/ UNCHANGED outbox
             \/ outbox' = [outbox EXCEPT ![item[w]] = AfterFailure(@)]
      BY <1>6 DEF Postpone
    <2>2. item[w] \in ledger /\ batch[w] \subseteq ledger
      BY <1>6 DEF Postpone, CountedInv
    <2>3. ASSUME NEW a \in Award
          PROVE  /\ outbox'[a].status = "completed" =>
                      outbox[a].status = "completed"
                 /\ outbox'[a].status # "none" =>
                      outbox[a].status # "none" \/ a \in ledger'
      <3>1. \/ outbox'[a] = outbox[a]
            \/ a = item[w] /\ outbox'[a] = AfterFailure(outbox[a])
        BY <1>0, <2>1 DEF Table
      <3>2. AfterFailure(outbox[a]).status # "completed"
        BY <1>0, RowOps DEF Table
      <3> QED
        BY <2>1, <2>2, <3>1, <3>2
    <2>4. \A v \in Worker :
            /\ wpc'[v] \in {"project", "level", "postpone"} =>
                 batch'[v] \subseteq ledger'
            /\ wpc'[v] = "postpone" => item'[v] \in ledger'
            /\ wpc'[v] = "level" =>
                 wpc[v] = "level" /\ item'[v] = item[v] /\ sum'[v] = sum[v]
      BY <1>0, <1>6, <2>1, <2>2 DEF Postpone, PutDown, WorkerType, CountedInv
    <2> QED
      BY <1>0, <2>1, <2>3, <2>4, CountedFrame
  <1>7. CASE WorkerDies(w)
    BY <1>0, <1>7, CountedFrame DEF WorkerDies, WorkerType, tables, CountedInv
  <1> QED
    BY <1>1, <1>2, <1>3, <1>4, <1>5, <1>6, <1>7, <1>8 DEF Works

LEMMA CountedStep == CountedInv /\ [Next]_vars => CountedInv'
  <1> USE AwardAssumption
  <1> SUFFICES ASSUME CountedInv, [Next]_vars PROVE CountedInv'
    OBVIOUS
  <1>0. TypeOK /\ TypeOK' /\ outbox \in Table
    BY TypeStep DEF CountedInv, TypeOK, Table
  <1>1. ASSUME UNCHANGED <<ledger, outbox, projected, worker>> PROVE CountedInv'
    BY <1>0, <1>1, CountedElsewhere
  <1>2. ASSUME NEW k \in Call, WriteIntent(k) \/ Runs(k) \/ CallDies(k)
        PROVE  CountedInv'
    <2>1. CASE DirectAward(k)
      <3>1. /\ Grant(AwardOf[k]) \/ UNCHANGED <<ledger, outbox>>
            /\ AwardOf[k] \in Award
            /\ UNCHANGED <<projected, worker>>
        BY <2>1 DEF DirectAward
      <3> QED
        BY <1>0, <3>1, GrantCounted, CountedElsewhere
    <2>2. CASE WriteIntent(k) \/ SpoolAppend(k) \/ CheckFlag(k)
      BY <1>1, <2>2 DEF WriteIntent, SpoolAppend, CheckFlag, tables
    <2>3. CASE CloseIntent(k) \/ EnqueueRepair(k) \/ CallDies(k)
      BY <1>1, <2>3 DEF CloseIntent, EnqueueRepair, CallDies, tables
    <2> QED
      BY <1>2, <2>1, <2>2, <2>3 DEF Runs
  <1>3. ASSUME NEW a \in Award, QueueReward(a) \/ RipenAward(a) PROVE CountedInv'
    BY <1>1, <1>3 DEF QueueReward, RipenAward
  <1>4. CASE Replay \/ ReplayInterrupted
    BY <1>1, <1>4 DEF Replay, ReplayInterrupted
  <1>5. ASSUME NEW a \in Award, RipenLevel(a) \/ StallPastLease(a)
        PROVE  CountedInv'
    <2>1. UNCHANGED <<ledger, projected, worker>>
      BY <1>5 DEF RipenLevel, StallPastLease
    <2>2. \A c \in Award : outbox'[c].status = outbox[c].status
      BY <1>0, <1>5 DEF RipenLevel, StallPastLease, Table, Row
    <2> QED
      BY <1>0, <2>1, <2>2, CountedElsewhere
  <1>6. CASE Outage \/ DatabaseBack \/ UNCHANGED vars
    BY <1>1, <1>6 DEF Outage, DatabaseBack, vars, tables
  <1> QED
    BY <1>0, <1>2, <1>3, <1>4, <1>5, <1>6, CountedWorker DEF Next

\* The level counts every ledger entry whose projection is completed, with any
\* number of entries committed while projections are open, any number of
\* workers and no failure excluded.
THEOREM CompletedCounted == Spec => []CompletedIsCounted
  <1>1. Init => CountedInv
    BY InitType DEF Init, CountedInv, CompletedIsCounted, NoRow
  <1>2. CountedInv => CompletedIsCounted
    BY DEF CountedInv
  <1> QED
    BY <1>1, <1>2, CountedStep, PTL DEF Spec
=============================================================================
