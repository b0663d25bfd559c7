-------------------------- MODULE IdempotencyProofs --------------------------
(***************************************************************************)
(* Proofs about Idempotency, for every number of requests, every payload,  *)
(* lease and replay window, and any number of failures of any kind a       *)
(* theorem does not exclude.                                               *)
(***************************************************************************)
EXTENDS Idempotency, TLAPS

-----------------------------------------------------------------------------
(* Types.                                                                  *)

\* Types hold at first: no row, no claim.
LEMMA InitType == Init => TypeOK
  <1> USE TimeAssumption DEF Init, TypeOK
  <1> QED BY DEF Old, Place, Outcome, Answered, Claiming, Running, Deleting, Cacheable

\* What the SELECT tells a request is a place of the program, and only a
\* completed row is replayed.
LEMMA VerdictType ==
  ASSUME NEW r \in Request, TypeOK
  PROVE  /\ Verdict(r) \in Place
         /\ Verdict(r) \in {"insert", "conflict", "replay", "deleteCompleted",
                            "deleteProcessing", "uncertain", "wait"}
         /\ Verdict(r) = "replay" => state = "completed" /\ Payload[owner] = Payload[r]
  <1>1. CASE state = "absent"
    BY <1>1 DEF Verdict, Expired, LeaseExpired, Place, Claiming
  <1>2. CASE state = "completed"
    BY <1>2 DEF Verdict, Expired, LeaseExpired, Place, Claiming, Deleting, Answered
  <1>3. CASE state = "processing"
    BY <1>3 DEF Verdict, Place, Claiming, Deleting, Answered
  <1> QED BY <1>1, <1>2, <1>3 DEF TypeOK

\* Every step keeps the types.
LEMMA TypeStep == TypeOK /\ [Next]_vars => TypeOK'
  <1> USE TimeAssumption, RequestAssumption
  <1> SUFFICES ASSUME TypeOK, [Next]_vars PROVE TypeOK'
    OBVIOUS
  <1>1. Old \in Nat
    BY DEF Old
  <1>2. ASSUME NEW r \in Request, Arrive(r) PROVE TypeOK'
    BY <1>2 DEF Arrive, TypeOK, row, Goto, Place, Claiming
  <1>3. ASSUME NEW r \in Request, Insert(r) PROVE TypeOK'
    BY <1>1, <1>3 DEF Insert, Claim, TypeOK, row, Goto, Place, Claiming, Running
  <1>4. ASSUME NEW r \in Request, Look(r) PROVE TypeOK'
    BY <1>4, VerdictType DEF Look, Answer, Goto, TypeOK, row
  <1>5. ASSUME NEW r \in Request, DeleteExpired(r) PROVE TypeOK'
    BY <1>5 DEF DeleteExpired, Forget, TypeOK, row, Goto, Place, Claiming
  <1>6. ASSUME NEW r \in Request, Poll(r) PROVE TypeOK'
    BY <1>6 DEF Poll, TypeOK, row, Goto, Place, Claiming
  <1>7. ASSUME NEW r \in Request, GiveUp(r) PROVE TypeOK'
    BY <1>7 DEF GiveUp, Answer, TypeOK, row, Goto, Place, Answered
  <1>8. ASSUME NEW r \in Request, Execute(r) PROVE TypeOK'
    BY <1>8 DEF Execute, TypeOK, row, Goto, Place, Running, Outcome, Cacheable
  <1>9. ASSUME NEW r \in Request, Finish(r) PROVE TypeOK'
    BY <1>9 DEF Finish, Forget, Owns, Answer, TypeOK, row, Goto, Place, Answered
  <1>10. ASSUME NEW r \in Request, Fails(r) PROVE TypeOK'
    <2>1. CASE InsertReplyLost(r)
      BY <1>1, <2>1 DEF InsertReplyLost, Claim, Fault, Answer, TypeOK, row, Goto, Place, Answered
    <2>2. CASE StatementFails(r)
      BY <2>2 DEF StatementFails, Fault, Answer, TypeOK, row, Goto, Place, Answered
    <2>3. CASE ExecuteUncached(r)
      BY <2>3 DEF ExecuteUncached, Fault, TypeOK, row, Goto, Place, Running, Outcome
    <2>4. CASE FinishFails(r)
      BY <2>4 DEF FinishFails, Fault, Answer, TypeOK, row, Goto, Place, Answered
    <2>5. CASE Crash(r)
      BY <2>5 DEF Crash, Fault, TypeOK, row, Goto, Place
    <2> QED BY <1>10, <2>1, <2>2, <2>3, <2>4, <2>5 DEF Fails
  <1>11. CASE ArchiveExpired
    BY <1>11 DEF ArchiveExpired, Forget, TypeOK
  <1>12. CASE Tick
    BY <1>1, <1>12 DEF Tick, TypeOK, row
  <1>13. CASE UNCHANGED vars
    BY <1>13 DEF vars, TypeOK, row
  <1> QED
    BY <1>2, <1>3, <1>4, <1>5, <1>6, <1>7, <1>8, <1>9, <1>10, <1>11, <1>12,
       <1>13 DEF Next, Claims, Runs

\* Every variable keeps its type: a present row has an owner, a completed one
\* a response.
THEOREM TypeCorrect == Spec => []TypeOK
  BY InitType, TypeStep, PTL DEF Spec

-----------------------------------------------------------------------------
(* A replayed response was produced by a request of the same payload.      *)

\* The row of a completed command holds its owner's own response, and the
\* owner is done, so that it will not change; likewise for answers replayed.
StoredByOwner ==
    state = "completed" =>
        /\ stored = owner
        /\ pc[stored] = "own"
        /\ outcome[stored] \in Cacheable

ReplayInv ==
    /\ TypeOK
    /\ StoredByOwner
    /\ \A r \in Request : pc[r] = "replay" =>
         /\ source[r] \in Request
         /\ Payload[source[r]] = Payload[r]
         /\ outcome[source[r]] \in Cacheable
         /\ pc[source[r]] = "own"

\* A step that leaves a finished request finished and its outcome alone, and
\* the row and all replayed answers too, keeps the invariant.
LEMMA ReplayFrame ==
  ASSUME ReplayInv, NEW r \in Request, TypeOK',
         NEW p, p # "replay", pc[r] # "own", pc' = [pc EXCEPT ![r] = p],
         UNCHANGED row \/ state' # "completed",
         \A q \in Request \ {r} : outcome'[q] = outcome[q] /\ source'[q] = source[q]
  PROVE  ReplayInv'
  BY DEF ReplayInv, StoredByOwner, TypeOK, row

\* Every step keeps it. Finish needs the fence: the response it stores is that
\* of the request whose token the row holds.
LEMMA ReplayStep == ReplayInv /\ [Next]_vars => ReplayInv'
  <1> SUFFICES ASSUME ReplayInv, [Next]_vars PROVE ReplayInv'
    OBVIOUS
  <1>0. TypeOK /\ TypeOK'
    BY TypeStep DEF ReplayInv
  <1>2. ASSUME NEW r \in Request, Arrive(r) PROVE ReplayInv'
    BY <1>0, <1>2, ReplayFrame DEF Arrive, Goto
  <1>3. ASSUME NEW r \in Request, Insert(r) PROVE ReplayInv'
    <2>1. CASE state = "absent"
      BY <1>0, <1>3, <2>1, ReplayFrame DEF Insert, Claim, Goto
    <2>2. CASE state # "absent"
      BY <1>0, <1>3, <2>2, ReplayFrame DEF Insert, Goto
    <2> QED BY <2>1, <2>2
  <1>4. ASSUME NEW r \in Request, Look(r) PROVE ReplayInv'
    <2>1. CASE Verdict(r) = "replay"
      <3>1. state = "completed" /\ Payload[owner] = Payload[r]
        BY <1>0, <2>1, VerdictType
      <3>2. /\ UNCHANGED <<row, outcome>>
            /\ pc' = [pc EXCEPT ![r] = "replay"]
            /\ source' = [source EXCEPT ![r] = stored]
            /\ pc[r] = "look"
        BY <1>4, <2>1 DEF Look, Answer, Goto
      <3> QED
        BY <1>0, <3>1, <3>2 DEF ReplayInv, StoredByOwner, TypeOK, row
    <2>2. CASE Verdict(r) # "replay"
      BY <1>0, <1>4, <2>2, ReplayFrame DEF Look, Answer, Goto, TypeOK
    <2> QED BY <2>1, <2>2
  <1>5. ASSUME NEW r \in Request, DeleteExpired(r) PROVE ReplayInv'
    BY <1>0, <1>5, ReplayFrame DEF DeleteExpired, Forget, Goto, Deleting
  <1>6. ASSUME NEW r \in Request, Poll(r) PROVE ReplayInv'
    BY <1>0, <1>6, ReplayFrame DEF Poll, Goto
  <1>7. ASSUME NEW r \in Request, GiveUp(r) PROVE ReplayInv'
    BY <1>0, <1>7, ReplayFrame DEF GiveUp, Answer, Goto, Claiming, Deleting, TypeOK
  <1>8. ASSUME NEW r \in Request, Execute(r) PROVE ReplayInv'
    BY <1>0, <1>8, ReplayFrame DEF Execute, Goto, TypeOK
  <1>9. ASSUME NEW r \in Request, Finish(r) PROVE ReplayInv'
    <2>1. /\ pc[r] = "finish" /\ UNCHANGED outcome
          /\ pc' = [pc EXCEPT ![r] = "own"]
          /\ source' = [source EXCEPT ![r] = r]
      BY <1>9 DEF Finish, Answer, Goto
    <2>2. CASE Owns(r) /\ outcome[r] \in Cacheable
      <3>1. state' = "completed" /\ stored' = r /\ owner' = r
        BY <1>9, <2>2 DEF Finish, Owns
      <3> QED BY <1>0, <2>1, <2>2, <3>1 DEF ReplayInv, StoredByOwner, TypeOK
    <2>3. CASE ~(Owns(r) /\ outcome[r] \in Cacheable)
      <3>1. UNCHANGED row \/ state' # "completed"
        BY <1>9, <2>3 DEF Finish, Forget
      <3> QED BY <1>0, <2>1, <3>1, ReplayFrame DEF TypeOK
    <2> QED BY <2>2, <2>3
  <1>10. ASSUME NEW r \in Request, Fails(r) PROVE ReplayInv'
    <2>1. CASE InsertReplyLost(r)
      BY <1>0, <2>1, ReplayFrame DEF InsertReplyLost, Claim, Answer, Goto, TypeOK
    <2>2. CASE StatementFails(r)
      BY <1>0, <2>2, ReplayFrame DEF StatementFails, Answer, Goto, TypeOK
    <2>3. CASE ExecuteUncached(r)
      BY <1>0, <2>3, ReplayFrame DEF ExecuteUncached, Goto, TypeOK
    <2>4. CASE FinishFails(r)
      BY <1>0, <2>4, ReplayFrame DEF FinishFails, Answer, Goto, TypeOK
    <2>5. CASE Crash(r)
      BY <1>0, <2>5, ReplayFrame DEF Crash, Goto, Claiming, Running, Deleting
    <2> QED BY <1>10, <2>1, <2>2, <2>3, <2>4, <2>5 DEF Fails
  <1>11. CASE ArchiveExpired
    BY <1>0, <1>11 DEF ArchiveExpired, Forget, ReplayInv, StoredByOwner
  <1>12. CASE Tick
    BY <1>0, <1>12 DEF Tick, ReplayInv, StoredByOwner, row
  <1>13. CASE UNCHANGED vars
    BY <1>0, <1>13 DEF vars, ReplayInv, StoredByOwner, row
  <1> QED
    BY <1>2, <1>3, <1>4, <1>5, <1>6, <1>7, <1>8, <1>9, <1>10, <1>11, <1>12,
       <1>13 DEF Next, Claims, Runs

\* A replayed response was produced by a finished run of the same payload and
\* may be stored, however long handlers run and whatever fails.
THEOREM ReplayCorrect == Spec => []ReplayIsFaithful
  <1>1. Init => ReplayInv
    BY InitType DEF Init, ReplayInv, StoredByOwner
  <1>2. ReplayInv => ReplayIsFaithful
    BY DEF ReplayInv, ReplayIsFaithful
  <1> QED BY <1>1, <1>2, ReplayStep, PTL DEF Spec

-----------------------------------------------------------------------------
(* One owner, and one commit per window, when handlers stop before the     *)
(* window ends.                                                            *)

\* A request that runs the command holds the row: nothing deletes the row of
\* a handler younger than the window.
RunInv ==
    /\ TypeOK
    /\ \A r \in Request : Executing(r) =>
         age[r] <= MaxRun /\ owner = r /\ state = "processing"

\* An expired row belongs to no running request.
LEMMA ExpiredIsNotRunning ==
  ASSUME RunInv, MaxRun < TTL, NEW r \in Request, Executing(r), owner = r
  PROVE  age[owner] < TTL
  BY TimeAssumption DEF RunInv, TypeOK, Old

\* A request that was not running and does not start keeps what RunInv says of
\* the others, if the row stays or was nobody's to run.
LEMMA RunFrame ==
  ASSUME RunInv, TypeOK', NEW r \in Request, NEW p, p \notin Running,
         pc' = [pc EXCEPT ![r] = p],
         UNCHANGED age \/ age' = [age EXCEPT ![r] = 0],
         \/ UNCHANGED row
         \/ \A q \in Request \ {r} : ~Executing(q)
  PROVE  RunInv'
  BY DEF RunInv, TypeOK, Executing, row

\* Every step keeps it.
LEMMA RunStep == MaxRun < TTL /\ RunInv /\ [Next]_vars => RunInv'
  <1> SUFFICES ASSUME MaxRun < TTL, RunInv, [Next]_vars PROVE RunInv'
    OBVIOUS
  <1>0. TypeOK /\ TypeOK'
    BY TypeStep DEF RunInv
  <1>2. ASSUME NEW r \in Request, Arrive(r) PROVE RunInv'
    BY <1>0, <1>2, RunFrame DEF Arrive, Goto, Running
  <1>3. ASSUME NEW r \in Request, Insert(r) PROVE RunInv'
    <2>1. CASE state = "absent"
      BY <1>0, <1>3, <2>1, TimeAssumption DEF Insert, Claim, Goto, RunInv, Executing, TypeOK, Running
    <2>2. CASE state # "absent"
      BY <1>0, <1>3, <2>2, RunFrame DEF Insert, Goto, Running
    <2> QED BY <2>1, <2>2
  <1>4. ASSUME NEW r \in Request, Look(r) PROVE RunInv'
    BY <1>0, <1>4, VerdictType, RunFrame DEF Look, Answer, Goto, Running
  <1>5. ASSUME NEW r \in Request, DeleteExpired(r) PROVE RunInv'
    <2>1. pc' = [pc EXCEPT ![r] = "insert"] /\ UNCHANGED age
      BY <1>5 DEF DeleteExpired, Goto
    <2>2. CASE Doomed(r)
      <3>1. age[owner] >= TTL /\ owner \in Request
        BY <1>0, <2>2 DEF Doomed, Expired, TypeOK
      <3>2. \A q \in Request : ~Executing(q)
        BY <1>0, <3>1, ExpiredIsNotRunning, TimeAssumption DEF RunInv, TypeOK, Old
      <3> QED BY <1>0, <2>1, <3>2, RunFrame DEF Running
    <2>3. CASE ~Doomed(r)
      BY <1>0, <1>5, <2>1, <2>3, RunFrame DEF DeleteExpired, Running
    <2> QED BY <2>2, <2>3
  <1>6. ASSUME NEW r \in Request, Poll(r) PROVE RunInv'
    BY <1>0, <1>6, RunFrame DEF Poll, Goto, Running
  <1>7. ASSUME NEW r \in Request, GiveUp(r) PROVE RunInv'
    BY <1>0, <1>7, RunFrame DEF GiveUp, Answer, Goto, Running
  <1>8. ASSUME NEW r \in Request, Execute(r) PROVE RunInv'
    BY <1>0, <1>8 DEF Execute, Goto, RunInv, Executing, Running, TypeOK, row
  <1>9. ASSUME NEW r \in Request, Finish(r) PROVE RunInv'
    <2>1. pc[r] = "finish" /\ pc' = [pc EXCEPT ![r] = "own"] /\ UNCHANGED age
      BY <1>9 DEF Finish, Answer, Goto
    <2>2. \A q \in Request \ {r} : ~Executing(q)
      BY <2>1 DEF RunInv, Executing, Running
    <2> QED BY <1>0, <2>1, <2>2, RunFrame DEF Running
  <1>10. ASSUME NEW r \in Request, Fails(r) PROVE RunInv'
    <2>1. CASE InsertReplyLost(r)
      <3>1. \A q \in Request : ~Executing(q)
        BY <2>1 DEF InsertReplyLost, RunInv
      <3> QED BY <1>0, <2>1, <3>1, RunFrame DEF InsertReplyLost, Claim, Answer, Goto, Running
    <2>2. CASE StatementFails(r)
      BY <1>0, <2>2, RunFrame DEF StatementFails, Answer, Goto, Running
    <2>3. CASE ExecuteUncached(r)
      BY <1>0, <2>3 DEF ExecuteUncached, Goto, RunInv, Executing, Running, TypeOK, row
    <2>4. CASE FinishFails(r)
      BY <1>0, <2>4, RunFrame DEF FinishFails, Answer, Goto, Running
    <2>5. CASE Crash(r)
      BY <1>0, <2>5, RunFrame DEF Crash, Goto, Running
    <2> QED BY <1>10, <2>1, <2>2, <2>3, <2>4, <2>5 DEF Fails
  <1>11. CASE ArchiveExpired
    <2>1. age[owner] >= TTL /\ owner \in Request
      BY <1>0, <1>11, TimeAssumption DEF ArchiveExpired, Retained, TypeOK, Old
    <2>2. \A q \in Request : ~Executing(q)
      BY <1>0, <2>1, ExpiredIsNotRunning, TimeAssumption DEF RunInv, TypeOK, Old
    <2> QED BY <1>0, <1>11, <2>2 DEF ArchiveExpired, RunInv, Executing
  <1>12. CASE Tick
    BY <1>0, <1>12, TimeAssumption DEF Tick, RunInv, Executing, TypeOK, row, Old
  <1>13. CASE UNCHANGED vars
    BY <1>0, <1>13 DEF vars, RunInv, Executing, row
  <1> QED
    BY <1>2, <1>3, <1>4, <1>5, <1>6, <1>7, <1>8, <1>9, <1>10, <1>11, <1>12,
       <1>13 DEF Next, Claims, Runs

\* It holds at first, when nothing runs.
LEMMA RunInit == Init => RunInv
  BY InitType DEF Init, RunInv, Executing, Running

\* No two requests run the command at the same time, whatever fails, if
\* handlers stop before the replay window ends.
THEOREM SingleOwner ==
  ASSUME MaxRun < TTL
  PROVE  Spec => []OneOwner
  <1>1. RunInv => OneOwner
    BY DEF RunInv, OneOwner
  <1>2. RunInv /\ [Next]_vars => RunInv'
    BY RunStep
  <1> QED BY <1>1, <1>2, RunInit, PTL DEF Spec

-----------------------------------------------------------------------------

\* What a commit leaves behind when the store may keep its response: the row,
\* for the whole window; and distance from the claim of
\* whoever runs the command later.
WindowInv ==
    /\ RunInv
    /\ \A r \in committed : pc[r] \in {"finish", "own", "gone"}
    /\ \A r \in Kept :
         /\ age[r] < TTL => owner = r /\ state # "absent"
         /\ \A s \in Request : Executing(s) /\ s # r =>
              age[r] = Old \/ age[r] - age[s] >= TTL

\* A request that has not committed, or is about to leave the program, may
\* stop or go on claiming; what was committed before is not disturbed.
LEMMA WindowFrame ==
  ASSUME WindowInv, RunInv', NEW r \in Request, NEW p,
         p \notin Running, r \in committed => p \in {"own", "gone"},
         pc' = [pc EXCEPT ![r] = p],
         UNCHANGED <<age, outcome, committed>>,
         \/ UNCHANGED row
         \/ owner' = owner /\ state' # "absent"
         \/ \A q \in Kept : age[q] >= TTL
  PROVE  WindowInv'
  <1> USE DEF WindowInv, Executing
  <1>0. Kept' = Kept /\ Kept \subseteq Request
    BY DEF Kept, RunInv, TypeOK
  <1>1. ASSUME NEW q \in committed'
        PROVE  pc'[q] \in {"finish", "own", "gone"}
    BY <1>1 DEF RunInv, TypeOK
  <1>2. ASSUME NEW q \in Kept', age'[q] < TTL
        PROVE  owner' = q /\ state' # "absent"
    <2>1. age[q] \in Int /\ TTL \in Int /\ q \in Request
      BY <1>0, <1>2, TimeAssumption DEF RunInv, TypeOK, Old
    <2> QED BY <1>0, <1>2, <2>1 DEF row
  <1>3. ASSUME NEW q \in Kept', NEW s \in Request, Executing(s)', s # q
        PROVE  age'[q] = Old \/ age'[q] - age'[s] >= TTL
    <2>1. Executing(s)
      BY <1>3 DEF RunInv, TypeOK
    <2> QED BY <1>0, <1>3, <2>1
  <1> QED BY <1>1, <1>2, <1>3

\* Whoever expires the row forgets no commit of the current window.
LEMMA ExpiredIsForgettable ==
  ASSUME WindowInv, owner \in Request, age[owner] >= TTL
  PROVE  \A q \in Kept : age[q] >= TTL
  BY TimeAssumption DEF WindowInv, RunInv, TypeOK, Old, Kept

\* A request that runs the command owns the row, and no other runs: what it
\* commits is at least TTL from every commit the store may keep.
LEMMA WindowRun ==
  ASSUME MaxRun < TTL, WindowInv, RunInv', NEW r \in Request, NEW o,
         pc[r] = "run", pc' = [pc EXCEPT ![r] = "finish"],
         outcome' = [outcome EXCEPT ![r] = o],
         committed' \in {committed, committed \cup {r}},
         UNCHANGED <<row, age>>
  PROVE  /\ WindowInv'
         /\ \A q \in committed' \ committed : \A s \in Kept :
              age[s] - age[q] >= TTL
  <1>1. Old \in Nat /\ TTL \in Nat /\ age \in [Request -> 0 .. Old]
        /\ pc \in [Request -> Place] /\ committed \subseteq Request
        /\ outcome \in [Request -> Outcome]
    BY TimeAssumption DEF Old, TypeOK, WindowInv, RunInv
  <1>2. Executing(r) /\ r \notin committed
    BY DEF WindowInv, Executing, Running
  <1>3. owner = r /\ state = "processing" /\ age[r] <= MaxRun
        /\ \A s \in Request \ {r} : ~Executing(s)
    BY <1>2 DEF WindowInv, RunInv
  <1>4. Kept' \subseteq Kept \cup {r} /\ Kept \subseteq Request \ {r}
    BY <1>1, <1>2 DEF Kept
  <1>5. \A s \in Kept : age[s] - age[r] >= TTL
    BY <1>1, <1>2, <1>3, <1>4, TimeAssumption DEF WindowInv, Old
  <1>6. \A q \in committed' : pc'[q] \in {"finish", "own", "gone"}
    BY <1>1 DEF WindowInv
  <1>7. ASSUME NEW q \in Kept', age'[q] < TTL
        PROVE  owner' = q /\ state' # "absent"
    <2>1. CASE q = r
      BY <1>3, <2>1 DEF row
    <2>2. CASE q # r
      BY <1>4, <1>7, <2>2 DEF row, WindowInv
    <2> QED BY <2>1, <2>2
  <1>8. ASSUME NEW q \in Kept', NEW s \in Request, Executing(s)', s # q
        PROVE  age'[q] = Old \/ age'[q] - age'[s] >= TTL
    <2>1. s = r
      BY <1>1, <1>3, <1>8 DEF Executing
    <2> QED BY <1>4, <1>5, <1>8, <2>1
  <1> QED BY <1>1, <1>5, <1>6, <1>7, <1>8 DEF WindowInv

\* Every step keeps it, and a request commits only if every earlier commit the
\* store may keep was claimed at least TTL before it.
LEMMA WindowStep ==
  ASSUME MaxRun < TTL, WindowInv, [Next]_vars
  PROVE  /\ WindowInv'
         /\ \A r \in committed' \ committed : \A s \in Kept :
              age[s] - age[r] >= TTL
  <1> DEFINE Apart == \A r \in committed' \ committed : \A s \in Kept :
                         age[s] - age[r] >= TTL
  <1>0. RunInv /\ RunInv' /\ TypeOK /\ TypeOK'
    BY RunStep DEF WindowInv, RunInv
  <1>a. Old \in Nat /\ TTL \in Nat /\ age \in [Request -> 0 .. Old]
        /\ pc \in [Request -> Place] /\ committed \subseteq Request
    BY <1>0, TimeAssumption DEF Old, TypeOK
  <1>b. \A q \in committed : pc[q] \in {"finish", "own", "gone"}
    BY DEF WindowInv
  <1>c. UNCHANGED committed => Apart
    OBVIOUS
  <1>d. UNCHANGED <<outcome, committed>> => Kept' = Kept
    BY DEF Kept
  <1>e. Kept \subseteq committed
    BY DEF Kept
  <1>2. ASSUME NEW r \in Request, Arrive(r) PROVE WindowInv' /\ Apart
    BY <1>0, <1>b, <1>2, WindowFrame DEF Arrive, Goto, Running
  <1>3. ASSUME NEW r \in Request, Insert(r) PROVE WindowInv' /\ Apart
    <2>1. CASE state = "absent"
      <3>1. r \notin committed /\ \A q \in Kept : age[q] >= TTL /\ q # r
        BY <1>a, <1>b, <1>e, <1>3, <2>1 DEF WindowInv, Insert
      <3>2. /\ UNCHANGED <<outcome, committed>>
            /\ pc' = [pc EXCEPT ![r] = "run"]
            /\ age' = [age EXCEPT ![r] = 0]
            /\ \A s \in Request : ~Executing(s)
        BY <1>0, <1>3, <2>1 DEF Insert, Claim, Goto, RunInv
      <3> QED BY <1>0, <1>a, <1>d, <1>e, <3>1, <3>2 DEF WindowInv, Executing
    <2>2. CASE state # "absent"
      BY <1>0, <1>b, <1>3, <2>2, WindowFrame DEF Insert, Goto, Running
    <2> QED BY <2>1, <2>2
  <1>4. ASSUME NEW r \in Request, Look(r) PROVE WindowInv' /\ Apart
    BY <1>0, <1>b, <1>4, VerdictType, WindowFrame DEF Look, Answer, Goto, Running
  <1>5. ASSUME NEW r \in Request, DeleteExpired(r) PROVE WindowInv' /\ Apart
    <2>1. /\ pc' = [pc EXCEPT ![r] = "insert"]
          /\ UNCHANGED <<age, outcome, committed>>
          /\ r \notin committed
      BY <1>b, <1>5 DEF DeleteExpired, Goto, Deleting
    <2>2. CASE Doomed(r)
      <3>1. age[owner] >= TTL /\ owner \in Request
        BY <1>0, <2>2 DEF Doomed, Expired, TypeOK
      <3> QED BY <1>0, <2>1, <3>1, ExpiredIsForgettable, WindowFrame DEF Running
    <2>3. CASE ~Doomed(r)
      BY <1>0, <1>5, <2>1, <2>3, WindowFrame DEF DeleteExpired, Running
    <2> QED BY <2>2, <2>3
  <1>6. ASSUME NEW r \in Request, Poll(r) PROVE WindowInv' /\ Apart
    BY <1>0, <1>b, <1>6, WindowFrame DEF Poll, Goto, Running
  <1>7. ASSUME NEW r \in Request, GiveUp(r) PROVE WindowInv' /\ Apart
    BY <1>0, <1>b, <1>7, WindowFrame DEF GiveUp, Answer, Goto, Running, Claiming, Deleting
  <1>8. ASSUME NEW r \in Request, Execute(r) PROVE WindowInv' /\ Apart
    <2>1. PICK o \in {"ok", "refused", "error"} :
            outcome' = [outcome EXCEPT ![r] = o]
      BY <1>8 DEF Execute
    <2>2. /\ pc[r] = "run" /\ pc' = [pc EXCEPT ![r] = "finish"]
          /\ committed' \in {committed, committed \cup {r}}
          /\ UNCHANGED <<row, age>>
      BY <1>8 DEF Execute, Goto
    <2> QED BY <1>0, <2>1, <2>2, WindowRun
  <1>9. ASSUME NEW r \in Request, Finish(r) PROVE WindowInv' /\ Apart
    <2>1. /\ pc[r] = "finish" /\ pc' = [pc EXCEPT ![r] = "own"]
          /\ UNCHANGED <<age, outcome, committed>>
      BY <1>9 DEF Finish, Answer, Goto
    <2>2. CASE outcome[r] \in Cacheable
      BY <1>0, <1>9, <2>1, <2>2, WindowFrame DEF Finish, Owns, Running
    <2>3. CASE outcome[r] \notin Cacheable
      <3>1. r \notin Kept
        BY <2>3 DEF Kept
      <3>2. owner = r
        BY <1>0, <2>1 DEF RunInv, Executing, Running
      <3>3. \A q \in Kept : age[q] >= TTL
        BY <1>a, <1>e, <3>1, <3>2 DEF WindowInv
      <3> QED BY <1>0, <2>1, <3>3, WindowFrame DEF Running
    <2> QED BY <2>2, <2>3
  <1>10. ASSUME NEW r \in Request, Fails(r) PROVE WindowInv' /\ Apart
    <2>1. CASE InsertReplyLost(r)
      <3>1. r \notin committed /\ \A q \in Kept : age[q] >= TTL /\ q # r
        BY <1>a, <1>b, <1>e, <2>1 DEF WindowInv, InsertReplyLost
      <3>2. /\ UNCHANGED <<outcome, committed>>
            /\ pc' = [pc EXCEPT ![r] = "unavailable"]
            /\ age' = [age EXCEPT ![r] = 0]
            /\ \A s \in Request : ~Executing(s)
        BY <1>0, <2>1 DEF InsertReplyLost, Claim, Answer, Goto, RunInv
      <3> QED BY <1>0, <1>a, <1>d, <1>e, <3>1, <3>2 DEF WindowInv, Executing, Running
    <2>2. CASE StatementFails(r)
      BY <1>0, <1>b, <2>2, WindowFrame DEF StatementFails, Answer, Goto, Running
    <2>3. CASE ExecuteUncached(r)
      <3>1. PICK o \in {"error", "large"} :
              outcome' = [outcome EXCEPT ![r] = o]
        BY <2>3 DEF ExecuteUncached
      <3>2. /\ pc[r] = "run" /\ pc' = [pc EXCEPT ![r] = "finish"]
            /\ committed' \in {committed, committed \cup {r}}
            /\ UNCHANGED <<row, age>>
        BY <2>3 DEF ExecuteUncached, Goto
      <3> QED BY <1>0, <3>1, <3>2, WindowRun
    <2>4. CASE FinishFails(r)
      BY <1>0, <2>4, WindowFrame DEF FinishFails, Answer, Goto, Running
    <2>5. CASE Crash(r)
      BY <1>0, <2>5, WindowFrame DEF Crash, Goto, Running
    <2> QED BY <1>10, <2>1, <2>2, <2>3, <2>4, <2>5 DEF Fails
  <1>11. CASE ArchiveExpired
    <2>1. age[owner] >= TTL /\ owner \in Request
      BY <1>0, <1>11, TimeAssumption DEF ArchiveExpired, Retained, TypeOK, Old
    <2>2. \A q \in Kept : age[q] >= TTL
      BY <2>1, ExpiredIsForgettable
    <2>3. UNCHANGED <<age, pc, outcome, committed>>
      BY <1>11 DEF ArchiveExpired
    <2> QED BY <1>0, <1>a, <1>d, <1>e, <2>2, <2>3 DEF WindowInv, Executing
  <1>12. CASE Tick
    <2>1. Kept' = Kept /\ UNCHANGED <<row, pc, outcome, committed>>
          /\ \A q \in Request : age'[q] = IF age[q] < Old THEN age[q] + 1 ELSE Old
      BY <1>d, <1>12 DEF Tick
    <2>2. \A s \in Request : Executing(s) => age[s] < Old
      BY <1>a, <1>12, TimeAssumption DEF Tick, Old
    <2>3. ASSUME NEW q \in Kept, NEW s \in Request, Executing(s), s # q
          PROVE  age'[q] = Old \/ age'[q] - age'[s] >= TTL
      <3>1. age[q] = Old \/ age[q] - age[s] >= TTL
        BY <2>3 DEF WindowInv
      <3> QED BY <1>a, <1>e, <2>1, <2>2, <2>3, <3>1
    <2>4. ASSUME NEW q \in Kept, age'[q] < TTL PROVE age[q] < TTL
      BY <1>a, <1>e, <2>1, <2>4, TimeAssumption DEF Old
    <2> QED BY <1>0, <2>1, <2>3, <2>4 DEF WindowInv, Executing, row
  <1>13. CASE UNCHANGED vars
    BY <1>0, <1>d, <1>13 DEF vars, WindowInv, Executing, row
  <1> QED
    BY <1>2, <1>3, <1>4, <1>5, <1>6, <1>7, <1>8, <1>9, <1>10, <1>11, <1>12,
       <1>13 DEF Next, Claims, Runs

\* The command commits at most once per replay window: a commit is
\* claimed at least TTL after any commit whose response the store may keep,
\* whatever crashes, failed statements and lost replies.
THEOREM OncePerWindow ==
  ASSUME MaxRun < TTL
  PROVE  Spec => AtMostOncePerWindow
  <1>1. Init => WindowInv
    BY RunInit DEF Init, WindowInv, Kept
  <1>2. WindowInv /\ [Next]_vars => WindowInv'
    BY WindowStep
  <1>3. WindowInv /\ [Next]_vars =>
          [\A r \in committed' \ committed : \A s \in Kept :
              age[s] - age[r] >= TTL]_vars
    BY WindowStep
  <1> QED BY <1>1, <1>2, <1>3, PTL DEF Spec, AtMostOncePerWindow

\* Under the same assumption the row of such a commit is remembered for
\* the whole window.
THEOREM Remembered ==
  ASSUME MaxRun < TTL
  PROVE  Spec => []CommittedIsRemembered
  <1>1. Init => WindowInv
    BY RunInit DEF Init, WindowInv, Kept
  <1>2. WindowInv /\ [Next]_vars => WindowInv'
    BY WindowStep
  <1>3. WindowInv => CommittedIsRemembered
    BY DEF WindowInv, CommittedIsRemembered, Kept
  <1> QED BY <1>1, <1>2, <1>3, PTL DEF Spec

-----------------------------------------------------------------------------
(* The refinement.                                                         *)

\* Places of a request whose run has come to something.
Done == {"finish", "own", "gone"}

\* A storable response whose window is open has the row: as long as it does,
\* nobody else can run.
LiveInv ==
    /\ RunInv
    /\ ReplayInv
    /\ \A r \in Request : r \in committed \/ outcome[r] # "none" => pc[r] \in Done
    /\ \A r \in Live : owner = r /\ state # "absent"

ShownVars == <<Runners, committed, Live, Replayed>>

\* A request that moves between places where it does not run leaves responses
\* and their row alone, or forgets a row no live response has.
LEMMA LiveFrame ==
  ASSUME LiveInv, RunInv', ReplayInv', NEW r \in Request, NEW p,
         pc' = [pc EXCEPT ![r] = p], pc[r] \in Done => p \in Done,
         UNCHANGED <<age, outcome, committed>>,
         \/ UNCHANGED row
         \/ owner' = owner /\ state' # "absent"
         \/ Live = {}
  PROVE  LiveInv' /\ Live' = Live
<1>1. Live' = Live
  BY DEF Live
<1>2. \A q \in Request : pc'[q] = IF q = r THEN p ELSE pc[q]
  BY DEF RunInv, TypeOK, LiveInv
<1> QED BY <1>1, <1>2 DEF LiveInv, row

\* Such a move does not show.
LEMMA MoveIsHidden ==
  ASSUME TypeOK, NEW r \in Request, NEW p, pc' = [pc EXCEPT ![r] = p],
         {pc[r], p} \cap (Running \cup {"replay"}) = {}
  PROVE  Runners' = Runners /\ Replayed' = Replayed
BY DEF Runners, Replayed, Executing, TypeOK

\* Where the row is gone, or its owner's window is over, nothing is live.
LEMMA NothingLive ==
  ASSUME LiveInv, state = "absent" \/ (age[owner] >= TTL /\ owner \in Request)
  PROVE  Live = {}
<1>1. \A q \in Live : age[q] < TTL /\ owner = q /\ state # "absent" /\ q \in Request
  BY DEF LiveInv, Live
<1> QED BY <1>1, TimeAssumption DEF LiveInv, RunInv, TypeOK, Old

\* A request that runs is alone, and nothing is live until it responds.
LEMMA RunsAlone ==
  ASSUME LiveInv, NEW r \in Request, Executing(r)
  PROVE  /\ Runners = {r}
         /\ owner = r /\ state = "processing"
         /\ Live \subseteq {r}
         /\ pc[r] = "run" => Live = {} /\ r \notin committed
<1>1. owner = r /\ state = "processing" /\ Runners = {r}
  BY DEF LiveInv, RunInv, Runners
<1>2. Live \subseteq {r}
  BY <1>1 DEF LiveInv
<1>3. pc[r] = "run" => outcome[r] = "none" /\ r \notin committed
  BY DEF LiveInv, Done
<1>4. outcome[r] = "none" => r \notin Live
  BY DEF Live, Cacheable
<1> QED BY <1>1, <1>2, <1>3, <1>4

\* While a request claims, it has no response and no effect, and does not run.
LEMMA ClaimsShowNothing ==
  ASSUME LiveInv, NEW r \in Request, pc[r] \in {"new"} \cup Claiming
  PROVE  /\ outcome[r] = "none" /\ r \notin committed
         /\ pc[r] \notin Done \cup Running \cup {"replay"}
BY DEF LiveInv, Done, Claiming, Deleting, Running

\* The INSERT that lands starts the only run; the one whose reply is lost shows
\* nothing.
LEMMA ClaimRefines ==
  ASSUME LiveInv, RunInv', ReplayInv', NEW r \in Request, NEW p \in {"run", "unavailable"},
         pc[r] = "insert", state = "absent", Claim(r), pc' = [pc EXCEPT ![r] = p],
         UNCHANGED <<outcome, committed>>
  PROVE  LiveInv' /\ [Promise!Next]_ShownVars
<1>0. TypeOK /\ pc[r] \in Claiming
  BY DEF LiveInv, RunInv, Claiming
<1>1. outcome[r] = "none" /\ r \notin committed
  BY <1>0, ClaimsShowNothing
<1>2. Live = {}
  BY NothingLive
<1>3. Live' = {}
  BY <1>0, <1>1, <1>2 DEF Live, Claim, TypeOK, Cacheable
<1>4. LiveInv'
  BY <1>0, <1>1, <1>3 DEF LiveInv, TypeOK, Done
<1>5. Runners = {}
  BY DEF LiveInv, RunInv, Runners
<1>6. CASE p = "run"
  <2>1. Runners' = {r} /\ Replayed' = Replayed
    BY <1>0, <1>5, <1>6 DEF Runners, Replayed, Executing, Running, TypeOK
  <2>2. Promise!Start(r)
    BY <1>1, <1>2, <1>3, <1>5, <2>1 DEF Promise!Start
  <2> QED BY <1>4, <2>2 DEF Promise!Next
<1>7. CASE p = "unavailable"
  <2>1. Runners' = Runners /\ Replayed' = Replayed
    BY <1>0, <1>7, MoveIsHidden DEF Running
  <2> QED BY <1>2, <1>3, <1>4, <2>1 DEF ShownVars
<1> QED BY <1>6, <1>7

\* A run comes to something.
LEMMA RunRefines ==
  ASSUME LiveInv, RunInv', ReplayInv', NEW r \in Request, NEW o,
         pc[r] = "run", pc' = [pc EXCEPT ![r] = "finish"],
         outcome' = [outcome EXCEPT ![r] = o],
         committed' \in {committed, committed \cup {r}},
         UNCHANGED <<row, age>>
  PROVE  LiveInv' /\ [Promise!Next]_ShownVars
<1>0. TypeOK /\ Executing(r)
  BY DEF LiveInv, RunInv, Executing, Running
<1>1. /\ Runners = {r} /\ owner = r /\ state = "processing"
      /\ Live = {} /\ r \notin committed
  BY <1>0, RunsAlone
<1>2. Live' \in {{}, {r}}
  BY <1>0, <1>1 DEF Live, TypeOK
<1>3. LiveInv'
  BY <1>0, <1>1, <1>2 DEF LiveInv, TypeOK, Done, row
<1>4. Runners' = Runners /\ Replayed' = Replayed
  BY <1>0 DEF Runners, Replayed, Executing, Running, TypeOK
<1>5. Promise!Respond(r)
  BY <1>1, <1>2, <1>4 DEF Promise!Respond
<1> QED BY <1>3, <1>5 DEF Promise!Next

\* A run is over, however it ends.
LEMMA EndRefines ==
  ASSUME LiveInv, RunInv', ReplayInv', NEW r \in Request, NEW p \in {"own", "gone"},
         Executing(r), pc' = [pc EXCEPT ![r] = p],
         UNCHANGED <<age, outcome, committed>>,
         \/ UNCHANGED row
         \/ owner' = owner /\ state' # "absent"
         \/ outcome[r] \notin Cacheable
  PROVE  LiveInv' /\ [Promise!Next]_ShownVars
<1>0. TypeOK
  BY DEF LiveInv, RunInv
<1>1. Runners = {r} /\ Live \subseteq {r}
  BY RunsAlone
<1>2. outcome[r] \notin Cacheable => Live = {}
  BY <1>1 DEF Live
<1>3. LiveInv' /\ Live' = Live
  BY <1>2, LiveFrame DEF Done
<1>4. Runners' = {} /\ Replayed' = Replayed
  BY <1>0, <1>1 DEF Runners, Replayed, Executing, Running, TypeOK
<1>5. Promise!Stop(r)
  BY <1>1, <1>3, <1>4 DEF Promise!Stop
<1> QED BY <1>3, <1>5 DEF Promise!Next

\* Time closes windows, though never that of a request that is still running.
LEMMA TickRefines ==
  ASSUME MaxRun < TTL, LiveInv, RunInv', ReplayInv', Tick
  PROVE  LiveInv' /\ [Promise!Next]_ShownVars
<1>0. TypeOK /\ UNCHANGED <<row, pc, outcome, committed>>
  BY DEF LiveInv, RunInv, Tick
<1>1. Runners' = Runners /\ Replayed' = Replayed
  BY <1>0 DEF Runners, Replayed, Executing
<1>2. \A q \in Request : age'[q] = IF age[q] < Old THEN age[q] + 1 ELSE Old
  BY DEF Tick
<1>3. Live' \subseteq Live
  BY <1>0, <1>2, TimeAssumption DEF Live, TypeOK, Old
<1>4. LiveInv'
  BY <1>0, <1>3 DEF LiveInv, row
<1>5. CASE Live' = Live
  BY <1>0, <1>1, <1>4, <1>5 DEF ShownVars
<1>6. CASE Live' # Live
  <2>1. PICK q \in Live : q \notin Live'
    BY <1>3, <1>6
  <2>2. q \in Request /\ owner = q /\ outcome[q] \in Cacheable
    BY <2>1 DEF Live, LiveInv
  <2>3. Live \subseteq {q}
    BY <2>2 DEF LiveInv
  <2>4. Live' = {}
    BY <1>3, <2>1, <2>3
  <2>5. age'[q] >= TTL
    <3>1. age'[q] \in Int /\ TTL \in Int
      BY <1>0, <1>2, <2>2, TimeAssumption DEF TypeOK, Old
    <3> QED BY <1>0, <2>1, <2>2, <3>1 DEF Live
  <2>6. ASSUME NEW s \in Request, Executing(s) PROVE FALSE
    <3>1. owner = s /\ Executing(s)' /\ age'[s] <= MaxRun
      BY <1>0, <2>6 DEF LiveInv, RunInv, Executing
    <3>2. age'[s] \in Int
      BY DEF RunInv, TypeOK, Old
    <3> QED BY <2>2, <2>5, <3>1, <3>2, TimeAssumption
  <2>7. Runners = {}
    BY <2>6 DEF Runners
  <2>8. Promise!Close
    BY <1>0, <1>1, <2>4, <2>7 DEF Promise!Close
  <2> QED BY <1>4, <2>8 DEF Promise!Next
<1> QED BY <1>5, <1>6

\* The SELECT of a completed row whose window is open gives its response away;
\* any other shows nothing.
LEMMA LookRefines ==
  ASSUME LiveInv, RunInv', ReplayInv', NEW r \in Request, Look(r)
  PROVE  LiveInv' /\ [Promise!Next]_ShownVars
<1>0. TypeOK /\ pc[r] \in Claiming
  BY DEF Look, Claiming, LiveInv, RunInv
<1>1. /\ pc' = [pc EXCEPT ![r] = Verdict(r)]
      /\ UNCHANGED <<row, age, outcome, committed>>
  BY DEF Look, Answer, Goto
<1>2. pc[r] \notin Done \cup Running \cup {"replay"}
  BY <1>0, ClaimsShowNothing
<1>3. LiveInv' /\ Live' = Live
  BY <1>1, <1>2, LiveFrame
<1>4. CASE Verdict(r) = "replay"
  <2>1. state = "completed" /\ Payload[owner] = Payload[r] /\ owner \in Request
    BY <1>0, <1>4, VerdictType DEF TypeOK
  <2>2. ~Expired
    BY <1>4, <2>1 DEF Verdict
  <2>3. owner \in Live
    <3>1. outcome[owner] \in Cacheable
      BY <2>1 DEF LiveInv, ReplayInv, StoredByOwner
    <3>2. age[owner] \in Int /\ TTL \in Int
      BY <1>0, <2>1, TimeAssumption DEF TypeOK, Old
    <3> QED BY <2>1, <2>2, <3>1, <3>2 DEF Live, Expired
  <2>4. Runners = {}
    BY <2>1 DEF LiveInv, RunInv, Runners
  <2>5. Runners' = Runners /\ Replayed' = Replayed \cup {r}
    BY <1>0, <1>1, <1>2, <1>4 DEF Runners, Replayed, Executing, Running, TypeOK
  <2>6. Promise!Replay(r, owner)
    BY <1>1, <1>3, <2>1, <2>3, <2>4, <2>5 DEF Promise!Replay
  <2> QED BY <1>3, <2>1, <2>6 DEF Promise!Next
<1>5. CASE Verdict(r) # "replay"
  <2>1. Verdict(r) \notin Running
    BY <1>0, VerdictType DEF Running
  <2>2. Runners' = Runners /\ Replayed' = Replayed
    BY <1>0, <1>1, <1>2, <1>5, <2>1, MoveIsHidden
  <2> QED BY <1>1, <1>3, <2>2 DEF ShownVars
<1> QED BY <1>4, <1>5

\* A claim that moves on or ends without a run shows nothing.
LEMMA MoveRefines ==
  ASSUME LiveInv, RunInv', ReplayInv', NEW r \in Request, NEW p,
         pc[r] \in {"new"} \cup Claiming, pc' = [pc EXCEPT ![r] = p],
         p \notin Running \cup {"replay"},
         UNCHANGED <<age, outcome, committed>>, UNCHANGED row \/ Live = {}
  PROVE  LiveInv' /\ [Promise!Next]_ShownVars
<1>0. TypeOK
  BY DEF LiveInv, RunInv
<1>1. pc[r] \notin Done \cup Running \cup {"replay"}
  BY ClaimsShowNothing
<1>2. LiveInv' /\ Live' = Live
  BY <1>1, LiveFrame
<1>3. Runners' = Runners /\ Replayed' = Replayed
  BY <1>0, <1>1, MoveIsHidden
<1> QED BY <1>2, <1>3 DEF ShownVars

\* Every step keeps the invariant, and is a step of OncePromise or shows
\* nothing.
LEMMA LiveStep ==
  ASSUME MaxRun < TTL, LiveInv, [Next]_vars
  PROVE  LiveInv' /\ [Promise!Next]_ShownVars
<1> DEFINE Keeps == LiveInv' /\ [Promise!Next]_ShownVars
<1>0. RunInv' /\ ReplayInv' /\ TypeOK
  BY RunStep, ReplayStep DEF LiveInv, RunInv
<1>1. ASSUME NEW r \in Request, Arrive(r) PROVE Keeps
  BY <1>0, <1>1, MoveRefines DEF Arrive, Goto, Running
<1>2. ASSUME NEW r \in Request, Insert(r) PROVE Keeps
  <2>1. CASE state = "absent"
    BY <1>0, <1>2, <2>1, ClaimRefines DEF Insert, Goto
  <2>2. CASE state # "absent"
    BY <1>0, <1>2, <2>2, MoveRefines DEF Insert, Goto, Running, Claiming
  <2> QED BY <2>1, <2>2
<1>3. ASSUME NEW r \in Request, Look(r) PROVE Keeps
  BY <1>0, <1>3, LookRefines
<1>4. ASSUME NEW r \in Request, DeleteExpired(r) PROVE Keeps
  <2>1. Doomed(r) => Live = {}
    <3> SUFFICES ASSUME Doomed(r) PROVE Live = {}
      OBVIOUS
    <3>1. age[owner] >= TTL /\ owner \in Request
      BY <1>0 DEF Doomed, Expired, TypeOK
    <3> QED BY <3>1, NothingLive
  <2> QED BY <1>0, <1>4, <2>1, MoveRefines DEF DeleteExpired, Goto, Running, Claiming
<1>5. ASSUME NEW r \in Request, Poll(r) PROVE Keeps
  BY <1>0, <1>5, MoveRefines DEF Poll, Goto, Running, Claiming
<1>6. ASSUME NEW r \in Request, GiveUp(r) PROVE Keeps
  BY <1>0, <1>6, MoveRefines DEF GiveUp, Answer, Goto, Running
<1>7. ASSUME NEW r \in Request, Execute(r) PROVE Keeps
  BY <1>0, <1>7, RunRefines DEF Execute, Goto
<1>8. ASSUME NEW r \in Request, Finish(r) PROVE Keeps
  <2>1. Executing(r) /\ pc' = [pc EXCEPT ![r] = "own"]
        /\ UNCHANGED <<age, outcome, committed>>
    BY <1>8 DEF Finish, Answer, Goto, Executing, Running
  <2>2. \/ UNCHANGED row
        \/ owner' = owner /\ state' # "absent"
        \/ outcome[r] \notin Cacheable
    BY <1>8 DEF Finish
  <2> QED BY <1>0, <2>1, <2>2, EndRefines
<1>9. ASSUME NEW r \in Request, Fails(r) PROVE Keeps
  <2>1. CASE InsertReplyLost(r)
    BY <1>0, <2>1, ClaimRefines DEF InsertReplyLost, Answer, Goto
  <2>2. CASE StatementFails(r)
    BY <1>0, <2>2, MoveRefines DEF StatementFails, Answer, Goto, Running, Claiming
  <2>3. CASE ExecuteUncached(r)
    BY <1>0, <2>3, RunRefines DEF ExecuteUncached, Goto
  <2>4. CASE FinishFails(r)
    BY <1>0, <2>4, EndRefines DEF FinishFails, Answer, Goto, Executing, Running
  <2>5. CASE Crash(r)
    <3>1. pc' = [pc EXCEPT ![r] = "gone"] /\ UNCHANGED <<row, age, outcome, committed>>
      BY <2>5 DEF Crash, Goto
    <3>2. CASE Executing(r)
      BY <1>0, <3>1, <3>2, EndRefines
    <3>3. CASE ~Executing(r)
      BY <1>0, <2>5, <3>1, <3>3, MoveRefines DEF Crash, Executing, Running
    <3> QED BY <3>2, <3>3
  <2> QED BY <1>9, <2>1, <2>2, <2>3, <2>4, <2>5 DEF Fails
<1>10. CASE ArchiveExpired
  <2>1. age[owner] >= TTL /\ owner \in Request
    BY <1>0, <1>10, TimeAssumption DEF ArchiveExpired, Retained, TypeOK, Old
  <2>2. Live = {} /\ UNCHANGED <<age, pc, outcome, committed>>
    BY <1>10, <2>1, NothingLive DEF ArchiveExpired
  <2>3. Live' = {} /\ Runners' = Runners /\ Replayed' = Replayed
    BY <2>2 DEF Live, Runners, Replayed, Executing
  <2> QED BY <1>0, <2>2, <2>3 DEF LiveInv, ShownVars
<1>11. CASE Tick
  BY <1>0, <1>11, TickRefines
<1>12. CASE UNCHANGED vars
  <2>1. UNCHANGED ShownVars /\ UNCHANGED <<row, pc, outcome, committed>>
    BY <1>12 DEF vars, ShownVars, Live, Runners, Replayed, Executing
  <2> QED BY <1>0, <2>1 DEF LiveInv, row, ShownVars
<1> QED
  BY <1>1, <1>2, <1>3, <1>4, <1>5, <1>6, <1>7, <1>8, <1>9, <1>10, <1>11, <1>12
     DEF Next, Claims, Runs

\* If handlers stop before the replay window ends, the store implements
\* OncePromise: one run at a time, none while a response is in its window, and
\* only that response is given to others, whatever fails or dies.
THEOREM Refinement ==
  ASSUME MaxRun < TTL
  PROVE  Spec => PromiseKept
<1>1. Init => LiveInv /\ Promise!Init
  <2> SUFFICES ASSUME Init PROVE LiveInv /\ Promise!Init
    OBVIOUS
  <2>1. RunInv /\ ReplayInv
    BY RunInit, InitType DEF Init, ReplayInv, StoredByOwner
  <2>2. Live = {} /\ Runners = {} /\ Replayed = {} /\ committed = {}
    BY DEF Init, Live, Runners, Replayed, Executing, Running, Cacheable
  <2> QED BY <2>1, <2>2 DEF Init, LiveInv, Promise!Init
<1>2. LiveInv /\ [Next]_vars => LiveInv' /\ [Promise!Next]_ShownVars
  BY LiveStep
<1> QED BY <1>1, <1>2, PTL DEF Spec, PromiseKept, Promise!Spec, ShownVars
=============================================================================
