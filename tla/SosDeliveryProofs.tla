-------------------------- MODULE SosDeliveryProofs --------------------------
(***************************************************************************)
(* Proofs about SosDelivery, for every number of contacts, workers and     *)
(* attempts, every batch size and every lease; at the end, that            *)
(* SosDelivery implements SosPromise.                                      *)
(***************************************************************************)
EXTENDS SosDelivery, FiniteSetTheorems, TLAPS

\* The rows of a cancellation keep the type of a status.
LEMMA CancelledType ==
  ASSUME TypeOK, NEW S
  PROVE  Cancelled(S) \in [Contact -> {"absent"} \cup Open \cup Final]
  BY DEF Cancelled, TypeOK, Open, Waiting, Final

LEMMA VerdictType ==
  ASSUME NEW w \in Worker
  PROVE  Verdict(w) \in {"delivered", "dead_letter", "retry"}
  BY DEF Verdict

\* Types hold at first.
LEMMA InitType == Init => TypeOK
  <1> SUFFICES ASSUME Init PROVE TypeOK
    OBVIOUS
  <1>1. 0 \in 0 .. Lease + 1
    BY BoundAssumption
  <1> QED BY <1>1 DEF Init, TypeOK

\* Every step keeps the types.
LEMMA TypeStep == TypeOK /\ [Next]_vars => TypeOK'
  <1> USE BoundAssumption, ContactAssumption
  <1> SUFFICES ASSUME TypeOK, [Next]_vars PROVE TypeOK'
    OBVIOUS
  <1>1. CASE Trigger
    BY <1>1 DEF Trigger, TypeOK, worker, Open, Waiting
  <1>2. CASE Resolve
    BY <1>2, CancelledType DEF Resolve, TypeOK, worker
  <1>3. CASE Erase
    BY <1>3, CancelledType DEF Erase, TypeOK, worker
  <1>4. CASE Expire
    BY <1>4 DEF Expire, TypeOK, outbox, worker
  <1>5. CASE RunRetention
    BY <1>5, CancelledType DEF RunRetention, TypeOK, worker
  <1>6. CASE Tick
    BY <1>6 DEF Tick, TypeOK
  <1>7. ASSUME NEW w \in Worker, Reclaim(w) PROVE TypeOK'
    BY <1>7 DEF Reclaim, Goto, TypeOK, Open, Waiting, Final
  <1>8. ASSUME NEW w \in Worker, Claim(w) PROVE TypeOK'
    <2>1. PICK C \in SUBSET Due :
             /\ status' = [c \in Contact |-> IF c \in C THEN "processing" ELSE status[c]]
             /\ attempts' = [c \in Contact |-> IF c \in C THEN attempts[c] + 1 ELSE attempts[c]]
             /\ age' = [c \in Contact |-> IF c \in C THEN 0 ELSE age[c]]
             /\ seen' = [seen EXCEPT ![w] = [c \in Contact |->
                            IF c \in C THEN attempts[c] + 1 ELSE 0]]
             /\ Goto(w, IF C = {} THEN "idle" ELSE "next")
      BY <1>8 DEF Claim
    <2>2. [c \in Contact |-> IF c \in C THEN attempts[c] + 1 ELSE 0] \in [Contact -> Nat]
      BY DEF TypeOK
    <2> QED BY <1>8, <2>1, <2>2 DEF Claim, Goto, TypeOK, Open
  <1>9. ASSUME NEW w \in Worker, StartSend(w) PROVE TypeOK'
    BY <1>9 DEF StartSend, Goto, TypeOK, InHand, outbox
  <1>10. ASSUME NEW w \in Worker, Send(w) PROVE TypeOK'
    <2>1. PICK heard \in {"ok", "error"}, taken \in BOOLEAN :
             /\ answer' = [answer EXCEPT ![w] = heard]
             /\ accepted' = IF taken THEN accepted \cup {current[w]} ELSE accepted
      BY <1>10 DEF Send
    <2>2. current[w] \in Contact
      BY <1>10 DEF Send, TypeOK
    <2> QED BY <1>10, <2>1, <2>2 DEF Send, Goto, TypeOK, outbox
  <1>13. ASSUME NEW w \in Worker, pc[w] = "finish", PutDown(w) PROVE
            /\ seen' \in [Worker -> [Contact -> Nat]]
            /\ current' \in [Worker -> Contact \cup {Nobody}]
            /\ answer' \in [Worker -> {"none", "ok", "error"}]
            /\ pc' \in [Worker -> {"idle", "claim", "next", "send", "finish"}]
            /\ \A v \in Worker : pc'[v] \in {"send", "finish"} <=> current'[v] # Nobody
    BY <1>13 DEF PutDown, Goto, TypeOK
  <1>11. ASSUME NEW w \in Worker, Finish(w) PROVE TypeOK'
    BY <1>11, <1>13, VerdictType DEF Finish, TypeOK, Open, Waiting, Final
  <1>12. ASSUME NEW w \in Worker, FinishFails(w) PROVE TypeOK'
    BY <1>12, <1>13 DEF FinishFails, TypeOK, outbox
  <1>14. ASSUME NEW w \in Worker, Crash(w) PROVE TypeOK'
    BY <1>14 DEF Crash, Goto, TypeOK, outbox
  <1>15. ASSUME NEW c \in Contact, Ripen(c) PROVE TypeOK'
    BY <1>15 DEF Ripen, TypeOK, worker
  <1>16. CASE UNCHANGED vars
    BY <1>16 DEF vars, outbox, worker, TypeOK
  <1> QED
    BY <1>1, <1>2, <1>3, <1>4, <1>5, <1>6, <1>7, <1>8, <1>9, <1>10, <1>11,
       <1>12, <1>14, <1>15, <1>16 DEF Next, Work

\* Every variable keeps its type: a worker sends and finishes rows of contacts.
THEOREM TypeCorrect == Spec => []TypeOK
  BY InitType, TypeStep, PTL DEF Spec

-----------------------------------------------------------------------------
(* A final status is earned, and stays.                                    *)

\* What the workers know: no one read an attempt the row has not counted, an
\* attempt is in the hands of one worker, a heard "ok" is the provider's.
HandsOK ==
    \A w \in Worker, c \in Contact :
        /\ seen[w][c] <= attempts[c]
        /\ \A v \in Worker : seen[v][c] = seen[w][c] /\ seen[w][c] > 0 => v = w
        /\ pc[w] \in {"send", "finish"} => seen[w][current[w]] > 0
        /\ pc[w] = "finish" /\ answer[w] = "ok" => current[w] \in accepted

VerdictInv ==
    /\ TypeOK
    /\ HandsOK
    /\ VerdictsEarned
    /\ alert = "none" => \A c \in Contact : status[c] = "absent" /\ attempts[c] = 0

LEMMA InitVerdict == Init => VerdictInv
  <1> SUFFICES ASSUME Init PROVE VerdictInv
    OBVIOUS
  <1>1. \A c \in Contact : status[c] = "absent" /\ attempts[c] = 0
    BY DEF Init
  <1>2. \A w \in Worker : pc[w] = "idle" /\ \A c \in Contact : seen[w][c] = 0
    BY DEF Init
  <1>3. HandsOK
    BY <1>1, <1>2 DEF HandsOK
  <1> QED BY <1>1, <1>3, InitType DEF VerdictInv, VerdictsEarned

\* A step that keeps the workers' batches, the counts and the answers, and
\* writes no final status but "cancelled", keeps the invariant.
LEMMA VerdictFrame ==
  ASSUME VerdictInv, TypeOK', UNCHANGED <<attempts, accepted, pc, seen, current, answer>>,
         \A c \in Contact : status'[c] \in {status[c], "pending", "cancelled"},
         alert' = "none" => UNCHANGED <<alert, status>>
  PROVE  VerdictInv'
  <1>1. HandsOK'
    BY DEF VerdictInv, HandsOK
  <1>2. VerdictsEarned'
    BY DEF VerdictInv, VerdictsEarned
  <1>3. (alert = "none" => \A c \in Contact : status[c] = "absent" /\ attempts[c] = 0)'
    BY DEF VerdictInv
  <1> QED BY <1>1, <1>2, <1>3 DEF VerdictInv

\* Every step keeps it. A late worker's verdict rests on its own attempt, which
\* the row has counted.
LEMMA VerdictStep == VerdictInv /\ [Next]_vars => VerdictInv'
  <1> USE BoundAssumption, ContactAssumption
  <1> SUFFICES ASSUME VerdictInv, [Next]_vars PROVE VerdictInv'
    OBVIOUS
  <1>0. TypeOK /\ TypeOK'
    BY TypeStep DEF VerdictInv
  <1>1. CASE Trigger
    BY <1>0, <1>1, VerdictFrame DEF Trigger, TypeOK, worker
  <1>2. CASE Resolve
    BY <1>0, <1>2, VerdictFrame DEF Resolve, Cancelled, TypeOK, worker
  <1>3. CASE Erase
    BY <1>0, <1>3, VerdictFrame DEF Erase, Cancelled, TypeOK, worker
  <1>4. CASE Expire
    BY <1>0, <1>4, VerdictFrame DEF Expire, outbox, worker
  <1>5. CASE RunRetention
    <2>1. CASE alert = "none"
      BY <1>0, <1>5, <2>1, VerdictFrame DEF RunRetention, Cancelled, VerdictInv,
         TypeOK, Open, Waiting, worker
    <2>2. CASE alert # "none"
      BY <1>0, <1>5, <2>2, VerdictFrame DEF RunRetention, Cancelled, TypeOK, worker
    <2> QED BY <2>1, <2>2
  <1>6. CASE Tick
    BY <1>0, <1>6, VerdictFrame DEF Tick
  <1>7. ASSUME NEW w \in Worker, Reclaim(w) PROVE VerdictInv'
    <2>1. HandsOK'
      BY <1>0, <1>7 DEF Reclaim, Goto, VerdictInv, HandsOK, TypeOK
    <2>2. VerdictsEarned'
      BY <1>0, <1>7 DEF Reclaim, VerdictInv, VerdictsEarned, TypeOK
    <2>3. alert = "none" => status' = status
      BY <1>0, <1>7 DEF Reclaim, VerdictInv, Overdue, TypeOK
    <2> QED BY <1>0, <1>7, <2>1, <2>2, <2>3 DEF Reclaim, VerdictInv
  <1>8. ASSUME NEW w \in Worker, Claim(w) PROVE VerdictInv'
    <2>1. PICK C \in SUBSET Due :
             /\ status' = [c \in Contact |-> IF c \in C THEN "processing" ELSE status[c]]
             /\ attempts' = [c \in Contact |-> IF c \in C THEN attempts[c] + 1 ELSE attempts[c]]
             /\ seen' = [seen EXCEPT ![w] = [c \in Contact |->
                            IF c \in C THEN attempts[c] + 1 ELSE 0]]
             /\ Goto(w, IF C = {} THEN "idle" ELSE "next")
      BY <1>8 DEF Claim
    <2>2. \A c \in Contact : seen'[w][c] = IF c \in C THEN attempts[c] + 1 ELSE 0
      BY <1>0, <2>1 DEF TypeOK
    <2>3. \A v \in Worker \ {w} : seen'[v] = seen[v] /\ pc'[v] = pc[v]
      BY <1>0, <2>1 DEF TypeOK, Goto
    <2>4. pc'[w] \in {"idle", "next"}
      BY <1>0, <2>1 DEF TypeOK, Goto
    <2>5. \A c \in Contact : /\ attempts[c] \in Nat
                             /\ attempts'[c] = IF c \in C THEN attempts[c] + 1 ELSE attempts[c]
                             /\ \A v \in Worker : seen[v][c] \in Nat
      BY <1>0, <2>1 DEF TypeOK
    <2>6. UNCHANGED <<alert, accepted, current, answer>>
      BY <1>8 DEF Claim
    <2>7. HandsOK'
      <3> SUFFICES ASSUME NEW v \in Worker, NEW c \in Contact
                   PROVE /\ seen'[v][c] <= attempts'[c]
                         /\ \A u \in Worker : seen'[u][c] = seen'[v][c] /\ seen'[v][c] > 0 => u = v
                         /\ pc'[v] \in {"send", "finish"} => seen'[v][current'[v]] > 0
                         /\ pc'[v] = "finish" /\ answer'[v] = "ok" => current'[v] \in accepted'
        BY DEF HandsOK
      <3>1. seen'[v][c] <= attempts'[c]
        BY <2>2, <2>3, <2>5 DEF VerdictInv, HandsOK
      <3>2. ASSUME NEW u \in Worker, seen'[u][c] = seen'[v][c], seen'[v][c] > 0 PROVE u = v
        <4>1. CASE u # w /\ v # w
          BY <3>2, <4>1, <2>3 DEF VerdictInv, HandsOK
        <4>2. CASE u = w /\ v # w
          BY <3>2, <4>2, <2>2, <2>3, <2>5 DEF VerdictInv, HandsOK
        <4>3. CASE u # w /\ v = w
          BY <3>2, <4>3, <2>2, <2>3, <2>5 DEF VerdictInv, HandsOK
        <4> QED BY <4>1, <4>2, <4>3
      <3>3. CASE v = w
        BY <3>1, <3>2, <3>3, <2>4
      <3>4. CASE v # w
        BY <3>1, <3>2, <3>4, <2>3, <2>6 DEF VerdictInv, HandsOK
      <3> QED BY <3>3, <3>4
    <2>8. VerdictsEarned'
      BY <1>0, <2>1, <2>5, <2>6 DEF VerdictInv, VerdictsEarned, TypeOK
    <2>9. alert = "none" => UNCHANGED <<status, attempts>>
      BY <1>0, <2>1 DEF VerdictInv, Due, Waiting, TypeOK
    <2> QED BY <1>0, <2>6, <2>7, <2>8, <2>9 DEF VerdictInv
  <1>9. ASSUME NEW w \in Worker, StartSend(w) PROVE VerdictInv'
    <2>1. PICK c \in InHand(w) : current' = [current EXCEPT ![w] = c]
      BY <1>9 DEF StartSend
    <2>2. HandsOK'
      BY <1>0, <1>9, <2>1 DEF StartSend, Goto, InHand, VerdictInv, HandsOK, TypeOK, outbox
    <2> QED BY <1>0, <1>9, <2>2 DEF StartSend, VerdictInv, VerdictsEarned, outbox
  <1>10. ASSUME NEW w \in Worker, Send(w) PROVE VerdictInv'
    <2>1. PICK heard \in {"ok", "error"}, taken \in BOOLEAN :
             /\ heard = "ok" => taken
             /\ answer' = [answer EXCEPT ![w] = heard]
             /\ accepted' = IF taken THEN accepted \cup {current[w]} ELSE accepted
      BY <1>10 DEF Send
    <2>2. HandsOK'
      BY <1>0, <1>10, <2>1 DEF Send, Goto, VerdictInv, HandsOK, TypeOK, outbox
    <2>3. VerdictsEarned'
      BY <1>10, <2>1 DEF Send, VerdictInv, VerdictsEarned, outbox
    <2> QED BY <1>0, <1>10, <2>2, <2>3 DEF Send, VerdictInv, outbox
  <1>11. ASSUME NEW w \in Worker, pc[w] = "finish", PutDown(w),
                UNCHANGED <<attempts, accepted>> PROVE HandsOK'
    <2>1. /\ seen'[w] = [seen[w] EXCEPT ![current[w]] = 0]
          /\ \A v \in Worker \ {w} : seen'[v] = seen[v] /\ pc'[v] = pc[v]
                                     /\ current'[v] = current[v] /\ answer'[v] = answer[v]
          /\ pc'[w] \in {"idle", "next"}
      BY <1>0, <1>11 DEF PutDown, Goto, TypeOK
    <2>2. \A c \in Contact, v \in Worker : seen'[v][c] = seen[v][c] \/ seen'[v][c] = 0
      <3>1. \A c \in Contact : seen'[w][c] = seen[w][c] \/ seen'[w][c] = 0
        <4>1. seen[w] \in [Contact -> Nat]
          BY <1>0 DEF TypeOK
        <4> QED BY <2>1, <4>1
      <3> QED BY <2>1, <3>1
    <2>3. \A c \in Contact, v \in Worker : seen[v][c] \in Nat /\ attempts[c] \in Nat
      BY <1>0 DEF TypeOK
    <2> QED BY <1>11, <2>1, <2>2, <2>3 DEF VerdictInv, HandsOK
  <1>12. ASSUME NEW w \in Worker, Finish(w) PROVE VerdictInv'
    <2>1. HandsOK'
      BY <1>11, <1>12 DEF Finish
    <2>2. /\ current[w] \in Contact
          /\ Verdict(w) = "delivered" => current[w] \in accepted
          /\ Verdict(w) = "dead_letter" => attempts[current[w]] >= MaxAttempts
      <3>1. current[w] \in Contact
        BY <1>0, <1>12 DEF Finish, TypeOK
      <3>2. seen[w][current[w]] \in Nat /\ attempts[current[w]] \in Nat
        BY <1>0, <3>1 DEF TypeOK
      <3> QED BY <1>12, <3>1, <3>2 DEF Finish, Verdict, VerdictInv, HandsOK
    <2>3. VerdictsEarned'
      BY <1>0, <1>12, <2>2 DEF Finish, VerdictInv, VerdictsEarned, TypeOK
    <2>4. alert = "none" => status' = status
      BY <1>12, <2>2 DEF Finish, Finishable, VerdictInv
    <2>5. alert' = alert /\ attempts' = attempts
      BY <1>12 DEF Finish
    <2> QED BY <1>0, <2>5, <2>1, <2>3, <2>4 DEF Finish, VerdictInv
  <1>13. ASSUME NEW w \in Worker, FinishFails(w) PROVE VerdictInv'
    BY <1>0, <1>11, <1>13 DEF FinishFails, VerdictInv, VerdictsEarned, outbox
  <1>14. ASSUME NEW w \in Worker, Crash(w) PROVE VerdictInv'
    <2>1. /\ \A c \in Contact : seen'[w][c] = 0
          /\ \A v \in Worker \ {w} : seen'[v] = seen[v] /\ pc'[v] = pc[v]
                                     /\ current'[v] = current[v] /\ answer'[v] = answer[v]
          /\ pc'[w] = "idle"
      BY <1>0, <1>14 DEF Crash, Goto, TypeOK
    <2>2. \A c \in Contact, v \in Worker : seen[v][c] \in Nat /\ attempts[c] \in Nat
      BY <1>0 DEF TypeOK
    <2>3. HandsOK'
      BY <1>14, <2>1, <2>2 DEF Crash, outbox, VerdictInv, HandsOK
    <2> QED BY <1>0, <1>14, <2>3 DEF Crash, outbox, VerdictInv, VerdictsEarned
  <1>15. ASSUME NEW c \in Contact, Ripen(c) PROVE VerdictInv'
    BY <1>0, <1>15, VerdictFrame DEF Ripen, worker
  <1>16. CASE UNCHANGED vars
    BY <1>0, <1>16, VerdictFrame DEF vars, outbox, worker
  <1> QED
    BY <1>1, <1>2, <1>3, <1>4, <1>5, <1>6, <1>7, <1>8, <1>9, <1>10, <1>12,
       <1>13, <1>14, <1>15, <1>16 DEF Next, Work

\* However leases expire and late workers finish, a delivered row was accepted
\* by the provider and a dead one had all its attempts.
THEOREM Earned == Spec => []VerdictsEarned
  <1>1. VerdictInv => VerdictsEarned
    BY DEF VerdictInv
  <1> QED BY <1>1, InitVerdict, VerdictStep, PTL DEF Spec

\* No step takes a final row up again.
LEMMA FinalStep ==
  ASSUME VerdictInv, [Next]_vars
  PROVE  \A c \in Contact : status[c] \in Final => status'[c] = status[c]
  <1> SUFFICES ASSUME NEW c \in Contact, status[c] \in Final PROVE status'[c] = status[c]
    OBVIOUS
  <1>0. TypeOK
    BY DEF VerdictInv
  <1>1. CASE Trigger
    BY <1>1 DEF Trigger, VerdictInv, Final
  <1>2. CASE Resolve \/ Erase \/ RunRetention
    BY <1>0, <1>2 DEF Resolve, Erase, RunRetention, Cancelled, Open, Waiting, Final
  <1>3. CASE Expire \/ Tick \/ \E d \in Contact : Ripen(d)
    BY <1>3 DEF Expire, Tick, Ripen, outbox
  <1>4. ASSUME NEW w \in Worker, Reclaim(w) PROVE status'[c] = status[c]
    BY <1>4 DEF Reclaim, Overdue, Final
  <1>5. ASSUME NEW w \in Worker, Claim(w) PROVE status'[c] = status[c]
    BY <1>5 DEF Claim, Due, Waiting, Final
  <1>6. ASSUME NEW w \in Worker, StartSend(w) \/ Send(w) \/ FinishFails(w) \/ Crash(w)
        PROVE  status'[c] = status[c]
    BY <1>6 DEF StartSend, Send, FinishFails, Crash, outbox
  <1>7. ASSUME NEW w \in Worker, Finish(w) PROVE status'[c] = status[c]
    BY <1>0, <1>7 DEF Finish, Finishable, Final, TypeOK
  <1>8. CASE UNCHANGED vars
    BY <1>8 DEF vars, outbox
  <1> QED BY <1>1, <1>2, <1>3, <1>4, <1>5, <1>6, <1>7, <1>8 DEF Next, Work

\* What was delivered, given up or cancelled stays so, whoever is late.
THEOREM FinalForGood == Spec => FinalStays
  <1>1. VerdictInv /\ [Next]_vars =>
            [\A c \in Contact : status[c] \in Final => status'[c] = status[c]]_vars
    BY FinalStep
  <1> QED BY <1>1, InitVerdict, VerdictStep, PTL DEF Spec, FinalStays

-----------------------------------------------------------------------------
(* The number of attempts is bounded.                                      *)

\* Attempts short of the last that a worker still has in its hands: each of
\* them may put the row back once, even when the row has had its attempts.
Stale(c) == {k \in 1 .. MaxAttempts - 1 : \E w \in Worker : seen[w][c] = k}

Again(c) == IF status[c] \in Waiting THEN 1 ELSE 0

Counted(c) ==
    attempts[c] >= MaxAttempts =>
        attempts[c] + Cardinality(Stale(c)) + Again(c) <= 2 * MaxAttempts - 1

CountInv == VerdictInv /\ \A c \in Contact : Counted(c)

LEMMA StaleFinite ==
  ASSUME NEW c \in Contact
  PROVE  /\ IsFiniteSet(Stale(c)) /\ Cardinality(Stale(c)) \in 0 .. MaxAttempts - 1
         /\ IsFiniteSet(Stale(c)') /\ Cardinality(Stale(c)') \in 0 .. MaxAttempts - 1
  <1>1. /\ IsFiniteSet(1 .. MaxAttempts - 1)
        /\ Cardinality(1 .. MaxAttempts - 1) = MaxAttempts - 1
    BY BoundAssumption, FS_Interval
  <1>2. Stale(c) \in SUBSET (1 .. MaxAttempts - 1) /\ Stale(c)' \in SUBSET (1 .. MaxAttempts - 1)
    BY DEF Stale
  <1>3. ASSUME NEW T \in SUBSET (1 .. MaxAttempts - 1)
        PROVE  IsFiniteSet(T) /\ Cardinality(T) <= MaxAttempts - 1
    <2>1. /\ IsFiniteSet(T)
          /\ Cardinality(T) <= Cardinality(1 .. MaxAttempts - 1)
      BY <1>1, FS_Subset
    <2> QED BY <1>1, <2>1
  <1>4. Cardinality(Stale(c)) \in Nat /\ Cardinality(Stale(c)') \in Nat
    BY <1>2, <1>3, FS_CardinalityType
  <1> QED BY <1>2, <1>3, <1>4, BoundAssumption

\* A row that is not taken up, whose batches only shrink and that is not put
\* back keeps its count.
LEMMA CountFrame ==
  ASSUME CountInv, TypeOK', NEW c \in Contact, attempts'[c] = attempts[c],
         \A w \in Worker : seen'[w][c] \in {seen[w][c], 0},
         status'[c] \in Waiting => status[c] \in Waiting \/ attempts[c] < MaxAttempts
  PROVE  Counted(c)'
  <1>1. Stale(c)' \in SUBSET Stale(c)
    BY DEF Stale
  <1>2. Cardinality(Stale(c)') <= Cardinality(Stale(c))
    BY <1>1, StaleFinite, FS_Subset
  <1>3. attempts[c] \in Nat /\ Cardinality(Stale(c)) \in Nat /\ Cardinality(Stale(c)') \in Nat
    BY StaleFinite DEF CountInv, VerdictInv, TypeOK
  <1> QED BY <1>2, <1>3, BoundAssumption DEF CountInv, Counted, Again

\* A row that a worker puts back with an attempt short of the last loses that
\* attempt: no other worker has it.
LEMMA CountPutBack ==
  ASSUME CountInv, NEW w \in Worker, NEW c \in Contact,
         attempts'[c] = attempts[c], seen[w][c] \in 1 .. MaxAttempts - 1,
         seen'[w][c] = 0, \A v \in Worker \ {w} : seen'[v][c] = seen[v][c],
         status[c] \notin Waiting
  PROVE  Counted(c)'
  <1>1. Stale(c)' \in SUBSET (Stale(c) \ {seen[w][c]})
    <2> SUFFICES ASSUME NEW k \in Stale(c)' PROVE k \in Stale(c) /\ k # seen[w][c]
      OBVIOUS
    <2>1. PICK v \in Worker : seen'[v][c] = k
      BY DEF Stale
    <2>2. k \in 1 .. MaxAttempts - 1 /\ v # w /\ seen[v][c] = k
      BY <2>1, BoundAssumption DEF Stale
    <2> QED BY <2>2 DEF Stale, CountInv, VerdictInv, HandsOK
  <1>2. seen[w][c] \in Stale(c)
    BY DEF Stale
  <1>3. /\ IsFiniteSet(Stale(c) \ {seen[w][c]})
        /\ Cardinality(Stale(c) \ {seen[w][c]}) = Cardinality(Stale(c)) - 1
    BY <1>2, StaleFinite, FS_RemoveElement
  <1>4. Cardinality(Stale(c)') <= Cardinality(Stale(c)) - 1
    BY <1>1, <1>3, FS_Subset
  <1>5. attempts[c] \in Nat /\ Cardinality(Stale(c)) \in Nat /\ Cardinality(Stale(c)') \in Nat
    BY StaleFinite DEF CountInv, VerdictInv, TypeOK
  <1> QED BY <1>4, <1>5, BoundAssumption DEF CountInv, Counted, Again

\* A claim uses the row's waiting up, and reads an attempt that is not short of
\* the last once the row has had its attempts.
LEMMA CountClaim ==
  ASSUME CountInv, NEW w \in Worker, NEW c \in Contact, status[c] \in Waiting,
         status'[c] = "processing", attempts'[c] = attempts[c] + 1,
         seen'[w][c] = attempts[c] + 1,
         \A v \in Worker \ {w} : seen'[v][c] = seen[v][c]
  PROVE  Counted(c)'
  <1>1. /\ attempts[c] \in Nat
        /\ Cardinality(Stale(c)) \in 0 .. MaxAttempts - 1
        /\ Cardinality(Stale(c)') \in 0 .. MaxAttempts - 1
    BY StaleFinite DEF CountInv, VerdictInv, TypeOK
  <1>2. ASSUME attempts[c] >= MaxAttempts PROVE Cardinality(Stale(c)') <= Cardinality(Stale(c))
    <2>1. Stale(c)' \in SUBSET Stale(c)
      BY <1>1, <1>2, BoundAssumption DEF Stale
    <2> QED BY <2>1, StaleFinite, FS_Subset
  <1>3. Again(c)' = 0
    BY DEF Again, Waiting
  <1>4. CASE attempts[c] >= MaxAttempts
    BY <1>1, <1>2, <1>3, <1>4, BoundAssumption DEF CountInv, Counted, Again
  <1>5. CASE attempts[c] < MaxAttempts
    BY <1>1, <1>3, <1>5, BoundAssumption DEF Counted
  <1> QED BY <1>1, <1>4, <1>5, BoundAssumption

\* Every step keeps the count.
LEMMA CountStep == CountInv /\ [Next]_vars => CountInv'
  <1> USE BoundAssumption, ContactAssumption
  <1> SUFFICES ASSUME CountInv, [Next]_vars PROVE CountInv'
    OBVIOUS
  <1>0. TypeOK /\ TypeOK' /\ VerdictInv /\ VerdictInv'
    BY VerdictStep DEF CountInv, VerdictInv
  <1> SUFFICES ASSUME NEW c \in Contact PROVE Counted(c)'
    BY <1>0 DEF CountInv
  <1>1. CASE Trigger
    <2>1. \A k \in Contact : attempts'[k] = attempts[k] /\ seen' = seen
      BY <1>1 DEF Trigger, worker
    <2>2. attempts[c] < MaxAttempts
      BY <1>0, <1>1 DEF Trigger, VerdictInv
    <2> QED BY <1>0, <2>1, <2>2, CountFrame
  <1>2. CASE Resolve \/ Erase \/ RunRetention
    BY <1>0, <1>2, CountFrame DEF Resolve, Erase, RunRetention, Cancelled, Waiting, worker
  <1>3. CASE Expire \/ Tick \/ \E d \in Contact : Ripen(d)
    BY <1>0, <1>3, CountFrame DEF Expire, Tick, Ripen, outbox, worker
  <1>4. ASSUME NEW w \in Worker, Reclaim(w) PROVE Counted(c)'
    <2>1. attempts[c] \in Nat
      BY <1>0 DEF TypeOK
    <2> QED BY <1>0, <1>4, <2>1, CountFrame DEF Reclaim, Waiting
  <1>5. ASSUME NEW w \in Worker, Claim(w) PROVE Counted(c)'
    <2>1. PICK C \in SUBSET Due :
             /\ status' = [d \in Contact |-> IF d \in C THEN "processing" ELSE status[d]]
             /\ attempts' = [d \in Contact |-> IF d \in C THEN attempts[d] + 1 ELSE attempts[d]]
             /\ seen' = [seen EXCEPT ![w] = [d \in Contact |->
                            IF d \in C THEN attempts[d] + 1 ELSE 0]]
      BY <1>5 DEF Claim
    <2>2. /\ seen'[w][c] = IF c \in C THEN attempts[c] + 1 ELSE 0
          /\ \A v \in Worker \ {w} : seen'[v] = seen[v]
      BY <1>0, <2>1 DEF TypeOK
    <2>3. CASE c \in C
      BY <2>1, <2>2, <2>3, CountClaim DEF Due
    <2>4. CASE c \notin C
      BY <1>0, <2>1, <2>2, <2>4, CountFrame
    <2> QED BY <2>3, <2>4
  <1>6. ASSUME NEW w \in Worker, StartSend(w) \/ Send(w) PROVE Counted(c)'
    BY <1>0, <1>6, CountFrame DEF StartSend, Send, outbox
  <1>7. ASSUME NEW w \in Worker, pc[w] = "finish", PutDown(w)
        PROVE  /\ current[w] \in Contact /\ seen'[w][current[w]] = 0
               /\ \A v \in Worker, d \in Contact :
                     v # w \/ d # current[w] => seen'[v][d] = seen[v][d]
    <2>1. current[w] \in Contact
      BY <1>0, <1>7 DEF TypeOK
    <2>2. seen \in [Worker -> [Contact -> Nat]]
      BY <1>0 DEF TypeOK
    <2> QED BY <1>7, <2>1, <2>2 DEF PutDown
  <1>8. ASSUME NEW w \in Worker, Finish(w) PROVE Counted(c)'
    <2>1. PutDown(w) /\ pc[w] = "finish" /\ attempts' = attempts
      BY <1>8 DEF Finish
    <2>2. \A v \in Worker : seen'[v][c] \in {seen[v][c], 0}
      BY <1>7, <2>1
    <2>3. CASE c = current[w] /\ status'[c] \in Waiting /\ status[c] \notin Waiting
      <3>1. Verdict(w) = "retry"
        BY <1>0, <1>8, <2>3 DEF Finish, Waiting, Verdict, TypeOK
      <3>2. seen[w][c] < MaxAttempts /\ seen[w][c] > 0
        <4>1. seen[w][c] \in Nat
          BY <1>0 DEF TypeOK
        <4> QED BY <1>0, <2>1, <2>3, <3>1, <4>1 DEF Verdict, VerdictInv, HandsOK
      <3>3. seen[w][c] \in 1 .. MaxAttempts - 1
        BY <1>0, <3>2 DEF TypeOK
      <3> QED BY <1>7, <2>1, <2>3, <3>3, CountPutBack
    <2>4. CASE ~(c = current[w] /\ status'[c] \in Waiting /\ status[c] \notin Waiting)
      <3>1. status'[c] \in Waiting => status[c] \in Waiting
        BY <1>0, <1>8, <2>4 DEF Finish, TypeOK
      <3> QED BY <1>0, <2>1, <2>2, <3>1, CountFrame
    <2> QED BY <2>3, <2>4
  <1>9. ASSUME NEW w \in Worker, FinishFails(w) PROVE Counted(c)'
    <2>1. \A v \in Worker : seen'[v][c] \in {seen[v][c], 0}
      BY <1>7, <1>9 DEF FinishFails
    <2> QED BY <1>0, <1>9, <2>1, CountFrame DEF FinishFails, outbox
  <1>10. ASSUME NEW w \in Worker, Crash(w) PROVE Counted(c)'
    <2>1. \A v \in Worker : seen'[v][c] \in {seen[v][c], 0}
      BY <1>0, <1>10 DEF Crash, TypeOK
    <2> QED BY <1>0, <1>10, <2>1, CountFrame DEF Crash, outbox
  <1>11. CASE UNCHANGED vars
    BY <1>0, <1>11, CountFrame DEF vars, outbox, worker
  <1> QED BY <1>1, <1>2, <1>3, <1>4, <1>5, <1>6, <1>8, <1>9, <1>10, <1>11 DEF Next, Work

LEMMA InitCount == Init => CountInv
  <1> SUFFICES ASSUME Init PROVE CountInv
    OBVIOUS
  <1>1. \A c \in Contact : Counted(c)
    BY BoundAssumption DEF Init, Counted
  <1> QED BY <1>1, InitVerdict DEF CountInv

LEMMA CountBounds == CountInv => AttemptsBounded
  <1> SUFFICES ASSUME CountInv, NEW c \in Contact PROVE attempts[c] <= 2 * MaxAttempts - 1
    BY DEF AttemptsBounded
  <1>1. attempts[c] \in Nat /\ Cardinality(Stale(c)) \in Nat
    BY StaleFinite, BoundAssumption DEF CountInv, VerdictInv, TypeOK
  <1> QED BY <1>1, BoundAssumption DEF CountInv, Counted, Again

\* Late workers can put a row back, but never without end: it has at most
\* 2 * MaxAttempts - 1 attempts.
THEOREM Bounded == Spec => []AttemptsBounded
  BY CountBounds, InitCount, CountStep, PTL DEF Spec

-----------------------------------------------------------------------------
(* The refinement.                                                         *)

\* A step that ends no row and makes no attempt shows nothing.
LEMMA PromiseStutters ==
  ASSUME TypeOK, TypeOK', UNCHANGED <<attempts, accepted>>,
         \A c \in Contact : \/ status[c] \in Open /\ status'[c] \in Open
                            \/ status'[c] = status[c]
  PROVE  UNCHANGED <<Outcome, attempts, accepted>>
BY DEF Outcome

\* Rows that go from open to one and the same end.
LEMMA PromiseEnds ==
  ASSUME TypeOK, NEW C \in SUBSET Contact, NEW end \in Final,
         \A c \in C : status[c] \in Open /\ status'[c] = end,
         \A c \in Contact \ C : \/ status[c] \in Open /\ status'[c] \in Open
                                \/ status'[c] = status[c]
  PROVE  /\ Promise!Ends(C, end)
         /\ \A c \in C : Outcome[c] = "open"
<1>1. \A c \in Contact :
         (IF status'[c] \in Open THEN "open" ELSE status'[c])
           = IF c \in C THEN end ELSE IF status[c] \in Open THEN "open" ELSE status[c]
  BY DEF Final, Open, Waiting
<1>2. Outcome' = [c \in Contact |-> IF status'[c] \in Open THEN "open" ELSE status'[c]]
  BY DEF Outcome
<1>3. \A c \in Contact : Outcome[c] = IF status[c] \in Open THEN "open" ELSE status[c]
  BY DEF Outcome
<1> QED BY <1>1, <1>2, <1>3 DEF Promise!Ends

LEMMA TriggerRaises ==
  ASSUME VerdictInv, Trigger
  PROVE  Promise!Next
<1>1. PICK C \in SUBSET Contact :
         status' = [c \in Contact |-> IF c \in C THEN "pending" ELSE status[c]]
  BY DEF Trigger
<1>2. \A c \in Contact : status[c] = "absent" /\ Outcome[c] = "absent"
  BY DEF Trigger, VerdictInv, Outcome, Open, Waiting
<1>3. Promise!Ends(C, "open")
  <2>1. Outcome' = [c \in Contact |-> IF status'[c] \in Open THEN "open" ELSE status'[c]]
    BY DEF Outcome
  <2>2. \A c \in Contact : (IF status'[c] \in Open THEN "open" ELSE status'[c])
                             = IF c \in C THEN "open" ELSE Outcome[c]
    BY <1>1, <1>2 DEF Open, Waiting
  <2> QED BY <2>1, <2>2 DEF Promise!Ends
<1>4. Promise!Raise(C)
  BY <1>2, <1>3 DEF Promise!Raise, Trigger
<1> QED BY <1>4 DEF Promise!Next

LEMMA CancelCancels ==
  ASSUME VerdictInv, Resolve \/ Erase \/ RunRetention
  PROVE  Promise!Next
<1>1. PICK S \in {Waiting, Open} : status' = Cancelled(S)
  BY DEF Resolve, Erase, RunRetention
<1> DEFINE C == {c \in Contact : status[c] \in S}
<1>2. /\ \A c \in C : status[c] \in Open /\ status'[c] = "cancelled"
      /\ \A c \in Contact \ C : status'[c] = status[c]
  BY <1>1 DEF Cancelled, Open
<1>3. C \in SUBSET Contact /\ "cancelled" \in Final /\ TypeOK
  BY DEF Final, VerdictInv
<1> HIDE DEF C
<1>4. Promise!Ends(C, "cancelled") /\ \A c \in C : Outcome[c] = "open"
  BY <1>2, <1>3, PromiseEnds
<1>5. UNCHANGED <<attempts, accepted>>
  BY DEF Resolve, Erase, RunRetention
<1>6. Promise!Cancel(C)
  BY <1>4, <1>5 DEF Promise!Cancel
<1> QED BY <1>3, <1>6 DEF Promise!Next

\* A lease that is over ends the row that has had its attempts.
LEMMA ReclaimGivesUp ==
  ASSUME VerdictInv, NEW w \in Worker, Reclaim(w)
  PROVE  Promise!Next
<1> DEFINE C == {c \in Contact : Overdue(c) /\ attempts[c] >= MaxAttempts}
<1>1. \A c \in Contact : status'[c] = IF ~Overdue(c) THEN status[c]
                                      ELSE IF attempts[c] >= MaxAttempts THEN "dead_letter"
                                      ELSE "retry"
  BY DEF Reclaim
<1>2. /\ \A c \in C : status[c] \in Open /\ status'[c] = "dead_letter"
      /\ \A c \in Contact \ C : \/ status[c] \in Open /\ status'[c] \in Open
                                \/ status'[c] = status[c]
  BY <1>1 DEF Overdue, Open, Waiting
<1>3. C \in SUBSET Contact /\ "dead_letter" \in Final /\ TypeOK
  BY DEF Final, VerdictInv
<1>4. \A c \in C : attempts[c] >= MaxAttempts
  OBVIOUS
<1> HIDE DEF C
<1>5. Promise!Ends(C, "dead_letter") /\ \A c \in C : Outcome[c] = "open"
  BY <1>2, <1>3, PromiseEnds
<1>6. UNCHANGED <<attempts, accepted>>
  BY DEF Reclaim
<1>7. Promise!GiveUp(C)
  BY <1>4, <1>5, <1>6 DEF Promise!GiveUp
<1> QED BY <1>3, <1>7 DEF Promise!Next

LEMMA ClaimTries ==
  ASSUME VerdictInv, TypeOK', AttemptsBounded', NEW w \in Worker, Claim(w)
  PROVE  Promise!Next
<1>1. PICK C \in SUBSET Due :
         /\ status' = [c \in Contact |-> IF c \in C THEN "processing" ELSE status[c]]
         /\ attempts' = [c \in Contact |-> IF c \in C THEN attempts[c] + 1 ELSE attempts[c]]
  BY DEF Claim
<1>2. C \in SUBSET Contact /\ \A c \in C : status[c] \in Open /\ status'[c] \in Open
  BY <1>1 DEF Due, Open
<1>3. UNCHANGED Outcome
  <2>1. \A c \in Contact : \/ status[c] \in Open /\ status'[c] \in Open
                           \/ status'[c] = status[c]
    BY <1>1, <1>2
  <2> QED BY <2>1 DEF Outcome
<1>4. \A c \in C : Outcome[c] = "open" /\ attempts[c] < 2 * MaxAttempts - 1
  <2> SUFFICES ASSUME NEW c \in C
               PROVE  Outcome[c] = "open" /\ attempts[c] < 2 * MaxAttempts - 1
    OBVIOUS
  <2>1. attempts'[c] = attempts[c] + 1 /\ attempts'[c] <= 2 * MaxAttempts - 1
    BY <1>1, <1>2 DEF AttemptsBounded
  <2>2. attempts[c] \in Nat
    BY <1>2 DEF VerdictInv, TypeOK
  <2> QED BY <1>2, <2>1, <2>2, BoundAssumption DEF Outcome
<1>5. Promise!Try(C)
  BY <1>1, <1>3, <1>4 DEF Promise!Try, Claim
<1> QED BY <1>2, <1>5 DEF Promise!Next

LEMMA SendTells ==
  ASSUME VerdictInv, NEW w \in Worker, Send(w)
  PROVE  [Promise!Next]_<<Outcome, attempts, accepted>>
<1>1. UNCHANGED <<Outcome, attempts>>
  BY DEF Send, outbox, Outcome
<1>2. current[w] \in Contact /\ attempts[current[w]] > 0
  <2>1. current[w] \in Contact /\ pc[w] = "send"
    BY ContactAssumption DEF Send, VerdictInv, TypeOK
  <2>2. seen[w][current[w]] \in Nat /\ attempts[current[w]] \in Nat
    BY <2>1 DEF VerdictInv, TypeOK
  <2> QED BY <2>1, <2>2 DEF VerdictInv, HandsOK
<1>3. accepted' = accepted \/ accepted' = accepted \cup {current[w]}
  BY DEF Send
<1>4. CASE accepted' = accepted
  BY <1>1, <1>4
<1>5. CASE accepted' = accepted \cup {current[w]}
  BY <1>1, <1>2, <1>5 DEF Promise!Next, Promise!Tell
<1> QED BY <1>3, <1>4, <1>5

\* A worker ends a row with what it heard, or puts it back, or leaves it.
LEMMA FinishEnds ==
  ASSUME VerdictInv, TypeOK', NEW w \in Worker, Finish(w)
  PROVE  [Promise!Next]_<<Outcome, attempts, accepted>>
<1> DEFINE c == current[w]
<1>1. TypeOK /\ c \in Contact /\ UNCHANGED <<attempts, accepted>>
  BY DEF Finish, VerdictInv, TypeOK
<1>2. \A d \in Contact \ {c} : status'[d] = status[d]
  BY <1>1 DEF Finish, TypeOK
<1>3. CASE ~Finishable(c)
  BY <1>1, <1>3, PromiseStutters DEF Finish
<1>4. CASE Finishable(c)
  <2>1. status[c] \in Open /\ status'[c] = Verdict(w)
    BY <1>1, <1>4 DEF Finish, Finishable, Open, TypeOK
  <2>2. CASE Verdict(w) = "delivered"
    <3>1. Promise!Ends({c}, "delivered") /\ Outcome[c] = "open"
      BY <1>1, <1>2, <2>1, <2>2, PromiseEnds DEF Final
    <3>2. c \in accepted
      BY <1>1, <2>2 DEF Finish, Verdict, VerdictInv, HandsOK
    <3>3. Promise!Deliver(c)
      BY <1>1, <3>1, <3>2 DEF Promise!Deliver
    <3> QED BY <1>1, <3>3 DEF Promise!Next
  <2>3. CASE Verdict(w) = "dead_letter"
    <3>1. Promise!Ends({c}, "dead_letter") /\ Outcome[c] = "open"
      BY <1>1, <1>2, <2>1, <2>3, PromiseEnds DEF Final
    <3>2. attempts[c] >= MaxAttempts
      <4>1. seen[w][c] \in Nat /\ attempts[c] \in Nat
        BY <1>1 DEF TypeOK
      <4> QED BY <1>1, <2>3, <4>1, BoundAssumption DEF Verdict, VerdictInv, HandsOK
    <3>3. Promise!GiveUp({c})
      BY <1>1, <3>1, <3>2 DEF Promise!GiveUp
    <3> QED BY <1>1, <3>3 DEF Promise!Next
  <2>4. CASE Verdict(w) = "retry"
    BY <1>1, <1>2, <2>1, <2>4, PromiseStutters DEF Open, Waiting
  <2> QED BY <2>2, <2>3, <2>4 DEF Verdict
<1> QED BY <1>3, <1>4

LEMMA PromiseStep ==
  ASSUME CountInv, [Next]_vars
  PROVE  [Promise!Next]_<<Outcome, attempts, accepted>>
<1>0. VerdictInv /\ TypeOK /\ TypeOK' /\ AttemptsBounded'
  BY TypeStep, CountStep, CountBounds, PTL DEF CountInv, VerdictInv
<1>1. CASE Trigger
  BY <1>0, <1>1, TriggerRaises
<1>2. CASE Resolve \/ Erase \/ RunRetention
  BY <1>0, <1>2, CancelCancels
<1>3. ASSUME NEW w \in Worker, Work(w)
      PROVE  [Promise!Next]_<<Outcome, attempts, accepted>>
  <2>1. CASE StartSend(w) \/ FinishFails(w)
    BY <1>0, <2>1, PromiseStutters DEF StartSend, FinishFails, outbox
  <2> QED BY <1>0, <1>3, <2>1, ReclaimGivesUp, ClaimTries, SendTells, FinishEnds DEF Work
<1>4. CASE Expire \/ Tick \/ (\E c \in Contact : Ripen(c)) \/ (\E w \in Worker : Crash(w))
           \/ UNCHANGED vars
  BY <1>0, <1>4, PromiseStutters DEF Expire, Tick, Ripen, Crash, outbox, vars
<1> QED BY <1>1, <1>2, <1>3, <1>4 DEF Next

\* The delivery of an alert implements SosPromise: whatever order leases expire,
\* workers come late, answers are lost and rows are cancelled in, each contact's
\* row is tried a bounded number of times and ends once, in the way it earned.
THEOREM Refinement == Spec => PromiseKept
<1>1. Init => Promise!Init
  BY DEF Init, Promise!Init, Outcome, Open, Waiting
<1>2. CountInv /\ [Next]_vars => [Promise!Next]_<<Outcome, attempts, accepted>>
  BY PromiseStep
<1> QED BY <1>1, <1>2, InitCount, CountStep, PTL DEF Spec, PromiseKept, Promise!Spec
=============================================================================
