---------------------------- MODULE DatePlansProofs ----------------------------
(***************************************************************************)
(* Proofs about DatePlans: what an accepted plan and a resolved one rest   *)
(* on, and that no circle is alarmed without reason, for every number of   *)
(* plans, of terms and of answers; at the end, that DatePlans implements   *)
(* DatePromise.                                                            *)
(***************************************************************************)
EXTENDS DatePlans, TLAPS

\* A device never knows of more than there is, and a device that names the
\* present version shows the present terms.
ReadInv ==
    \A m \in Member :
        read[m].plan = plans =>
            /\ read[m].version <= version
            /\ read[m].version = version => read[m].terms = terms

\* Whoever proposed the present terms agreed to them.
OwnerInv == status = "proposed" => consented[owner] = terms

\* What a sweep has found is of a plan that is late.
ScanInv == scan # {} => phase = "late" /\ status \notin {"none", "proposed"}

\* No plan is read before it exists.
PlanInv == \A m \in Member : read[m].plan <= plans

PlansInv ==
    /\ TypeOK /\ AgreedTerms /\ VerdictIsMutual
    /\ ReadInv /\ OwnerInv /\ ScanInv /\ PlanInv

LEMMA InitPlans == Init => PlansInv
  <1> SUFFICES ASSUME Init PROVE PlansInv
    OBVIOUS
  <1> USE BoundAssumption DEF Init
  <1>1. TypeOK
    <2>1. Unread \in [plan : 0 .. MaxPlans, version : Nat, terms : 0 .. MaxTerms]
      BY DEF Unread
    <2>2. read \in [Member -> [plan : 0 .. MaxPlans, version : Nat, terms : 0 .. MaxTerms]]
      BY <2>1
    <2>3. consented \in [Member -> 0 .. MaxTerms]
      OBVIOUS
    <2>4. debrief \in [Member -> Answers \cup {"none"}]
      BY DEF NoAnswers
    <2>5. together \in BOOLEAN /\ secondyes \in BOOLEAN
      OBVIOUS
    <2>6. {blocks, checkedin, escalated, scan} \subseteq SUBSET Member
      OBVIOUS
    <2>7. plans \in 0 .. MaxPlans /\ terms \in 0 .. MaxTerms /\ version \in Nat
      OBVIOUS
    <2> QED BY <2>2, <2>3, <2>4, <2>5, <2>6, <2>7 DEF TypeOK
  <1>2. AgreedTerms /\ VerdictIsMutual
    BY DEF AgreedTerms, VerdictIsMutual, Resolved, NoAnswers
  <1>3. ReadInv /\ OwnerInv /\ ScanInv /\ PlanInv
    BY DEF ReadInv, OwnerInv, ScanInv, PlanInv, Unread
  <1> QED BY <1>1, <1>2, <1>3 DEF PlansInv

-----------------------------------------------------------------------------
(* What each kind of step disturbs                                         *)

\* The pair ends, blocks or unblocks: no plan changes.
LEMMA PairKeeps ==
  ASSUME PlansInv, together' \in BOOLEAN, blocks' \subseteq Member,
         UNCHANGED <<deal, status, version, phase, night, scan>>
  PROVE  PlansInv'
  BY DEF PlansInv, TypeOK, AgreedTerms, VerdictIsMutual, ReadInv, OwnerInv, ScanInv,
     PlanInv, deal, night

LEMMA ReadKeeps ==
  ASSUME PlansInv, NEW m \in Member, Read(m)
  PROVE  PlansInv'
  <1> DEFINE now == [plan |-> plans, version |-> version, terms |-> terms]
  <1>1. /\ read' = [read EXCEPT ![m] = now]
        /\ UNCHANGED <<pair, plans, owner, terms, consented, status, version, phase,
                       night, scan>>
    BY DEF Read
  <1>2. TypeOK /\ plans \in 0 .. MaxPlans /\ terms \in 0 .. MaxTerms /\ version \in Nat
    BY DEF PlansInv, TypeOK
  <1>3. now \in [plan : 0 .. MaxPlans, version : Nat, terms : 0 .. MaxTerms]
    BY <1>2
  <1>4. TypeOK'
    BY <1>1, <1>2, <1>3 DEF TypeOK, pair, night
  <1>5. AgreedTerms' /\ VerdictIsMutual' /\ OwnerInv' /\ ScanInv'
    BY <1>1 DEF PlansInv, AgreedTerms, VerdictIsMutual, OwnerInv, ScanInv, pair, night
  <1>6. \A x \in Member : read'[x] = IF x = m THEN now ELSE read[x]
    BY <1>1, <1>2 DEF TypeOK
  <1>7. ReadInv' /\ PlanInv'
    BY <1>1, <1>2, <1>6, BoundAssumption DEF PlansInv, ReadInv, PlanInv
  <1> QED BY <1>4, <1>5, <1>7 DEF PlansInv

\* What the two actions that write terms have in common.
LEMMA NewTermsFacts ==
  ASSUME TypeOK, NEW m \in Member, NEW p \in 0 .. MaxPlans, NEW v \in Nat,
         NewTerms(m, p, v)
  PROVE  /\ owner' = m /\ version' = v /\ version' \in Nat
         /\ terms' = terms + 1 /\ terms' \in 0 .. MaxTerms
         /\ read' \in [Member -> [plan : 0 .. MaxPlans, version : Nat,
                                  terms : 0 .. MaxTerms]]
         /\ \A x \in Member :
               read'[x] = IF x = m THEN [plan |-> p, version |-> v, terms |-> terms']
                                   ELSE read[x]
  <1>1. terms' = terms + 1 /\ terms' \in 0 .. MaxTerms
    BY BoundAssumption DEF NewTerms, TypeOK
  <1> DEFINE now == [plan |-> p, version |-> v, terms |-> terms + 1]
  <1>2. now \in [plan : 0 .. MaxPlans, version : Nat, terms : 0 .. MaxTerms]
    BY <1>1
  <1>3. read' = [read EXCEPT ![m] = now]
    BY DEF NewTerms
  <1> QED BY <1>1, <1>2, <1>3 DEF NewTerms, TypeOK

LEMMA ProposeKeeps ==
  ASSUME PlansInv, NEW m \in Member, Propose(m)
  PROVE  PlansInv'
  <1> USE DEF PlansInv
  <1>1. /\ plans' = plans + 1 /\ plans' \in 0 .. MaxPlans /\ plans \in Nat
        /\ plans' # 0 /\ plans \in 0 .. MaxPlans
    BY BoundAssumption DEF Propose, TypeOK
  <1>2. NewTerms(m, plans + 1, 0)
    BY DEF Propose
  <1>3. /\ owner' = m /\ version' = 0
        /\ terms' = terms + 1 /\ terms' \in 0 .. MaxTerms
        /\ read' \in [Member -> [plan : 0 .. MaxPlans, version : Nat,
                                 terms : 0 .. MaxTerms]]
        /\ \A x \in Member :
              read'[x] = IF x = m THEN [plan |-> plans', version |-> 0, terms |-> terms']
                                  ELSE read[x]
    BY <1>1, <1>2, NewTermsFacts
  <1>4. /\ status' = "proposed" /\ phase' \in {"before", "open", "over"}
        /\ consented' = [x \in Member |-> IF x = m THEN terms' ELSE 0]
        /\ checkedin' = {} /\ escalated' = {} /\ debrief' = NoAnswers
        /\ secondyes' = FALSE /\ scan' = {} /\ UNCHANGED pair
    BY <1>3 DEF Propose, FreshRows
  <1>5. TypeOK'
    <2>1. consented' \in [Member -> 0 .. MaxTerms]
      BY <1>3, <1>4, BoundAssumption
    <2>2. NoAnswers \in [Member -> Answers \cup {"none"}]
      BY DEF NoAnswers
    <2> QED BY <1>1, <1>3, <1>4, <2>1, <2>2 DEF TypeOK, Open, pair
  <1>6. AgreedTerms' /\ ScanInv'
    BY <1>4 DEF AgreedTerms, ScanInv, Resolved
  <1>7. VerdictIsMutual'
    BY <1>3, <1>4 DEF VerdictIsMutual, NoAnswers, Resolved
  <1>8. OwnerInv'
    BY <1>3, <1>4 DEF OwnerInv
  <1>9. ReadInv' /\ PlanInv'
    <2>1. \A x \in Member : read[x].plan \in Nat /\ read[x].plan <= plans
      BY DEF TypeOK, PlanInv
    <2> QED BY <1>1, <1>3, <2>1 DEF ReadInv, PlanInv
  <1> QED BY <1>5, <1>6, <1>7, <1>8, <1>9

LEMMA CounterKeeps ==
  ASSUME PlansInv, NEW m \in Member, Counter(m)
  PROVE  PlansInv'
  <1> USE DEF PlansInv
  <1>1. plans \in 0 .. MaxPlans /\ version \in Nat
    BY DEF TypeOK
  <1>2. /\ owner' = m /\ version' = version + 1 /\ version' \in Nat
        /\ terms' = terms + 1 /\ terms' \in 0 .. MaxTerms
        /\ read' \in [Member -> [plan : 0 .. MaxPlans, version : Nat,
                                 terms : 0 .. MaxTerms]]
        /\ \A x \in Member :
              read'[x] = IF x = m
                         THEN [plan |-> plans, version |-> version', terms |-> terms']
                         ELSE read[x]
    <2>1. NewTerms(m, plans, version + 1) /\ version + 1 \in Nat
      BY <1>1 DEF Counter
    <2> QED BY <1>1, <2>1, NewTermsFacts
  <1>3. /\ status = "proposed" /\ phase' = "before"
        /\ consented' = [consented EXCEPT ![m] = terms']
        /\ UNCHANGED <<pair, plans, status, night, scan>>
    BY <1>2 DEF Counter
  <1>4. TypeOK'
    <2>1. consented' \in [Member -> 0 .. MaxTerms]
      BY <1>2, <1>3 DEF TypeOK
    <2> QED BY <1>2, <1>3, <2>1 DEF TypeOK, pair, night
  <1>5. AgreedTerms' /\ VerdictIsMutual' /\ ScanInv'
    BY <1>3 DEF AgreedTerms, VerdictIsMutual, ScanInv, Resolved, night
  <1>6. OwnerInv'
    BY <1>2, <1>3 DEF OwnerInv, TypeOK
  <1>7. ReadInv' /\ PlanInv'
    <2>1. \A x \in Member : read[x].version \in Nat
      BY DEF TypeOK
    <2> QED BY <1>1, <1>2, <1>3, <2>1 DEF ReadInv, PlanInv
  <1> QED BY <1>4, <1>5, <1>6, <1>7

LEMMA DecideKeeps ==
  ASSUME PlansInv, NEW m \in Member, NEW decision \in {"accepted", "declined"},
         Decide(m, decision)
  PROVE  PlansInv'
  <1> USE DEF PlansInv
  <1>1. /\ status = "proposed" /\ m # owner /\ owner \in Member
        /\ status' = decision /\ version' = version + 1
        /\ consented' = [consented EXCEPT
                           ![m] = IF decision = "accepted" THEN read[m].terms ELSE @]
        /\ UNCHANGED <<pair, plans, owner, terms, read, phase, night, scan>>
        /\ read[m].plan = plans /\ Fits(m)
    BY DEF Decide, TypeOK
  <1>2. read[m].terms = terms
    BY <1>1 DEF ReadInv, Fits, TypeOK
  <1>3. TypeOK'
    BY <1>1 DEF TypeOK, Open, Closed, pair, night
  <1>4. AgreedTerms'
    <2>1. CASE decision = "declined"
      BY <1>1, <2>1 DEF AgreedTerms, Resolved
    <2>2. CASE decision = "accepted"
      <3>1. consented'[m] = terms /\ consented'[owner] = terms
        BY <1>1, <1>2, <2>2 DEF OwnerInv, TypeOK
      <3>2. \A x \in Member : x = m \/ x = owner
        BY <1>1, PairAssumption
      <3> QED BY <1>1, <3>1, <3>2 DEF AgreedTerms
    <2> QED BY <2>1, <2>2
  <1>5. VerdictIsMutual'
    BY <1>1 DEF VerdictIsMutual, Resolved, night
  <1>6. OwnerInv' /\ ScanInv'
    BY <1>1 DEF OwnerInv, ScanInv
  <1>7. ReadInv' /\ PlanInv'
    BY <1>1 DEF ReadInv, PlanInv, TypeOK
  <1> QED BY <1>3, <1>4, <1>5, <1>6, <1>7

\* Cancel and Expire.
LEMMA CloseKeeps ==
  ASSUME PlansInv, status \in Open, status' \in {"cancelled", "expired"},
         version' = version + 1, UNCHANGED <<pair, deal, phase, night, scan>>
  PROVE  PlansInv'
  <1> USE DEF PlansInv
  <1>1. TypeOK'
    BY DEF TypeOK, Open, Closed, pair, deal, night
  <1>2. AgreedTerms' /\ OwnerInv' /\ ScanInv'
    BY DEF AgreedTerms, OwnerInv, ScanInv, Open, Resolved
  <1>3. VerdictIsMutual'
    BY DEF VerdictIsMutual, Open, Resolved, night
  <1>4. ReadInv' /\ PlanInv'
    BY DEF ReadInv, PlanInv, TypeOK, deal
  <1> QED BY <1>1, <1>2, <1>3, <1>4

LEMMA CheckInKeeps ==
  ASSUME PlansInv, NEW m \in Member, CheckIn(m)
  PROVE  PlansInv'
  BY DEF PlansInv, CheckIn, TypeOK, AgreedTerms, VerdictIsMutual, ReadInv, OwnerInv,
     ScanInv, PlanInv, pair, deal

\* The verdict says what the answers say.
LEMMA VerdictSays ==
  ASSUME NEW d \in [Member -> Answers \cup {"none"}], NEW m \in Member
  PROVE  /\ Verdict(d) \in {"accepted"} \cup Resolved
         /\ Verdict(d) = "accepted" <=> \E x \in Member : d[x] = "none"
         /\ Verdict(d) = "completed" <=> \A x \in Member : d[x] \in {"yes", "again"}
         /\ Verdict(d) = "did_not_happen" <=> \A x \in Member : d[x] = "no"
  BY DEF Verdict, Resolved, Answers

LEMMA DebriefKeeps ==
  ASSUME PlansInv, NEW m \in Member, NEW a \in Answers, Debrief(m, a)
  PROVE  PlansInv'
  <1> USE DEF PlansInv
  <1>1. /\ status = "accepted" /\ status' = Verdict(debrief')
        /\ debrief' = [debrief EXCEPT ![m] = a]
        /\ version' = IF status' = status THEN version ELSE version + 1
        /\ secondyes' = (secondyes \/ \A x \in Member : debrief'[x] = "again")
        /\ UNCHANGED <<pair, deal, phase, checkedin, escalated, scan>>
    BY DEF Debrief
  <1>2. debrief' \in [Member -> Answers \cup {"none"}]
    BY <1>1 DEF TypeOK
  <1>3. /\ status' \in {"accepted"} \cup Resolved
        /\ status' = "accepted" <=> \E x \in Member : debrief'[x] = "none"
        /\ status' = "completed" <=> \A x \in Member : debrief'[x] \in {"yes", "again"}
        /\ status' = "did_not_happen" <=> \A x \in Member : debrief'[x] = "no"
    BY <1>1, <1>2, VerdictSays
  <1>4. TypeOK'
    BY <1>1, <1>2, <1>3 DEF TypeOK, Open, Closed, Resolved, pair, deal
  <1>5. AgreedTerms' /\ OwnerInv' /\ ScanInv'
    BY <1>1, <1>3 DEF AgreedTerms, OwnerInv, ScanInv, Resolved, deal
  <1>6. VerdictIsMutual'
    <2>1. ~secondyes
      BY <1>1 DEF VerdictIsMutual, Resolved
    <2>2. status' \in Resolved <=> \A x \in Member : debrief'[x] # "none"
      BY <1>3 DEF Resolved
    <2> QED BY <1>1, <1>3, <2>1, <2>2 DEF VerdictIsMutual
  <1>7. ReadInv' /\ PlanInv'
    BY <1>1 DEF ReadInv, PlanInv, TypeOK, deal
  <1> QED BY <1>4, <1>5, <1>6, <1>7

LEMMA TickKeeps ==
  ASSUME PlansInv, Tick
  PROVE  PlansInv'
  <1> USE DEF PlansInv
  <1>1. /\ phase # "late" /\ phase' \in {"open", "over", "late"}
        /\ UNCHANGED <<pair, deal, status, version, night, scan>>
    BY DEF Tick, TypeOK
  <1> QED BY <1>1 DEF TypeOK, AgreedTerms, VerdictIsMutual, ReadInv, OwnerInv, ScanInv,
                     PlanInv, pair, deal, night

\* The sweep reads and marks rows of participants.
LEMMA SweepKeeps ==
  ASSUME PlansInv, scan' \subseteq Member, escalated' \subseteq Member,
         scan' # {} \/ escalated' # escalated =>
            phase = "late" /\ status \notin {"none", "proposed"},
         UNCHANGED <<pair, deal, status, version, phase, checkedin, debrief, secondyes>>
  PROVE  PlansInv'
  BY DEF PlansInv, TypeOK, AgreedTerms, VerdictIsMutual, ReadInv, OwnerInv, ScanInv,
     PlanInv, pair, deal

LEMMA ScanKeeps == PlansInv /\ Scan => PlansInv'
  <1> SUFFICES ASSUME PlansInv, Scan PROVE PlansInv'
    OBVIOUS
  <1>1. /\ scan' \subseteq Member /\ phase = "late" /\ status = "accepted"
        /\ UNCHANGED <<pair, deal, status, version, phase, night>>
    BY DEF Scan, Missing
  <1>2. escalated \subseteq Member
    BY DEF PlansInv, TypeOK
  <1> QED BY <1>1, <1>2, SweepKeeps DEF night

LEMMA EscalateKeeps ==
  ASSUME PlansInv, NEW m \in Member, Escalate(m)
  PROVE  PlansInv'
  <1>1. scan # {} /\ phase = "late" /\ status \notin {"none", "proposed"}
    BY DEF PlansInv, ScanInv, Escalate
  <1>2. scan' \subseteq Member /\ escalated' \subseteq Member
    BY DEF PlansInv, TypeOK, Escalate
  <1> QED BY <1>1, <1>2, SweepKeeps DEF Escalate

LEMMA PlansStep ==
  ASSUME PlansInv, [Next]_vars
  PROVE  PlansInv'
  <1>0. together \in BOOLEAN /\ blocks \subseteq Member
    BY DEF PlansInv, TypeOK
  <1>1. CASE Unmatch
    BY <1>0, <1>1, PairKeeps DEF Unmatch
  <1>2. CASE \E m \in Member : Block(m) \/ Unblock(m)
    BY <1>0, <1>2, PairKeeps DEF Block, Unblock
  <1>3. CASE \E m \in Member : Read(m) \/ Propose(m) \/ Counter(m) \/ CheckIn(m)
    BY <1>3, ReadKeeps, ProposeKeeps, CounterKeeps, CheckInKeeps
  <1>4. CASE \E m \in Member, decision \in {"accepted", "declined"} : Decide(m, decision)
    BY <1>4, DecideKeeps
  <1>5. CASE Expire \/ \E m \in Member : Cancel(m)
    BY <1>5, CloseKeeps DEF Expire, Cancel, Open
  <1>6. CASE \E m \in Member, a \in Answers : Debrief(m, a)
    BY <1>6, DebriefKeeps
  <1>7. CASE Tick \/ Scan \/ \E m \in Member : Escalate(m)
    BY <1>7, TickKeeps, ScanKeeps, EscalateKeeps
  <1>8. CASE UNCHANGED vars
    BY <1>0, <1>8, PairKeeps DEF vars, pair
  <1> QED
    BY <1>1, <1>2, <1>3, <1>4, <1>5, <1>6, <1>7, <1>8 DEF Next

-----------------------------------------------------------------------------

THEOREM PlansInvHolds == Spec => []PlansInv
  <1>1. PlansInv /\ [Next]_vars => PlansInv'
    BY PlansStep
  <1> QED BY <1>1, InitPlans, PTL DEF Spec

\* The types.
THEOREM TypesHold == Spec => []TypeOK
  <1>1. PlansInv => TypeOK
    BY DEF PlansInv
  <1> QED BY <1>1, PlansInvHolds, PTL

\* An accepted plan has the terms both members proposed or saw and accepted.
THEOREM TermsAreAgreed == Spec => []AgreedTerms
  <1>1. PlansInv => AgreedTerms
    BY DEF PlansInv
  <1> QED BY <1>1, PlansInvHolds, PTL

\* A verdict, and the news of a second yes, rest on the answers of both members.
THEOREM VerdictsAreMutual == Spec => []VerdictIsMutual
  <1>1. PlansInv => VerdictIsMutual
    BY DEF PlansInv
  <1> QED BY <1>1, PlansInvHolds, PTL

\* A circle is alarmed only for a member who has not checked in, and only when the
\* window has been over for three hours.
THEOREM AlarmsAreTrue == Spec => AlarmIsTrue
  <1> DEFINE Alarm == \A m \in escalated' \ escalated : m \notin checkedin /\ phase = "late"
  <1>1. ASSUME PlansInv, NEW m \in Member, Escalate(m) PROVE Alarm
    <2>1. phase = "late"
      BY <1>1 DEF PlansInv, ScanInv, Escalate
    <2> QED BY <1>1, <2>1 DEF Escalate, StillMissing
  <1>2. ASSUME escalated' \subseteq escalated PROVE Alarm
    BY <1>2
  <1>3. ASSUME [Next]_vars, ~\E m \in Member : Escalate(m)
        PROVE  escalated' \subseteq escalated
    BY <1>3 DEF Next, Unmatch, Tick, Expire, Scan, Block, Unblock, Read, Propose,
       FreshRows, Counter, Cancel, Decide, CheckIn, Debrief, vars, night
  <1>4. PlansInv /\ [Next]_vars => [Alarm]_vars
    BY <1>1, <1>2, <1>3
  <1> QED BY <1>4, PlansInvHolds, PTL DEF Spec, AlarmIsTrue
-----------------------------------------------------------------------------
(* The refinement.                                                         *)

\* Terms are numbered in order, and only whoever proposed the present ones
\* stands by them while the plan is open to an answer.
ConsentInv ==
    /\ \A m \in Member : consented[m] <= terms
    /\ status = "proposed" => \A m \in Member \ {owner} : consented[m] # terms
    /\ status # "none" => terms > 0

RefinedInv == PlansInv /\ ConsentInv

\* A step that keeps the terms and who agreed to them.
LEMMA ConsentFrame ==
  ASSUME ConsentInv, UNCHANGED <<owner, terms, consented>>,
         status' = "proposed" => status = "proposed",
         status' # "none" => status # "none"
  PROVE  ConsentInv'
BY DEF ConsentInv

LEMMA ConsentStep ==
  ASSUME RefinedInv, [Next]_vars
  PROVE  ConsentInv'
<1> USE DEF RefinedInv
<1>0. TypeOK /\ terms \in Nat /\ \A m \in Member : consented[m] \in Nat
  BY BoundAssumption DEF PlansInv, TypeOK
<1>1. ASSUME NEW m \in Member, Propose(m) PROVE ConsentInv'
  <2>1. /\ owner' = m /\ terms' = terms + 1
        /\ consented' = [x \in Member |-> IF x = m THEN terms + 1 ELSE 0]
    BY <1>1 DEF Propose, NewTerms
  <2> QED BY <1>0, <2>1 DEF ConsentInv
<1>2. ASSUME NEW m \in Member, Counter(m) PROVE ConsentInv'
  <2>1. /\ owner' = m /\ terms' = terms + 1
        /\ consented' = [consented EXCEPT ![m] = terms + 1]
    BY <1>2 DEF Counter, NewTerms
  <2>2. \A x \in Member : consented'[x] = IF x = m THEN terms + 1 ELSE consented[x]
    BY <1>0, <2>1 DEF TypeOK
  <2> QED BY <1>0, <2>1, <2>2 DEF ConsentInv
<1>3. ASSUME NEW m \in Member, NEW decision \in {"accepted", "declined"}, Decide(m, decision)
      PROVE  ConsentInv'
  <2>1. /\ status = "proposed" /\ status' = decision /\ terms' = terms
        /\ read[m].terms = terms
        /\ consented' = [consented EXCEPT
                           ![m] = IF decision = "accepted" THEN read[m].terms ELSE @]
    BY <1>3 DEF Decide, Fits, PlansInv, ReadInv, TypeOK
  <2>2. \A x \in Member : consented'[x] \in {consented[x], terms}
    BY <1>0, <2>1 DEF TypeOK
  <2> QED BY <1>0, <2>1, <2>2 DEF ConsentInv
<1>4. CASE Expire \/ \E m \in Member : Cancel(m)
  BY <1>4, ConsentFrame DEF Expire, Cancel, Open, deal
<1>5. ASSUME NEW m \in Member, NEW a \in Answers, Debrief(m, a) PROVE ConsentInv'
  <2>1. status = "accepted" /\ UNCHANGED deal /\ debrief' \in [Member -> Answers \cup {"none"}]
        /\ status' = Verdict(debrief')
    BY <1>0, <1>5 DEF Debrief, TypeOK
  <2>2. status' \in {"accepted"} \cup Resolved
    BY <2>1, VerdictSays
  <2> QED BY <2>1, <2>2, ConsentFrame DEF Resolved, deal
<1>6. CASE UNCHANGED <<owner, terms, consented, status>>
  BY <1>6, ConsentFrame
<1> QED
  BY <1>1, <1>2, <1>3, <1>4, <1>5, <1>6 DEF Next, Unmatch, Tick, Scan, Block, Unblock, Read,
     CheckIn, Escalate, deal, vars

\* Who stands by the present terms, in each kind of step.
LEMMA AgreedKept ==
  ASSUME UNCHANGED <<terms, consented>>
  PROVE  Agreed' = Agreed
BY DEF Agreed

LEMMA AgreedToNew ==
  ASSUME RefinedInv, NEW m \in Member, terms' = terms + 1, consented'[m] = terms + 1,
         \A x \in Member \ {m} : consented'[x] \in {0, consented[x]}
  PROVE  Agreed' = {m}
<1>1. terms \in Nat /\ \A x \in Member : consented[x] <= terms /\ consented[x] \in Nat
  BY BoundAssumption DEF RefinedInv, ConsentInv, PlansInv, TypeOK
<1>2. \A x \in Member : (terms' > 0 /\ consented'[x] = terms') <=> x = m
  BY <1>1
<1> QED BY <1>2 DEF Agreed

LEMMA AgreedByOwner ==
  ASSUME RefinedInv, status = "proposed"
  PROVE  Agreed = {owner}
BY DEF RefinedInv, ConsentInv, PlansInv, OwnerInv, TypeOK, Agreed

LEMMA ProposeProposes ==
  ASSUME RefinedInv, NEW m \in Member, Propose(m)
  PROVE  Promise!Propose(m)
<1>1. /\ terms' = terms + 1
      /\ consented' = [x \in Member |-> IF x = m THEN terms + 1 ELSE 0]
  BY DEF Propose, NewTerms
<1>2. Agreed' = {m}
  BY <1>1, AgreedToNew
<1>3. (phase' = "late") = FALSE
  BY DEF Propose
<1> QED BY <1>2, <1>3 DEF Propose, FreshRows, Open, Promise!Propose, Promise!Silence, NoAnswers

LEMMA CounterCounters ==
  ASSUME RefinedInv, NEW m \in Member, Counter(m)
  PROVE  Promise!Counter(m)
<1>1. terms' = terms + 1 /\ consented' = [consented EXCEPT ![m] = terms + 1]
  BY DEF Counter, NewTerms
<1>2. consented \in [Member -> 0 .. MaxTerms]
  BY DEF RefinedInv, PlansInv, TypeOK
<1>3. Agreed' = {m}
  BY <1>1, <1>2, AgreedToNew
<1>4. status = "proposed" /\ m \notin Agreed
  BY AgreedByOwner DEF Counter
<1>5. (phase' = "late") = FALSE
  BY DEF Counter
<1> QED BY <1>3, <1>4, <1>5 DEF Counter, night, Promise!Counter, Promise!date

LEMMA DecideDecides ==
  ASSUME RefinedInv, NEW m \in Member, NEW decision \in {"accepted", "declined"},
         Decide(m, decision)
  PROVE  Promise!Next
<1>1. /\ status = "proposed" /\ m # owner /\ status' = decision
      /\ consented' = [consented EXCEPT
                         ![m] = IF decision = "accepted" THEN read[m].terms ELSE @]
      /\ UNCHANGED <<terms, phase, night>>
  BY DEF Decide
<1>2. /\ read[m].terms = terms /\ owner \in Member
      /\ consented \in [Member -> 0 .. MaxTerms]
  BY DEF RefinedInv, PlansInv, ReadInv, TypeOK, Decide, Fits
<1>3. Agreed = {owner} /\ terms > 0
  BY <1>1, AgreedByOwner DEF RefinedInv, ConsentInv
<1>4. CASE decision = "accepted"
  <2>1. \A x \in Member : x = m \/ x = owner
    BY <1>1, <1>2, PairAssumption
  <2>2. Agreed \cup {m} = Member
    BY <1>2, <1>3, <2>1
  <2>3. \A x \in Member : consented'[x] = terms'
    <3>1. consented'[m] = terms
      BY <1>1, <1>2, <1>4
    <3>2. consented'[owner] = terms
      BY <1>1, <1>2, <1>3 DEF Agreed
    <3> QED BY <1>1, <2>1, <3>1, <3>2
  <2>4. Agreed' = Member
    BY <1>1, <1>3, <2>3 DEF Agreed
  <2>5. Promise!Accept(m)
    BY <1>1, <1>3, <1>4, <2>2, <2>4 DEF Promise!Accept, Promise!date, night
  <2> QED BY <2>5 DEF Promise!Next
<1>5. CASE decision = "declined"
  <2>1. consented' = consented
    BY <1>1, <1>2, <1>5
  <2>2. Agreed' = Agreed
    BY <1>1, <2>1, AgreedKept
  <2>3. Promise!Drop
    BY <1>1, <1>5, <2>2 DEF Promise!Drop, Promise!date, night
  <2> QED BY <2>3 DEF Promise!Next
<1> QED BY <1>4, <1>5

LEMMA CloseDrops ==
  ASSUME Expire \/ \E m \in Member : Cancel(m)
  PROVE  Promise!Next
<1>1. /\ \/ status = "proposed" /\ status' \in {"expired", "cancelled"}
         \/ status = "accepted" /\ status' = "cancelled"
      /\ UNCHANGED <<terms, consented, phase, night>>
  BY DEF Expire, Cancel, Open, deal
<1>2. Agreed' = Agreed
  BY <1>1, AgreedKept
<1>3. Promise!Drop
  BY <1>1, <1>2 DEF Promise!Drop, Promise!date, night
<1> QED BY <1>3 DEF Promise!Next

LEMMA DebriefSays ==
  ASSUME RefinedInv, NEW m \in Member, NEW a \in Answers, Debrief(m, a)
  PROVE  Promise!Next
<1>1. /\ status = "accepted" /\ status' = Verdict(debrief')
      /\ debrief' = [debrief EXCEPT ![m] = a]
      /\ UNCHANGED <<terms, consented, phase, checkedin, escalated>>
  BY DEF Debrief, deal
<1>2. debrief' \in [Member -> Answers \cup {"none"}]
  BY <1>1 DEF RefinedInv, PlansInv, TypeOK
<1>3. /\ status' \in {"accepted"} \cup Resolved
      /\ status' = "accepted" <=> \E x \in Member : debrief'[x] = "none"
      /\ status' = "completed" <=> \A x \in Member : debrief'[x] \in {"yes", "again"}
      /\ status' = "did_not_happen" <=> \A x \in Member : debrief'[x] = "no"
  BY <1>1, <1>2, VerdictSays
<1>4. ~secondyes
  BY <1>1 DEF RefinedInv, PlansInv, VerdictIsMutual, Resolved
<1>5. secondyes' = (secondyes \/ \A x \in Member : debrief'[x] = "again")
  BY DEF Debrief
<1>6. secondyes' = \A x \in Member : debrief'[x] = "again"
  BY <1>4, <1>5, Zenon
<1>7. Agreed' = Agreed
  BY <1>1, AgreedKept
<1>8. Promise!Say(m, a)
  BY <1>1, <1>3, <1>6, <1>7 DEF Promise!Say, Resolved
<1> QED BY <1>8 DEF Promise!Next, Answers

\* A step of the sweep alarms a circle in time, or shows nothing.
LEMMA EscalateAlarms ==
  ASSUME RefinedInv, NEW m \in Member, Escalate(m)
  PROVE  [Promise!Next]_(Promise!vars)
<1>1. UNCHANGED <<status, terms, consented, phase, checkedin, debrief, secondyes>>
  BY DEF Escalate, deal
<1>2. Agreed' = Agreed
  BY <1>1, AgreedKept
<1>3. phase = "late" /\ status \notin {"none", "proposed"}
  BY DEF RefinedInv, PlansInv, ScanInv, Escalate
<1>4. CASE StillMissing(m)
  <2>1. Promise!Alarm(m)
    BY <1>1, <1>2, <1>3, <1>4 DEF Escalate, StillMissing, Promise!Alarm, Promise!plan
  <2> QED BY <2>1 DEF Promise!Next
<1>5. CASE ~StillMissing(m)
  BY <1>1, <1>2, <1>5 DEF Escalate, Promise!vars, Promise!plan, Promise!date
<1> QED BY <1>4, <1>5

LEMMA TickPasses ==
  ASSUME Tick
  PROVE  [Promise!Next]_(Promise!vars)
<1>1. status # "none" /\ phase # "late" /\ UNCHANGED <<status, terms, consented, night>>
  BY DEF Tick, deal
<1>2. Agreed' = Agreed
  BY <1>1, AgreedKept
<1>3. CASE phase' = "late"
  <2>1. Promise!TimePasses
    BY <1>1, <1>2, <1>3 DEF Promise!TimePasses, Promise!plan, Promise!date, night
  <2> QED BY <2>1 DEF Promise!Next
<1>4. CASE phase' # "late"
  BY <1>1, <1>2, <1>4 DEF Promise!vars, Promise!plan, Promise!date, night
<1> QED BY <1>3, <1>4

LEMMA PromiseStep ==
  ASSUME RefinedInv, [Next]_vars
  PROVE  [Promise!Next]_(Promise!vars)
<1>1. CASE \E m \in Member : Propose(m) \/ Counter(m)
  BY <1>1, ProposeProposes, CounterCounters DEF Promise!Next
<1>2. CASE \E m \in Member, decision \in {"accepted", "declined"} : Decide(m, decision)
  BY <1>2, DecideDecides
<1>3. CASE Expire \/ \E m \in Member : Cancel(m)
  BY <1>3, CloseDrops
<1>4. CASE \E m \in Member, a \in Answers : Debrief(m, a)
  BY <1>4, DebriefSays
<1>5. CASE Tick \/ \E m \in Member : Escalate(m)
  BY <1>5, TickPasses, EscalateAlarms
<1>6. ASSUME NEW m \in Member, CheckIn(m) PROVE Promise!Next
  <2>1. Agreed' = Agreed
    BY <1>6, AgreedKept DEF CheckIn, deal
  <2>2. Promise!BeThere(m)
    BY <1>6, <2>1 DEF CheckIn, Promise!BeThere, Promise!plan
  <2> QED BY <2>2 DEF Promise!Next
<1>7. CASE UNCHANGED <<status, terms, consented, phase, night>>
  BY <1>7, AgreedKept DEF Promise!vars, Promise!plan, Promise!date, night
<1> QED
  BY <1>1, <1>2, <1>3, <1>4, <1>5, <1>6, <1>7 DEF Next, Unmatch, Scan, Block, Unblock, Read,
     deal, vars

\* Agreeing on a date implements DatePromise, for every number of plans and terms:
\* however old what a device shows and however the pair's answers, the sweep and
\* the clock interleave.
THEOREM Refinement == Spec => PromiseKept
<1>1. Init => RefinedInv
  <2> SUFFICES ASSUME Init PROVE ConsentInv
    BY InitPlans DEF RefinedInv
  <2> QED BY DEF Init, ConsentInv
<1>2. RefinedInv /\ [Next]_vars => RefinedInv'
  BY PlansStep, ConsentStep DEF RefinedInv
<1>3. Init => Promise!Init
  BY DEF Init, Promise!Init, Promise!Silence, NoAnswers, Agreed
<1>4. RefinedInv /\ [Next]_vars => [Promise!Next]_(Promise!vars)
  BY PromiseStep
<1> QED BY <1>1, <1>2, <1>3, <1>4, PTL DEF Spec, PromiseKept, Promise!Spec
=============================================================================
