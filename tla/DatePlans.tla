------------------------------- MODULE DatePlans -------------------------------
(***************************************************************************)
(* The date plans of a matched pair.                                       *)
(*                                                                         *)
(* A member proposes a plan, and until the other decides, each may answer  *)
(* the other's terms with terms of their own.  Devices act on what they    *)
(* read last, so an answer names the version it is about.  Once the window *)
(* of an accepted plan opens, members check in and give private debriefs;  *)
(* two debriefs resolve the plan.  A sweep expires what nobody answered    *)
(* and, three hours after the window, tells the circle of each member who  *)
(* has not checked in.  Meanwhile the pair may unmatch, block and unblock. *)
(*                                                                         *)
(* Transactions lock the row of the plan and are serializable: each is one *)
(* step.  The sweep locks no plan, so its scan and its work are two.  The  *)
(* last plan of the pair is modelled, the ones before it are closed.  Who  *)
(* is in a circle, and what becomes of the notifications, is the matter of *)
(* Notifications.  Reminders, which touch nothing else, are left out, and  *)
(* so are deactivated accounts, which these steps treat as blocks.         *)
(***************************************************************************)
EXTENDS Integers

CONSTANTS
    Member,       \* the two members of the match
    MaxPlans,     \* bound on the plans of the pair
    MaxTerms      \* bound on the terms proposed, over all plans

ASSUME BoundAssumption == {MaxPlans, MaxTerms} \subseteq Nat
ASSUME PairAssumption  == \A a, b, c \in Member : a = b \/ b = c \/ a = c

Open     == {"proposed", "accepted"}
Resolved == {"completed", "did_not_happen", "disputed"}
Closed   == Resolved \cup {"declined", "cancelled", "expired"}
Answers  == {"no", "yes", "again"}     \* again: met, would meet again, tell them

VARIABLES
    together,    \* the match has not ended
    blocks,      \* members who have blocked the other
    plans,       \* how many plans there have been
    status,      \* status of the last one
    owner,       \* pending_proposer_id: who proposed its present terms
    version,     \* lock_version
    terms,       \* its present terms, numbered
    phase,       \* the window: "before", "open", "over", "late" by three hours
    read,        \* the plan, version and terms a device read last
    consented,   \* history: terms a member proposed or accepted for this plan
    checkedin,   \* members who have checked in
    escalated,   \* members whose circle was told that they have not
    debrief,     \* the private answers
    secondyes,   \* both were told that both would meet again
    scan         \* members a sweep has found and not yet dealt with

pair  == <<together, blocks>>
deal  == <<plans, owner, terms, read, consented>>
night == <<checkedin, escalated, debrief, secondyes>>
vars  == <<pair, deal, status, version, phase, night, scan>>

Unread    == [plan |-> 0, version |-> 0, terms |-> 0]
NoAnswers == [m \in Member |-> "none"]

Init ==
    /\ together = TRUE /\ blocks = {}
    /\ plans = 0 /\ status = "none" /\ version = 0
    /\ owner \in Member
    /\ terms = 0 /\ phase = "before"
    /\ read = [m \in Member |-> Unread]
    /\ consented = [m \in Member |-> 0]
    /\ checkedin = {} /\ escalated = {}
    /\ debrief = NoAnswers /\ secondyes = FALSE
    /\ scan = {}

-----------------------------------------------------------------------------
(* The pair                                                                *)

\* activeDatingPair
Pair == together /\ blocks = {}

Unmatch ==
    /\ together /\ together' = FALSE
    /\ UNCHANGED <<blocks, deal, status, version, phase, night, scan>>

\* blockUserPostgres and unblockUserPostgres change neither match nor plan.
Block(m) ==
    /\ blocks' = blocks \cup {m} /\ m \notin blocks
    /\ UNCHANGED <<together, deal, status, version, phase, night, scan>>

Unblock(m) ==
    /\ blocks' = blocks \ {m} /\ m \in blocks
    /\ UNCHANGED <<together, deal, status, version, phase, night, scan>>

-----------------------------------------------------------------------------
(* Agreeing on a plan                                                      *)

Read(m) ==
    /\ status \in Open
    /\ read' = [read EXCEPT
                  ![m] = [plan |-> plans, version |-> version, terms |-> terms]]
    /\ read' # read
    /\ UNCHANGED <<pair, plans, owner, terms, consented, status, version, phase,
                   night, scan>>

\* The plan gets terms of m, whose device shows them.
NewTerms(m, plan, v) ==
    /\ terms < MaxTerms /\ terms' = terms + 1
    /\ owner' = m /\ version' = v
    /\ read' = [read EXCEPT
                  ![m] = [plan |-> plan, version |-> v, terms |-> terms + 1]]

\* Mutant: the rows of the participants and debriefs of the last plan are kept.
RowsKept == UNCHANGED night

FreshRows ==
    /\ checkedin' = {} /\ escalated' = {}
    /\ debrief' = NoAnswers /\ secondyes' = FALSE

\* propose: the window may have opened an hour ago, and be a short one.  A sweep
\* under way concerns the plan before, so what it has found is dropped here.
Propose(m) ==
    /\ Pair /\ status \notin Open
    /\ plans < MaxPlans /\ plans' = plans + 1
    /\ status' = "proposed"
    /\ phase' \in {"before", "open", "over"}
    /\ NewTerms(m, plans + 1, 0)
    /\ consented' = [x \in Member |-> IF x = m THEN terms + 1 ELSE 0]
    /\ FreshRows
    /\ scan' = {}
    /\ UNCHANGED pair

\* Mutant: an answer without a version is taken for one about the present terms.
FitsUnlessNamed(m) == TRUE

\* The version an answer names, or none, which only fits a plan never changed.
Fits(m) == read[m].version = version \/ version = 0

\* counter: terms of one's own, for a window that has not opened.
Counter(m) ==
    /\ Pair /\ status = "proposed" /\ m # owner
    /\ read[m].plan = plans /\ read[m].version = version
    /\ phase' = "before"
    /\ NewTerms(m, plans, version + 1)
    /\ consented' = [consented EXCEPT ![m] = terms + 1]
    /\ UNCHANGED <<pair, plans, status, night, scan>>

\* decide.  It asks neither whether the window is over.
Decide(m, decision) ==
    /\ Pair /\ status = "proposed" /\ m # owner
    /\ read[m].plan = plans /\ Fits(m)
    /\ status' = decision /\ version' = version + 1
    /\ consented' = [consented EXCEPT
                       ![m] = IF decision = "accepted" THEN read[m].terms ELSE @]
    /\ UNCHANGED <<pair, plans, owner, terms, read, phase, night, scan>>

\* cancel, for a pair that has ended too.
Cancel(m) ==
    /\ status \in Open
    /\ read[m].plan = plans
    /\ status' = "cancelled" /\ version' = version + 1
    /\ UNCHANGED <<pair, deal, phase, night, scan>>

-----------------------------------------------------------------------------
(* The date and after                                                      *)

\* checkin, for a pair that has ended too.  Those after the first change only what
\* the member's circle hears.
CheckIn(m) ==
    /\ status = "accepted" /\ phase # "before"
    /\ m \notin checkedin /\ checkedin' = checkedin \cup {m}
    /\ UNCHANGED <<pair, deal, status, version, phase, escalated, debrief,
                   secondyes, scan>>

\* Mutant: one answer is enough.
VerdictOfAny(d) ==
    IF \E m \in Member : d[m] \in {"yes", "again"} THEN "completed" ELSE "disputed"

\* resolve_date_plan_from_debriefs
Verdict(d) ==
    IF \E m \in Member : d[m] = "none" THEN "accepted"
    ELSE IF \A m \in Member : d[m] # "no" THEN "completed"
    ELSE IF \A m \in Member : d[m] = "no" THEN "did_not_happen"
    ELSE "disputed"

\* debrief: an answer may be changed until the plan is resolved.
Debrief(m, a) ==
    /\ Pair /\ status = "accepted" /\ phase # "before"
    /\ debrief' = [debrief EXCEPT ![m] = a]
    /\ status' = Verdict(debrief')
    /\ version' = IF status' = status THEN version ELSE version + 1
    /\ secondyes' = (secondyes \/ \A x \in Member : debrief'[x] = "again")
    /\ UNCHANGED <<pair, deal, phase, checkedin, escalated, scan>>

-----------------------------------------------------------------------------
(* Time and the sweep                                                      *)

Tick ==
    /\ status # "none" /\ phase # "late"
    /\ phase' = CASE phase = "before" -> "open"
                  [] phase = "open"   -> "over"
                  [] phase = "over"   -> "late"
    /\ UNCHANGED <<pair, deal, status, version, night, scan>>

Expire ==
    /\ status = "proposed" /\ phase \in {"over", "late"}
    /\ status' = "expired" /\ version' = version + 1
    /\ UNCHANGED <<pair, deal, phase, night, scan>>

\* Mutant: the sweep looks at the plans of active matches only.
MissingAndMatched ==
    IF together /\ status = "accepted" /\ phase = "late"
    THEN Member \ (checkedin \cup escalated) ELSE {}

Missing ==
    IF status = "accepted" /\ phase = "late"
    THEN Member \ (checkedin \cup escalated) ELSE {}

\* The query of the last loop of the sweep takes its snapshot.
Scan ==
    /\ scan = {} /\ Missing # {}
    /\ scan' = Missing
    /\ UNCHANGED <<pair, deal, status, version, phase, night>>

\* Mutant: the row is taken as it was in the snapshot.
MissingInSnapshot(m) == m \notin escalated

\* The lock on the row of a participant rechecks what that row says, and nothing
\* of the plan.
StillMissing(m) == m \notin checkedin \cup escalated

\* The row is locked until the sweep commits, so nobody sees it in between.
Escalate(m) ==
    /\ m \in scan /\ scan' = scan \ {m}
    /\ escalated' = IF StillMissing(m) THEN escalated \cup {m} ELSE escalated
    /\ UNCHANGED <<pair, deal, status, version, phase, checkedin, debrief,
                   secondyes>>

Next ==
    \/ Unmatch \/ Tick \/ Expire \/ Scan
    \/ \E m \in Member :
          \/ Block(m) \/ Unblock(m)
          \/ Read(m) \/ Propose(m) \/ Counter(m) \/ Cancel(m)
          \/ \E decision \in {"accepted", "declined"} : Decide(m, decision)
          \/ CheckIn(m) \/ Escalate(m)
          \/ \E a \in Answers : Debrief(m, a)

Spec == Init /\ [][Next]_vars

\* Time passes, and the worker of some server runs the sweep every five minutes.
FairSpec ==
    /\ Spec
    /\ WF_vars(Tick) /\ WF_vars(Scan)
    /\ WF_vars(\E m \in Member : Escalate(m))

-----------------------------------------------------------------------------
(* Properties                                                              *)

TypeOK ==
    /\ together \in BOOLEAN /\ secondyes \in BOOLEAN
    /\ {blocks, checkedin, escalated, scan} \subseteq SUBSET Member
    /\ plans \in 0 .. MaxPlans /\ terms \in 0 .. MaxTerms /\ version \in Nat
    /\ status \in {"none"} \cup Open \cup Closed
    /\ owner \in Member
    /\ phase \in {"before", "open", "over", "late"}
    /\ read \in [Member -> [plan : 0 .. MaxPlans, version : Nat, terms : 0 .. MaxTerms]]
    /\ consented \in [Member -> 0 .. MaxTerms]
    /\ debrief \in [Member -> Answers \cup {"none"}]
    /\ status = "none" <=> plans = 0
    /\ status = "proposed" => checkedin = {} /\ escalated = {} /\ debrief = NoAnswers

\* Nobody is held to terms they have not seen: whatever devices showed when they
\* answered, both members proposed or accepted the terms of an accepted plan.
AgreedTerms ==
    status \in {"accepted"} \cup Resolved =>
        \A m \in Member : consented[m] = terms

\* A plan is resolved by the last answers of both members and by nothing less,
\* and both hear of a second yes only when both gave it.
VerdictIsMutual ==
    /\ status = "completed" <=> \A m \in Member : debrief[m] \in {"yes", "again"}
    /\ status = "did_not_happen" <=> \A m \in Member : debrief[m] = "no"
    /\ status \in Resolved <=> \A m \in Member : debrief[m] # "none"
    /\ secondyes <=> \A m \in Member : debrief[m] = "again"

\* No circle is alarmed for a member who has checked in, though the sweep found
\* the member missing before.
AlarmIsTrue ==
    [][\A m \in escalated' \ escalated : m \notin checkedin /\ phase = "late"]_vars

\* The members who stand by the present terms.
Agreed == {m \in Member : terms > 0 /\ consented[m] = terms}

Promise == INSTANCE DatePromise
             WITH outcome <- status, agreed <- Agreed, late <- (phase = "late"),
                  there <- checkedin, alarmed <- escalated, said <- debrief,
                  again <- secondyes

\* Versions, devices that are behind, answers that change and a sweep with an
\* old snapshot together do what DatePromise says: plans follow one another,
\* both agree to the same terms before a plan is accepted, both answers resolve
\* it, and alarms are late and true.
PromiseKept == Promise!Spec

\* A member who does not check in after an accepted plan is missed, also when the
\* match has ended or they are blocked: the circle hears, or the plan is closed.
MissedIsTold ==
    \A m \in Member :
        status = "accepted" /\ m \notin checkedin ~>
            m \in checkedin \cup escalated \/ status # "accepted"
=============================================================================
