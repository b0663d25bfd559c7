----------------------------- MODULE DatePromise -----------------------------
(***************************************************************************)
(* What planning a date promises a pair, whatever their devices show and   *)
(* whenever the sweep looks.  Terms bind those who agreed to them: a plan  *)
(* is accepted when both agree to the same ones, and new terms start over. *)
(* Only the answers of both resolve it.  Nobody's circle is alarmed while  *)
(* there is time, or about a member who was there.  Plans of a pair follow *)
(* one another, and one that is closed stays so.                           *)
(***************************************************************************)
EXTENDS Integers

CONSTANT Member

VARIABLES
    outcome,   \* how the last plan stands, "none" before the first
    agreed,    \* members who agreed to its present terms
    late,      \* its window is long over
    there,     \* members who said that they were there
    alarmed,   \* members whose circle was told that they did not
    said,      \* what each member said of the date
    again      \* both learned that both would meet again

plan == <<outcome, agreed>>
date == <<there, alarmed, said, again>>
vars == <<plan, late, date>>

Silence == [m \in Member |-> "none"]

Init ==
    /\ outcome = "none" /\ agreed = {} /\ late = FALSE
    /\ there = {} /\ alarmed = {} /\ said = Silence /\ again = FALSE

Propose(m) ==
    /\ outcome \notin {"proposed", "accepted"}
    /\ outcome' = "proposed" /\ agreed' = {m} /\ late' = FALSE
    /\ there' = {} /\ alarmed' = {} /\ said' = Silence /\ again' = FALSE

\* Other terms, which the other member has yet to see.
Counter(m) ==
    /\ outcome = "proposed" /\ m \notin agreed
    /\ agreed' = {m} /\ late' = FALSE
    /\ UNCHANGED <<outcome, date>>

Accept(m) ==
    /\ outcome = "proposed" /\ m \notin agreed
    /\ agreed \cup {m} = Member
    /\ outcome' = "accepted" /\ agreed' = Member
    /\ UNCHANGED <<late, date>>

\* Declined, expired or cancelled; an accepted plan can only be cancelled.
Drop ==
    /\ \/ outcome = "proposed" /\ outcome' \in {"declined", "expired", "cancelled"}
       \/ outcome = "accepted" /\ outcome' = "cancelled"
    /\ UNCHANGED <<agreed, late, date>>

TimePasses ==
    /\ outcome # "none" /\ late' = TRUE
    /\ UNCHANGED <<plan, date>>

BeThere(m) ==
    /\ outcome = "accepted"
    /\ there' = there \cup {m}
    /\ UNCHANGED <<plan, late, alarmed, said, again>>

Alarm(m) ==
    /\ late /\ m \notin there
    /\ outcome \notin {"none", "proposed"}
    /\ alarmed' = alarmed \cup {m}
    /\ UNCHANGED <<plan, late, there, said, again>>

\* The last answer resolves the plan, by what both said.
Say(m, a) ==
    /\ outcome = "accepted"
    /\ said' = [said EXCEPT ![m] = a]
    /\ outcome' \in {"accepted", "completed", "did_not_happen", "disputed"}
    /\ outcome' = "accepted" <=> \E x \in Member : said'[x] = "none"
    /\ outcome' = "completed" <=> \A x \in Member : said'[x] \in {"yes", "again"}
    /\ outcome' = "did_not_happen" <=> \A x \in Member : said'[x] = "no"
    /\ again' = \A x \in Member : said'[x] = "again"
    /\ UNCHANGED <<agreed, late, there, alarmed>>

Next ==
    \/ Drop \/ TimePasses
    \/ \E m \in Member :
          \/ Propose(m) \/ Counter(m) \/ Accept(m) \/ BeThere(m) \/ Alarm(m)
          \/ \E a \in {"no", "yes", "again"} : Say(m, a)

Spec == Init /\ [][Next]_vars
=============================================================================
