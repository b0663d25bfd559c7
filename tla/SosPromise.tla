----------------------------- MODULE SosPromise -----------------------------
(***************************************************************************)
(* What the delivery of an emergency alert promises, whatever becomes of   *)
(* leases, workers and the provider's answers.  Each trusted contact of    *)
(* the moment the alert is raised gets one row, which stays open until it  *)
(* is delivered, given up or cancelled, once and for all.  It is delivered *)
(* only to a contact who was told, and given up only after the full number *)
(* of attempts; attempts are made of open rows only, and not without end.  *)
(***************************************************************************)
EXTENDS Integers

CONSTANTS
    Contact,
    MaxAttempts

VARIABLES
    outcome,  \* outcome[c]: "absent", "open", or how c's row ended
    tries,    \* attempts made of each row
    told      \* contacts who got the alert

Init ==
    /\ outcome = [c \in Contact |-> "absent"]
    /\ tries = [c \in Contact |-> 0]
    /\ told = {}

Ends(C, end) == outcome' = [c \in Contact |-> IF c \in C THEN end ELSE outcome[c]]

\* The alert is raised, to all its contacts at once.
Raise(C) ==
    /\ \A c \in Contact : outcome[c] = "absent"
    /\ Ends(C, "open")
    /\ UNCHANGED <<tries, told>>

\* An attempt begins for several rows.  Of two workers that hold a row, each may
\* see to it that the other's attempts are made again, which doubles them.
Try(C) ==
    /\ \A c \in C : outcome[c] = "open" /\ tries[c] < 2 * MaxAttempts - 1
    /\ tries' = [c \in Contact |-> IF c \in C THEN tries[c] + 1 ELSE tries[c]]
    /\ UNCHANGED <<outcome, told>>

\* A message on its way arrives even if its row ends meanwhile.
Tell(c) ==
    /\ tries[c] > 0
    /\ told' = told \cup {c}
    /\ UNCHANGED <<outcome, tries>>

Deliver(c) ==
    /\ outcome[c] = "open" /\ c \in told
    /\ Ends({c}, "delivered")
    /\ UNCHANGED <<tries, told>>

GiveUp(C) ==
    /\ \A c \in C : outcome[c] = "open" /\ tries[c] >= MaxAttempts
    /\ Ends(C, "dead_letter")
    /\ UNCHANGED <<tries, told>>

\* The alert is resolved, the account erased, or the retention over.
Cancel(C) ==
    /\ \A c \in C : outcome[c] = "open"
    /\ Ends(C, "cancelled")
    /\ UNCHANGED <<tries, told>>

Next ==
    \/ \E C \in SUBSET Contact : Raise(C) \/ Try(C) \/ GiveUp(C) \/ Cancel(C)
    \/ \E c \in Contact : Tell(c) \/ Deliver(c)

Spec == Init /\ [][Next]_<<outcome, tries, told>>
=============================================================================
