----------------------------- MODULE SosDelivery -----------------------------
(***************************************************************************)
(* The delivery of an emergency alert to a member's trusted contacts.      *)
(*                                                                         *)
(* Triggering an alert writes one row of matching.sos_delivery_outbox per  *)
(* contact.  Workers lease rows in batches, post them to the provider one  *)
(* after another and record the outcome.  A lease that outlives its time   *)
(* is taken over, also from a worker that is still busy with its batch:    *)
(* finishing is guarded by the row's status and not by its worker.         *)
(* Meanwhile the alert may be resolved, the account erased, or the rows    *)
(* reach the end of their retention.                                       *)
(*                                                                         *)
(* One alert is modelled, since alerts share no row; a row is named by its *)
(* contact.  Time is counted in sends: one lasts at most one Tick (8 s).   *)
(***************************************************************************)
EXTENDS Integers, FiniteSets

CONSTANTS
    Contact,      \* the member's trusted contacts
    Worker,       \* delivery engines
    Nobody,       \* no contact
    Batch,        \* rows a claim takes at most (25)
    Lease,        \* sends that fit in sosDeliveryLease (120 s / 8 s)
    MaxAttempts   \* SOSDeliveryMaxAttempts

ASSUME ContactAssumption == Nobody \notin Contact
ASSUME BoundAssumption   == /\ Batch \in Nat \ {0}
                            /\ Lease \in Nat \ {0}
                            /\ MaxAttempts \in Nat \ {0}

VARIABLES
    alert,      \* status of the alert, "none" before it is triggered
    expired,    \* whether the 30 days of the snapshots are over
    status,     \* status column of a row, "absent" before it is written
    attempts,   \* attempt_count column
    delayed,    \* rows whose available_at is still to come
    age,        \* per row, time since locked_at, up to Lease + 1
    accepted,   \* history: rows the provider has accepted
    pc,         \* where each worker is
    seen,       \* per worker, the attempt of each row left in its batch, or 0
    current,    \* the row a worker is sending or finishing
    spent,      \* workers whose current send has taken its time
    answer      \* what the provider answered a worker

outbox == <<status, attempts, delayed, age>>
worker == <<pc, seen, current, spent, answer>>
vars   == <<alert, expired, outbox, accepted, worker>>

Waiting == {"pending", "retry"}
Open    == Waiting \cup {"processing"}
Final   == {"delivered", "dead_letter", "cancelled"}

InHand(w) == {c \in Contact : seen[w][c] > 0}

\* Mutant: leases are never taken over.
NeverOverdue(c) == FALSE

Overdue(c) == status[c] = "processing" /\ age[c] > Lease

Init ==
    /\ alert = "none" /\ expired = FALSE
    /\ status = [c \in Contact |-> "absent"]
    /\ attempts = [c \in Contact |-> 0]
    /\ delayed = {}
    /\ age = [c \in Contact |-> 0]
    /\ accepted = {}
    /\ pc = [w \in Worker |-> "idle"]
    /\ seen = [w \in Worker |-> [c \in Contact |-> 0]]
    /\ current = [w \in Worker |-> Nobody]
    /\ spent = {}
    /\ answer = [w \in Worker |-> "none"]

Goto(w, p) == pc' = [pc EXCEPT ![w] = p]

-----------------------------------------------------------------------------
(* The alert                                                               *)

\* createSOSAlertPostgres: the contacts of this moment are snapshotted in the
\* transaction of the alert.
Trigger ==
    /\ alert = "none"
    /\ alert' = "open"
    /\ \E C \in SUBSET Contact :
          status' = [c \in Contact |-> IF c \in C THEN "pending" ELSE status[c]]
    /\ UNCHANGED <<expired, attempts, delayed, age, accepted, worker>>

\* Mutant: the alert's status is written to its rows, against the CHECK.
CancelledAsResolved(S) ==
    [c \in Contact |-> IF status[c] \in S THEN "resolved" ELSE status[c]]

Cancelled(S) ==
    [c \in Contact |-> IF status[c] \in S THEN "cancelled" ELSE status[c]]

\* resolveSOSAlertPostgres: a row in a worker's hands is left to it.
Resolve ==
    /\ alert = "open"
    /\ alert' = "resolved"
    /\ status' = Cancelled(Waiting)
    /\ UNCHANGED <<expired, attempts, delayed, age, accepted, worker>>

\* Account erasure cancels the row under a worker's hands as well.
Erase ==
    /\ alert # "none"
    /\ status' = Cancelled(Open)
    /\ UNCHANGED <<alert, expired, attempts, delayed, age, accepted, worker>>

\* The clock: 30 days outlast every batch.
Expire ==
    /\ alert # "none" /\ ~expired
    /\ \A w \in Worker : pc[w] = "idle"
    /\ expired' = TRUE
    /\ UNCHANGED <<alert, outbox, accepted, worker>>

\* platform.run_trust_retention, for a member who is not on legal hold.
RunRetention ==
    /\ expired
    /\ status' = Cancelled(Open)
    /\ UNCHANGED <<alert, expired, attempts, delayed, age, accepted, worker>>

-----------------------------------------------------------------------------
(* processBatch                                                            *)

\* claimSOSDeliveries, first statement: take expired leases over.
Reclaim(w) ==
    /\ pc[w] = "idle"
    /\ Goto(w, "claim")
    /\ status' = [c \in Contact |->
                    IF ~Overdue(c) THEN status[c]
                    ELSE IF attempts[c] >= MaxAttempts THEN "dead_letter"
                    ELSE "retry"]
    /\ delayed' = {c \in delayed : ~Overdue(c)}
    /\ UNCHANGED <<alert, expired, attempts, age, accepted, seen, current,
                   spent, answer>>

Due == {c \in Contact : status[c] \in Waiting /\ c \notin delayed /\ ~expired}

\* claimSOSDeliveries, second statement: the earliest rows that are due.  They
\* share a deadline, so any of them may come first.
Claim(w) ==
    /\ pc[w] = "claim"
    /\ \E C \in SUBSET Due :
          /\ Cardinality(C) = IF Cardinality(Due) < Batch
                              THEN Cardinality(Due) ELSE Batch
          /\ status' = [c \in Contact |->
                          IF c \in C THEN "processing" ELSE status[c]]
          /\ attempts' = [c \in Contact |->
                            IF c \in C THEN attempts[c] + 1 ELSE attempts[c]]
          /\ age' = [c \in Contact |-> IF c \in C THEN 0 ELSE age[c]]
          /\ seen' = [seen EXCEPT ![w] = [c \in Contact |->
                            IF c \in C THEN attempts[c] + 1 ELSE 0]]
          /\ Goto(w, IF C = {} THEN "idle" ELSE "next")
    /\ UNCHANGED <<alert, expired, delayed, accepted, current, spent, answer>>

\* The worker dies with a batch, or its claim commits and the rows are lost on
\* the way.  One that dies without a batch leaves nothing behind.
Crash(w) ==
    /\ InHand(w) # {}
    /\ Goto(w, "idle")
    /\ seen' = [seen EXCEPT ![w] = [c \in Contact |-> 0]]
    /\ current' = [current EXCEPT ![w] = Nobody]
    /\ spent' = spent \ {w}
    /\ answer' = [answer EXCEPT ![w] = "none"]
    /\ UNCHANGED <<alert, expired, outbox, accepted>>

\* The row goes out as it was read at the claim, whatever became of it since.
StartSend(w) ==
    /\ pc[w] = "next"
    /\ \E c \in InHand(w) : current' = [current EXCEPT ![w] = c]
    /\ Goto(w, "send")
    /\ UNCHANGED <<alert, expired, outbox, accepted, seen, spent, answer>>

\* The provider accepts and says so, accepts without being heard, or refuses.
Send(w) ==
    /\ pc[w] = "send"
    /\ \E heard \in {"ok", "error"}, taken \in BOOLEAN :
          /\ heard = "ok" => taken
          /\ answer' = [answer EXCEPT ![w] = heard]
          /\ accepted' = IF taken THEN accepted \cup {current[w]} ELSE accepted
    /\ spent' = spent \ {w}
    /\ Goto(w, "finish")
    /\ UNCHANGED <<alert, expired, outbox, seen, current>>

\* Mutant: any answer counts as delivered.
VerdictLenient(w) ==
    IF answer[w] # "none" THEN "delivered" ELSE "retry"

\* Mutant: the attempt is compared with > instead of >=.
VerdictOneMore(w) ==
    IF answer[w] = "ok" THEN "delivered"
    ELSE IF seen[w][current[w]] > MaxAttempts THEN "dead_letter"
    ELSE "retry"

\* The status finishSOSDelivery writes, from what the worker read and heard.
Verdict(w) ==
    IF answer[w] = "ok" THEN "delivered"
    ELSE IF seen[w][current[w]] >= MaxAttempts THEN "dead_letter"
    ELSE "retry"

\* Mutant: the UPDATE goes by the id alone.
FinishableAny(c) == status[c] # "absent"

\* The guard of finishSOSDelivery's UPDATE: not who leased the row.
Finishable(c) == status[c] = "processing"

\* The worker is done with its row and takes the next one of its batch.
PutDown(w) ==
    /\ seen' = [seen EXCEPT ![w][current[w]] = 0]
    /\ current' = [current EXCEPT ![w] = Nobody]
    /\ answer' = [answer EXCEPT ![w] = "none"]
    /\ Goto(w, IF InHand(w) = {current[w]} THEN "idle" ELSE "next")

Finish(w) ==
    /\ pc[w] = "finish"
    /\ LET c == current[w] IN
          IF Finishable(c)
          THEN /\ status' = [status EXCEPT ![c] = Verdict(w)]
               /\ delayed' = IF Verdict(w) = "retry" THEN delayed \cup {c}
                             ELSE delayed
          ELSE UNCHANGED <<status, delayed>>
    /\ PutDown(w)
    /\ UNCHANGED <<alert, expired, attempts, age, accepted, spent>>

\* finishSOSDelivery fails and is only logged: the row keeps its lease.
FinishFails(w) ==
    /\ pc[w] = "finish"
    /\ PutDown(w)
    /\ UNCHANGED <<alert, expired, outbox, accepted, spent>>

-----------------------------------------------------------------------------
(* The clock                                                               *)

\* A send times out after 8 seconds: none lasts for two ticks, and nothing else
\* a worker does with its batch takes time.
Tick ==
    /\ \E c \in Contact : status[c] = "processing" /\ age[c] <= Lease
    /\ \A w \in Worker : InHand(w) # {} => pc[w] = "send" /\ w \notin spent
    /\ spent' = {w \in Worker : pc[w] = "send"}
    /\ age' = [c \in Contact |-> IF age[c] <= Lease THEN age[c] + 1 ELSE age[c]]
    /\ UNCHANGED <<alert, expired, status, attempts, delayed, accepted, pc,
                   seen, current, answer>>

\* The backoff of a retry, attempt squared seconds, is over.
Ripen(c) ==
    /\ c \in delayed
    /\ delayed' = delayed \ {c}
    /\ UNCHANGED <<alert, expired, status, attempts, age, accepted, worker>>

Work(w) ==
    \/ Reclaim(w) \/ Claim(w) \/ StartSend(w) \/ Send(w)
    \/ Finish(w) \/ FinishFails(w)

Next ==
    \/ Trigger \/ Resolve \/ Erase \/ Expire \/ RunRetention \/ Tick
    \/ \E w \in Worker : Work(w) \/ Crash(w)
    \/ \E c \in Contact : Ripen(c)

Spec == Init /\ [][Next]_vars

\* Every worker keeps polling, clocks advance, retention runs on a schedule.
FairSpec ==
    /\ Spec
    /\ \A w \in Worker : WF_vars(Work(w))
    /\ \A c \in Contact : WF_vars(Ripen(c))
    /\ WF_vars(Tick) /\ WF_vars(RunRetention)

-----------------------------------------------------------------------------
(* Properties                                                              *)

TypeOK ==
    /\ alert \in {"none", "open", "resolved"}
    /\ expired \in BOOLEAN
    /\ status \in [Contact -> {"absent"} \cup Open \cup Final]
    /\ attempts \in [Contact -> Nat]
    /\ delayed \in SUBSET Contact
    /\ age \in [Contact -> 0 .. Lease + 1]
    /\ accepted \in SUBSET Contact
    /\ pc \in [Worker -> {"idle", "claim", "next", "send", "finish"}]
    /\ seen \in [Worker -> [Contact -> Nat]]
    /\ current \in [Worker -> Contact \cup {Nobody}]
    /\ spent \in SUBSET Worker
    /\ answer \in [Worker -> {"none", "ok", "error"}]
    /\ \A w \in Worker : pc[w] \in {"send", "finish"} <=> current[w] # Nobody

\* A contact counts as alerted only if the provider took the alert, and is
\* given up only after the full number of attempts, whichever worker finished
\* whose attempt.
VerdictsEarned ==
    \A c \in Contact :
        /\ status[c] = "delivered" => c \in accepted
        /\ status[c] = "dead_letter" => attempts[c] >= MaxAttempts

\* A worker that lost its lease may put a row back for one more attempt than
\* max_attempts allows, but each attempt can do so only once.
AttemptsBounded ==
    \A c \in Contact : attempts[c] <= 2 * MaxAttempts - 1

\* What was delivered, given up or cancelled is never taken up again, by a late
\* worker or by a retry: the contact of a cancelled row is not alerted anew.
FinalStays ==
    [][\A c \in Contact : status[c] \in Final => status'[c] = status[c]]_vars

\* How each row ended, if it did: waiting and in hand are both open.
Outcome ==
    [c \in Contact |-> IF status[c] \in Open THEN "open" ELSE status[c]]

Promise == INSTANCE SosPromise
             WITH outcome <- Outcome, tries <- attempts, told <- accepted

\* Leases, late workers, crashes and lost answers together do what SosPromise
\* says: each step of theirs ends open rows in a way they earned, counts an
\* attempt of an open row, tells a contact who has one, or shows nothing.
PromiseKept == Promise!Spec

\* No row is left behind by a crashed worker, a failed finish or a resolution.
EveryRowSettles ==
    \A c \in Contact : status[c] = "pending" ~> status[c] \in Final
=============================================================================
