----------------------------- MODULE Idempotency -----------------------------
(***************************************************************************)
(* How the shared idempotency store runs a command at most once.           *)
(*                                                                         *)
(* Requests that carry one cache key (actor, method, path and client key)  *)
(* race for one row of platform.idempotency_records, on any instance.  The *)
(* one whose INSERT lands owns the row and runs the command; the others    *)
(* poll the row until they can replay the response stored in it, or learn  *)
(* that they never can.  Every statement is a step of its own: nothing is  *)
(* held between the INSERT, the SELECT and the DELETE of a claim.          *)
(*                                                                         *)
(* One key is modelled, since keys share no row.  A client's retry is one  *)
(* more request.  Time is measured in the ages of claims, which all grow   *)
(* together (Tick): a row's lease and replay window count from its claim.  *)
(***************************************************************************)
EXTENDS Integers

CONSTANTS
    Request,    \* requests carrying the key
    Payload,    \* Payload[r]: what r asks for (query and body, hashed)
    Nobody,     \* no request
    Lease,      \* IDEMPOTENCY_LEASE_SECONDS
    TTL,        \* IDEMPOTENCY_TTL_SECONDS, the replay window
    MaxRun,     \* bound on how long a handler runs (BFFWriteTimeout)
    Faults,     \* the kinds of failure this instance exercises
    MaxFaults   \* bound on how many failures happen in a behaviour

FaultKind == {"crash", "statement", "lostReply", "finish", "lateError",
              "largeReply"}

ASSUME RequestAssumption == Nobody \notin Request
\* config.go: "idempotency TTL, lease, ... must be positive"
ASSUME TimeAssumption  == /\ Lease \in Nat \ {0}
                          /\ TTL \in Nat \ {0}
                          /\ MaxRun \in Nat \ {0}
ASSUME FaultAssumption == Faults \subseteq FaultKind /\ MaxFaults \in Nat

VARIABLES
    state,      \* state column of the row, "absent" when there is no row
    owner,      \* the request whose owner_token the row holds
    stored,     \* the request whose response the row holds
    age,        \* per request, time since its claim; Old before it
    pc,         \* where each request is
    outcome,    \* what a request's own run of the command came to
    source,     \* the request whose response a request was answered with
    committed,  \* history: requests whose run committed the command
    faults      \* failures so far, bounded by MaxFaults

row  == <<state, owner, stored>>
vars == <<row, age, pc, outcome, source, committed, faults>>

\* Ages stop here: long enough to tell any two claims TTL apart while the
\* younger still runs.
Old == TTL + MaxRun

Deleting == {"deleteCompleted", "deleteProcessing"}
Claiming == {"insert", "look", "wait"} \cup Deleting
Running  == {"run", "finish"}
Answered == {"own", "replay", "conflict", "uncertain", "timeout",
             "unavailable"}
Place    == {"new", "gone"} \cup Claiming \cup Running \cup Answered

Cacheable == {"ok", "refused"}
Outcome   == {"none", "error", "large"} \cup Cacheable

Executing(r) == pc[r] \in Running

LeaseExpired == age[owner] >= Lease
Expired      == age[owner] >= TTL

Init ==
    /\ state = "absent" /\ owner = Nobody /\ stored = Nobody
    /\ age = [r \in Request |-> Old]
    /\ pc = [r \in Request |-> "new"]
    /\ outcome = [r \in Request |-> "none"]
    /\ source = [r \in Request |-> Nobody]
    /\ committed = {}
    /\ faults = 0

Goto(r, p) == pc' = [pc EXCEPT ![r] = p]

Answer(r, p, s) ==
    /\ Goto(r, p)
    /\ source' = [source EXCEPT ![r] = s]

Fault(k) ==
    /\ k \in Faults /\ faults < MaxFaults
    /\ faults' = faults + 1

\* Mutant: the row is inserted as completed, before any response.
ClaimCompleted(r) ==
    /\ state' = "completed" /\ owner' = r /\ stored' = Nobody
    /\ age' = [age EXCEPT ![r] = 0]

\* INSERT ... ON CONFLICT (cache_key) DO NOTHING that lands.
Claim(r) ==
    /\ state' = "processing" /\ owner' = r /\ stored' = Nobody
    /\ age' = [age EXCEPT ![r] = 0]

Forget == state' = "absent" /\ owner' = Nobody /\ stored' = Nobody

-----------------------------------------------------------------------------
(* claim                                                                   *)

Arrive(r) ==
    /\ pc[r] = "new"
    /\ Goto(r, "insert")
    /\ UNCHANGED <<row, age, outcome, source, committed, faults>>

\* Mutant: ON CONFLICT DO UPDATE takes an expired lease over.
InsertOrTakeOver(r) ==
    /\ pc[r] = "insert"
    /\ IF state = "absent" \/ (state = "processing" /\ LeaseExpired)
       THEN Claim(r) /\ Goto(r, "run")
       ELSE Goto(r, "look") /\ UNCHANGED <<row, age>>
    /\ UNCHANGED <<outcome, source, committed, faults>>

Insert(r) ==
    /\ pc[r] = "insert"
    /\ IF state = "absent"
       THEN Claim(r) /\ Goto(r, "run")
       ELSE Goto(r, "look") /\ UNCHANGED <<row, age>>
    /\ UNCHANGED <<outcome, source, committed, faults>>

\* The INSERT lands but its reply is lost: the request is answered 503 and the
\* row has no one who will finish it.
InsertReplyLost(r) ==
    /\ pc[r] = "insert" /\ state = "absent"
    /\ Fault("lostReply")
    /\ Claim(r)
    /\ Answer(r, "unavailable", Nobody)
    /\ UNCHANGED <<outcome, committed>>

\* The INSERT or the SELECT fails: "idempotency persistence is unavailable".
\* Errors of the DELETEs are ignored.
StatementFails(r) ==
    /\ pc[r] \in {"insert", "look"}
    /\ Fault("statement")
    /\ Answer(r, "unavailable", Nobody)
    /\ UNCHANGED <<row, age, outcome, committed>>

\* Mutant: a row being processed is waited for, whatever its age.
VerdictWaiting(r) ==
    IF state = "absent" THEN "insert"
    ELSE IF Payload[owner] # Payload[r] THEN "conflict"
    ELSE CASE state = "completed"  /\ Expired  -> "deleteCompleted"
           [] state = "completed"  /\ ~Expired -> "replay"
           [] OTHER -> "wait"

\* Mutant: the payload of the stored response is not compared.
VerdictAnyPayload(r) ==
    IF state = "absent" THEN "insert"
    ELSE CASE state = "completed"  /\ Expired  -> "deleteCompleted"
           [] state = "completed"  /\ ~Expired -> "replay"
           [] OTHER -> "wait"

\* What the SELECT's row means for request r.
Verdict(r) ==
    IF state = "absent" THEN "insert"
    ELSE IF Payload[owner] # Payload[r] THEN "conflict"
    ELSE CASE state = "completed"  /\ Expired  -> "deleteCompleted"
           [] state = "completed"  /\ ~Expired -> "replay"
           [] state = "processing" /\ LeaseExpired /\ Expired ->
                "deleteProcessing"
           [] state = "processing" /\ LeaseExpired /\ ~Expired -> "uncertain"
           [] OTHER -> "wait"

Look(r) ==
    /\ pc[r] = "look"
    /\ Answer(r, Verdict(r), IF Verdict(r) = "replay" THEN stored ELSE Nobody)
    /\ UNCHANGED <<row, age, outcome, committed, faults>>

\* Mutant: the DELETE trusts what the SELECT saw.
DoomedAsSeen(r) == state # "absent"

\* The DELETE repeats the conditions the SELECT saw: another request may have
\* replaced the row in between.
Doomed(r) ==
    \/ pc[r] = "deleteCompleted"  /\ state = "completed"  /\ Expired
    \/ pc[r] = "deleteProcessing" /\ state = "processing" /\ LeaseExpired
                                                          /\ Expired

DeleteExpired(r) ==
    /\ pc[r] \in Deleting
    /\ IF Doomed(r) THEN Forget ELSE UNCHANGED row
    /\ Goto(r, "insert")
    /\ UNCHANGED <<age, outcome, source, committed, faults>>

Poll(r) ==
    /\ pc[r] = "wait"
    /\ Goto(r, "insert")
    /\ UNCHANGED <<row, age, outcome, source, committed, faults>>

\* The request's deadline passes or its client leaves: 408.
GiveUp(r) ==
    /\ pc[r] \in Claiming
    /\ Answer(r, "timeout", Nobody)
    /\ UNCHANGED <<row, age, outcome, committed, faults>>

-----------------------------------------------------------------------------
(* The owner runs the command and stores its response.                     *)

\* A status below 500 with or without effect, or a server error before the
\* commit.
Execute(r) ==
    /\ pc[r] = "run"
    /\ \E o \in {"ok", "refused", "error"} :
         /\ outcome' = [outcome EXCEPT ![r] = o]
         /\ committed' = IF o = "ok" THEN committed \cup {r} ELSE committed
    /\ Goto(r, "finish")
    /\ UNCHANGED <<row, age, source, faults>>

\* The command commits, and then a later read fails or the response is longer
\* than maxResponseBytes.
ExecuteUncached(r) ==
    /\ pc[r] = "run"
    /\ \/ Fault("lateError")  /\ outcome' = [outcome EXCEPT ![r] = "error"]
       \/ Fault("largeReply") /\ outcome' = [outcome EXCEPT ![r] = "large"]
    /\ committed' = committed \cup {r}
    /\ Goto(r, "finish")
    /\ UNCHANGED <<row, age, source>>

\* WHERE cache_key=$1 AND owner_token=$2 AND state='processing'
Owns(r) == state = "processing" /\ owner = r

\* The response has gone to the client already; finish stores it, or deletes
\* the row when it is not to be replayed.
Finish(r) ==
    /\ pc[r] = "finish"
    /\ CASE Owns(r) /\ outcome[r] \in Cacheable ->
              state' = "completed" /\ stored' = r /\ UNCHANGED owner
         [] Owns(r) /\ outcome[r] \notin Cacheable -> Forget
         [] OTHER -> UNCHANGED row
    /\ Answer(r, "own", r)
    /\ UNCHANGED <<age, outcome, committed, faults>>

\* "idempotency response persistence failed" is logged and nothing else.
FinishFails(r) ==
    /\ pc[r] = "finish"
    /\ Fault("finish")
    /\ Answer(r, "own", r)
    /\ UNCHANGED <<row, age, outcome, committed>>

\* The process dies, or the handler panics past the middleware.
Crash(r) ==
    /\ pc[r] \in Claiming \cup Running
    /\ Fault("crash")
    /\ Goto(r, "gone")
    /\ UNCHANGED <<row, age, outcome, source, committed>>

-----------------------------------------------------------------------------
(* The retention worker, and time.                                         *)

\* Mutant: a processing row is dropped as soon as its lease has expired.
RetainedByLease ==
    \/ state = "completed"  /\ age[owner] > TTL
    \/ state = "processing" /\ age[owner] > Lease

\* archive_expired_idempotency: completed rows past their window are archived,
\* processing rows past their lease and window are dropped.
Retained ==
    \/ state = "completed"  /\ age[owner] > TTL
    \/ state = "processing" /\ age[owner] > TTL /\ age[owner] > Lease

ArchiveExpired ==
    /\ Retained
    /\ Forget
    /\ UNCHANGED <<age, pc, outcome, source, committed, faults>>

\* A handler runs at most MaxRun.
Tick ==
    /\ \A r \in Request : Executing(r) => age[r] < MaxRun
    /\ age' = [r \in Request |-> IF age[r] < Old THEN age[r] + 1 ELSE Old]
    /\ UNCHANGED <<row, pc, outcome, source, committed, faults>>

-----------------------------------------------------------------------------

Claims(r) == Insert(r) \/ Look(r) \/ DeleteExpired(r) \/ Poll(r)
Runs(r)   == Execute(r) \/ Finish(r)
Fails(r)  == \/ InsertReplyLost(r) \/ StatementFails(r) \/ ExecuteUncached(r)
             \/ FinishFails(r) \/ Crash(r)

Next ==
    \/ \E r \in Request : Arrive(r) \/ Claims(r) \/ GiveUp(r)
                          \/ Runs(r) \/ Fails(r)
    \/ ArchiveExpired
    \/ Tick

Spec == Init /\ [][Next]_vars

\* A handler that runs keeps running, and time passes.  No client is assumed
\* to leave, and no retention worker to run.
FairSpec ==
    /\ Spec
    /\ \A r \in Request : WF_vars(Claims(r)) /\ WF_vars(Runs(r))
    /\ WF_vars(Tick)

-----------------------------------------------------------------------------

TypeOK ==
    /\ state \in {"absent", "processing", "completed"}
    /\ owner \in Request \cup {Nobody}
    /\ stored \in Request \cup {Nobody}
    /\ state # "absent" => owner \in Request
    /\ state = "completed" => stored \in Request
    /\ age \in [Request -> 0 .. Old]
    /\ pc \in [Request -> Place]
    /\ outcome \in [Request -> Outcome]
    /\ source \in [Request -> Request \cup {Nobody}]
    /\ committed \subseteq Request
    /\ faults \in Nat

\* "claim either becomes the single owner of a request, returns a completed
\* response, or waits": no two requests run the command at the same time, as
\* long as handlers stop before the replay window ends.
OneOwner == \A r, s \in Request : Executing(r) /\ Executing(s) => r = s

\* The commits whose response the store may keep.  The others, which answered a
\* server error or too long a response after they committed, are forgotten.
Kept == {r \in committed : outcome[r] \in Cacheable}

\* The command commits at most once per replay window: a request that commits
\* it made its claim at least TTL after that of any commit the store may keep,
\* whatever owner died or stalled in between ("Re-running here could duplicate
\* the command").
AtMostOncePerWindow ==
    [][\A r \in committed' \ committed : \A s \in Kept :
           age[s] - age[r] >= TTL]_vars

\* "idempotency key was already used with a different request": a replayed
\* response was produced by a run of the same payload, and is one that may be
\* stored, also when its owner outlived its row.
ReplayIsFaithful ==
    \A r \in Request : pc[r] = "replay" =>
        /\ source[r] \in Request
        /\ Payload[source[r]] = Payload[r]
        /\ outcome[source[r]] \in Cacheable

\* A command that committed and answered with what may be stored keeps its row
\* for the whole window: until then a retry cannot find the key unused.
CommittedIsRemembered ==
    \A r \in Kept :
        pc[r] \in {"own", "gone"} /\ age[r] < TTL => owner = r

\* Who runs the command, whose storable response is in its window, and who was
\* given another's response.
Runners  == {r \in Request : Executing(r)}
Live     == {r \in Request : outcome[r] \in Cacheable /\ age[r] < TTL}
Replayed == {r \in Request : pc[r] = "replay"}

Promise == INSTANCE OncePromise
             WITH running <- Runners, effects <- committed, live <- Live,
                  given <- Replayed

\* Rows, tokens, leases, polls and the retention together do what OncePromise
\* says: one run at a time, none while a response is in its window, refusals
\* included, and only such a response is given to others.
PromiseKept == Promise!Spec

\* Every request is answered in the end, although others hold the row, die
\* with it or lose it, and no client gives up.
EveryRequestAnswered ==
    \A r \in Request : (pc[r] = "insert") ~> (pc[r] \in Answered \cup {"gone"})
=============================================================================
