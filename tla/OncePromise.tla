----------------------------- MODULE OncePromise -----------------------------
(***************************************************************************)
(* What an idempotency key promises its requests, whatever becomes of      *)
(* rows, leases, tokens and processes.  They run the command one at a      *)
(* time.  Its first response opens a window; until it closes, the command  *)
(* is not run again, and what a request is given without a run is that     *)
(* response, if it asks for the same.                                      *)
(***************************************************************************)
EXTENDS Integers

CONSTANTS
    Request,
    Payload

VARIABLES
    running,  \* requests that run the command
    effects,  \* requests whose run had its effect
    live,     \* requests whose response is in its window
    given     \* requests that were given another's response

Init == running = {} /\ effects = {} /\ live = {} /\ given = {}

Start(r) ==
    /\ running = {} /\ live = {} /\ r \notin effects
    /\ running' = {r}
    /\ UNCHANGED <<effects, live, given>>

\* The run comes to something: a response that counts, with an effect or as a
\* refusal, or one that does not, with an effect or before it.
Respond(r) ==
    /\ running = {r} /\ live = {} /\ r \notin effects
    /\ effects' \in {effects, effects \cup {r}}
    /\ live' \in {{}, {r}}
    /\ UNCHANGED <<running, given>>

\* A run is over, with or without a response.
Stop(r) ==
    /\ running = {r} /\ running' = {}
    /\ UNCHANGED <<effects, live, given>>

Close ==
    /\ running = {} /\ live' = {}
    /\ UNCHANGED <<running, effects, given>>

\* r is given the response of s, whose run is over.
Replay(r, s) ==
    /\ s \in live /\ running = {} /\ Payload[s] = Payload[r]
    /\ given' = given \cup {r}
    /\ UNCHANGED <<running, effects, live>>

Next ==
    \/ Close
    \/ \E r \in Request : \/ Start(r) \/ Respond(r) \/ Stop(r)
                          \/ \E s \in Request : Replay(r, s)

Spec == Init /\ [][Next]_<<running, effects, live, given>>
=============================================================================
