------------------------------ MODULE Realtime ------------------------------
(***************************************************************************)
(* The chat event stream of one member: from a row of the realtime outbox  *)
(* to the member's device.                                                 *)
(*                                                                         *)
(* Triggers write the events of a member in the transaction that changes a *)
(* match or a message.  A row's sequence is allocated when it is inserted, *)
(* and the row is seen when the transaction commits.  A socket reads the   *)
(* rows above its cursor when the wake hub of its server signals it, and   *)
(* every few seconds in any case.  The device keeps the last sequence it   *)
(* received and reconnects behind it; rows expire, are pruned, and are     *)
(* hidden while a match is blocked and when it ends.                       *)
(*                                                                         *)
(* Members share nothing here but the hub, so one member is modelled.      *)
(***************************************************************************)
EXTENDS Integers, FiniteSets, FiniteSetsExt

CONSTANTS
    Match,      \* the member's matches
    Kind,       \* the kinds of event this instance exercises
    Last,       \* bound on the number of events
    Lookback,   \* realtimeWakeLookbackRows
    Limit,      \* events a read returns at most (100)
    MaxDrops    \* bound on how often a connection or a handshake fails

EventKind == {"message.created", "message.read", "match.unmatched"}

ASSUME KindAssumption  == Kind \subseteq EventKind
ASSUME BoundAssumption == /\ Last \in Nat /\ Lookback \in Nat /\ MaxDrops \in Nat
                          /\ Limit \in Nat \ {0}

VARIABLES
    top,        \* the last sequence allocated
    event,      \* event[e]: kind and match of an allocated sequence
    open,       \* sequences of transactions that have not committed
    done,       \* history: sequences of transactions that have
    rows,       \* rows of matching.realtime_outbox
    aged,       \* rows older than realtimeWakeLookbackAge
    expired,    \* rows past expires_at
    pruned,     \* pruned_through_sequence of the member's checkpoint
    ended,      \* matches that are no longer active
    blocked,    \* matches whose members have blocked one another
    high,       \* the hub's high-water mark, -1 until it is primed
    pc,         \* where the socket's loop is, "off" without a socket
    after,      \* the socket's cursor
    signalled,  \* the highest sequence the hub has signalled to the socket
    woken,      \* whether the socket's wake channel holds a signal
    polled,     \* what was signalled before the last read
    batch,      \* events read and not yet written
    wire,       \* events written and not yet received
    cursor,     \* lastEventSequence of the device
    got,        \* history: events the device received or read in a snapshot
    recovered,  \* _cursorRecoveryAttempted of the device
    overtaken,  \* history: events a read went past before they were visible
    drops       \* failures so far, bounded by MaxDrops

outbox == <<top, event, open, done, rows, aged, expired, pruned, ended, blocked>>
socket == <<pc, after, signalled, woken, polled, batch, wire>>
device == <<cursor, got, recovered, overtaken, drops>>
vars   == <<outbox, high, socket, device>>

Seq == 1 .. Last
None == [kind |-> "none", match |-> "none"]

Retained(e) == e \in rows \ expired /\ event[e].match \notin ended
Visible(e)  == Retained(e) /\ event[e].match \notin blocked

Init ==
    /\ top = 0 /\ event = [e \in Seq |-> None]
    /\ open = {} /\ done = {} /\ rows = {} /\ aged = {} /\ expired = {}
    /\ pruned = 0 /\ ended = {} /\ blocked = {}
    /\ high = -1
    /\ pc = "off" /\ after = 0 /\ signalled = 0 /\ woken = FALSE /\ polled = 0
    /\ batch = {} /\ wire = {}
    /\ cursor = 0 /\ got = {} /\ recovered = FALSE /\ overtaken = {} /\ drops = 0

-----------------------------------------------------------------------------
(* The triggers                                                            *)

\* A new message updates its match's row, and so does an unmatch: the lock is
\* held until the commit.  A read receipt is written under the message's lock.
HoldsMatch(k) == k \in {"message.created", "match.unmatched"}

\* Mutant: the event is inserted before the match's row is updated.
FreeAtAnyTime(m) == TRUE

Free(m) ==
    \A e \in open : HoldsMatch(event[e].kind) => event[e].match # m

\* No lock is common to the transactions of two events.
Unordered(e, f) ==
    \/ event[e].match # event[f].match
    \/ ~HoldsMatch(event[e].kind) \/ ~HoldsMatch(event[f].kind)

\* The member's row of a transaction that writes an event about match m.
Insert(m, k) ==
    /\ top < Last /\ m \notin ended
    /\ HoldsMatch(k) => Free(m)
    /\ top' = top + 1
    /\ event' = [event EXCEPT ![top + 1] = [kind |-> k, match |-> m]]
    /\ open' = open \cup {top + 1}
    /\ UNCHANGED <<done, rows, aged, expired, pruned, ended, blocked, high,
                   socket, device>>

Commit(e) ==
    /\ e \in open
    /\ open' = open \ {e}
    /\ done' = done \cup {e} /\ rows' = rows \cup {e}
    /\ ended' = IF event[e].kind = "match.unmatched"
                THEN ended \cup {event[e].match} ELSE ended
    /\ UNCHANGED <<top, event, aged, expired, pruned, blocked, high, socket,
                   device>>

\* A rolled back transaction leaves a hole in the sequence.
Rollback(e) ==
    /\ e \in open
    /\ open' = open \ {e}
    /\ UNCHANGED <<top, event, done, rows, aged, expired, pruned, ended, blocked, high,
                   socket, device>>

\* Ten seconds pass, then thirty days, then thirty more.
Age(e) ==
    /\ e \in rows \ aged
    /\ aged' = aged \cup {e}
    /\ UNCHANGED <<top, event, open, done, rows, expired, pruned, ended, blocked,
                   high, socket, device>>

Expire(e) ==
    /\ e \in aged \ expired
    /\ expired' = expired \cup {e}
    /\ UNCHANGED <<top, event, open, done, rows, aged, pruned, ended, blocked,
                   high, socket, device>>

\* run_runtime_retention and the trigger on its DELETE.
Prune(e) ==
    /\ e \in expired
    /\ rows' = rows \ {e} /\ aged' = aged \ {e} /\ expired' = expired \ {e}
    /\ pruned' = IF e > pruned THEN e ELSE pruned
    /\ UNCHANGED <<top, event, open, done, ended, blocked, high, socket,
                   device>>

\* blockUser and unblockUser touch no event.  Writes into a blocked match are
\* refused by a check that precedes their transaction, so some still commit.
Block(m) ==
    /\ blocked' = blocked \cup {m}
    /\ UNCHANGED <<top, event, open, done, rows, aged, expired, pruned, ended,
                   high, socket, device>>

Unblock(m) ==
    /\ blocked' = blocked \ {m}
    /\ UNCHANGED <<top, event, open, done, rows, aged, expired, pruned, ended,
                   high, socket, device>>

-----------------------------------------------------------------------------
(* The wake hub                                                            *)

HubPrime ==
    /\ high = -1
    /\ high' = IF rows = {} THEN 0 ELSE Max(rows)
    /\ UNCHANGED <<outbox, socket, device>>

Recent == {e \in rows \ aged : e > high - Lookback}

\* One scan.  It is a hint: it looks at no rule of visibility.
HubTick ==
    /\ high >= 0 /\ pc # "off" /\ Recent # {}
    /\ high' = IF Max(Recent) > high THEN Max(Recent) ELSE high
    /\ IF Max(Recent) > signalled
       THEN signalled' = Max(Recent) /\ woken' = TRUE
       ELSE UNCHANGED <<signalled, woken>>
    /\ UNCHANGED <<outbox, pc, after, polled, batch, wire, device>>

-----------------------------------------------------------------------------
(* The socket                                                              *)

Gone == cursor > 0 /\ cursor < pruned

\* streamChatEvents up to its loop: a new subscription, and the device's cursor.
Connect ==
    /\ pc = "off" /\ ~Gone
    /\ pc' = "poll" /\ after' = cursor
    /\ recovered' = FALSE
    /\ overtaken' = {e \in overtaken : e <= cursor}
    /\ UNCHANGED <<outbox, high, signalled, woken, polled, batch, wire, cursor,
                   got, drops>>

\* The device loads the conversation once and starts over from sequence zero.
Recover ==
    /\ cursor > 0 /\ ~recovered
    /\ got' = got \cup done
    /\ cursor' = 0 /\ recovered' = TRUE

\* 410 REPLAY_CURSOR_EXPIRED, or a handshake that fails in any other way.
Rejected ==
    /\ pc = "off" /\ Recover
    /\ \/ Gone /\ drops' = drops
       \/ drops < MaxDrops /\ drops' = drops + 1
    /\ UNCHANGED <<outbox, high, socket, overtaken>>

\* The connection breaks, the session is revoked, a read or a write fails:
\* frames on the wire are lost, and so is what the server kept of the socket.
Disconnect ==
    /\ pc # "off" /\ drops < MaxDrops
    /\ drops' = drops + 1
    /\ pc' = "off" /\ batch' = {} /\ wire' = {}
    /\ after' = 0 /\ signalled' = 0 /\ woken' = FALSE /\ polled' = 0
    /\ UNCHANGED <<outbox, high, cursor, got, recovered, overtaken>>

Poll ==
    /\ pc = "poll"
    /\ polled' = signalled /\ pc' = "list"
    /\ UNCHANGED <<outbox, high, after, signalled, woken, batch,
                   wire, device>>

\* Mutant: the event at the cursor is read again.
FreshAgain(e) == e >= after

Fresh(e) == e > after

\* What a read that returns event e has gone past: what another transaction has
\* not committed, and what a block hides.
Passes(e) ==
    {f \in open : f < e /\ Fresh(f) /\ Unordered(e, f)} \cup
    {f \in rows : f < e /\ Fresh(f) /\ Retained(f) /\ ~Visible(f)}

\* listEvents
List ==
    /\ pc = "list"
    /\ LET found == {e \in rows : Visible(e) /\ Fresh(e)} IN
          batch' = {e \in found :
                      Cardinality({f \in found : f < e}) < Limit}
    /\ pc' = IF batch' = {} THEN "wait" ELSE "write"
    /\ overtaken' = overtaken \cup UNION {Passes(e) : e \in batch'}
    /\ UNCHANGED <<outbox, high, after, signalled, woken, polled,
                   wire, cursor, got, recovered, drops>>

\* One event of writePendingChatEvents.  markDelivered follows and may fail; the
\* receipt it causes is an event of the sender's stream.
Write ==
    /\ pc = "write"
    /\ \E e \in batch :
          /\ \A f \in batch : e <= f
          /\ wire' = wire \cup {e} /\ after' = e /\ batch' = batch \ {e}
    /\ pc' = IF batch' = {} THEN "wait" ELSE "write"
    /\ UNCHANGED <<outbox, high, signalled, woken, polled, device>>

\* Mutant: without the fallback poll the hub is the only source of reads.
NeverPollDue == FALSE /\ UNCHANGED vars

\* waitForRealtimePoll: the fallback ticker.
PollDue ==
    /\ pc = "wait" /\ pc' = "poll"
    /\ UNCHANGED <<outbox, high, after, signalled, woken, polled,
                   batch, wire, device>>

\* waitForRealtimePoll: a wake, which counts only above what was read.
Wake ==
    /\ pc = "wait" /\ woken /\ woken' = FALSE
    /\ pc' = IF signalled > after /\ signalled > polled THEN "poll" ELSE "wait"
    /\ UNCHANGED <<outbox, high, after, signalled, polled, batch,
                   wire, device>>

\* The device handles the next frame.
Receive ==
    /\ \E e \in wire :
          /\ \A f \in wire : e <= f
          /\ wire' = wire \ {e} /\ got' = got \cup {e}
          /\ cursor' = IF e > cursor THEN e ELSE cursor
    /\ UNCHANGED <<outbox, high, pc, after, signalled, woken,
                   polled, batch, recovered, overtaken, drops>>

Loop == Poll \/ List \/ Write \/ PollDue

Next ==
    \/ \E m \in Match, k \in Kind : Insert(m, k)
    \/ \E m \in Match : Block(m) \/ Unblock(m)
    \/ \E e \in Seq : Commit(e) \/ Rollback(e) \/ Age(e) \/ Expire(e) \/ Prune(e)
    \/ HubPrime \/ HubTick \/ Wake
    \/ Connect \/ Rejected \/ Disconnect \/ Loop \/ Receive

Spec == Init /\ [][Next]_vars

\* The loop runs and the device reconnects; nothing is asked of the hub.
FairSpec ==
    /\ Spec
    /\ WF_vars(Loop) /\ WF_vars(Connect) /\ WF_vars(Rejected) /\ WF_vars(Receive)

-----------------------------------------------------------------------------
(* Properties                                                              *)

TypeOK ==
    /\ top \in 0 .. Last
    /\ event \in [Seq -> [kind : Kind \cup {"none"}, match : Match \cup {"none"}]]
    /\ {open, done, rows, aged, expired} \subseteq SUBSET (1 .. top)
    /\ pruned \in 0 .. top /\ {ended, blocked} \subseteq SUBSET Match
    /\ high \in -1 .. top
    /\ pc \in {"off", "poll", "list", "write", "wait"}
    /\ {after, signalled, polled, cursor} \subseteq 0 .. top
    /\ {batch, wire, got, overtaken} \subseteq SUBSET (1 .. top)
    /\ {woken, recovered} \subseteq BOOLEAN
    /\ drops \in 0 .. MaxDrops
    /\ pc # "off" => \A e \in batch : e > after

\* The device's cursor never passes an event that is still to be replayed:
\* through drops, lost frames, expiry, pruning and recovery, reconnecting
\* behind the cursor misses nothing.
NothingSkipped ==
    \A e \in rows : Visible(e) /\ e <= cursor => e \in got

\* What the cursor has passed and the device never got was overtaken by a read: a
\* block hid it then, or it had not committed while an event of another match, or
\* one of two events without a lock, had.  Whatever drops, is lost, expires, is
\* pruned or recovered, and within what one lock orders, nothing else is missed.
OnlyTheOvertakenAreMissed ==
    \A e \in rows \ overtaken : Visible(e) /\ e <= cursor => e \in got

\* Whatever the hub misses, an event that was not overtaken reaches the device
\* while it is retained and its match is active.
EveryEventArrives ==
    \A e \in Seq : Visible(e) ~> (e \in got \cup overtaken \/ ~Visible(e))
=============================================================================
