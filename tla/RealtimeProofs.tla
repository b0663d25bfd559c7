----------------------------- MODULE RealtimeProofs -----------------------------
(***************************************************************************)
(* Proofs about Realtime, for every number of matches, events and failures *)
(* and every limit of a read: a stream misses only what its cursor         *)
(* overtook, a lock common to two transactions keeps the cursor from       *)
(* overtaking, and every variable keeps its type.                          *)
(***************************************************************************)
EXTENDS Realtime, FiniteSetTheorems, WellFoundedInduction, TLAPS

\* What is or may become readable, and is not over.
Coming == open \cup {e \in rows : Retained(e)}

TableInv ==
    /\ top \in 0 .. Last
    /\ \A e \in 1 .. top : event[e].kind \in Kind /\ event[e].match \in Match
    /\ DOMAIN event = Seq
    /\ open \subseteq 1 .. top
    /\ done \subseteq 1 .. top
    /\ rows \subseteq done

\* Events that follow one which is still open hold no lock it holds.
LockInv == \A f \in open, e \in 1 .. top : f < e => Unordered(e, f)

\* Cursors are sequences of committed events; frames are between them.
CursorInv ==
    /\ {after, cursor} \subseteq done \cup {0}
    /\ batch \cup wire \subseteq done
    /\ pc = "off" => wire = {}
    /\ batch # {} => pc = "write"
    /\ \A e \in wire : e <= after
    /\ \A e \in batch : e > after

\* What a socket's cursor has passed is on its way, or overtaken.
PassedInv ==
    pc # "off" => \A e \in Coming : e <= after => e \in got \cup wire \cup overtaken

\* So is what the device has passed, committed or not, hidden by a block or not:
\* nothing else comes up behind the cursor.
BehindInv ==
    \A e \in Coming : e <= cursor => e \in got \cup overtaken

\* A batch has no other holes.
BatchInv ==
    \A e \in batch, f \in Coming :
        after < f /\ f < e => f \in batch \cup overtaken

StreamInv == TableInv /\ LockInv /\ CursorInv /\ PassedInv /\ BatchInv /\ BehindInv

LEMMA Numbers ==
  ASSUME TableInv, CursorInv
  PROVE  /\ done \subseteq Nat /\ rows \subseteq Nat
         /\ batch \subseteq Nat /\ wire \subseteq Nat
         /\ after \in Nat /\ cursor \in Nat
  <1>1. done \subseteq Nat
    BY DEF TableInv
  <1>2. done \cup {0} \subseteq Nat
    BY <1>1
  <1>3. rows \subseteq done
    BY DEF TableInv
  <1>4. batch \subseteq done /\ wire \subseteq done
    BY DEF CursorInv
  <1>5. after \in done \cup {0} /\ cursor \in done \cup {0}
    BY DEF CursorInv
  <1> QED BY <1>1, <1>2, <1>3, <1>4, <1>5

LEMMA ComingNumbers ==
  ASSUME TableInv
  PROVE  \A e \in Coming : e \in Nat /\ e >= 1
  <1>1. rows \subseteq 1 .. top /\ open \subseteq 1 .. top
    BY DEF TableInv
  <1>2. Coming \subseteq 1 .. top
    BY <1>1 DEF Coming
  <1> QED BY <1>2

LEMMA InitStream == Init => StreamInv
  BY BoundAssumption DEF Init, StreamInv, TableInv, LockInv, CursorInv, PassedInv, BatchInv,
     BehindInv, Coming, Seq

-----------------------------------------------------------------------------
(* A read takes the earliest events it sees, so it leaves no hole but what  *)
(* it overtakes.                                                           *)

LEMMA ListHasNoHoles ==
  ASSUME TableInv, List,
         NEW e \in batch', NEW f \in rows, Visible(f), Fresh(f), f < e
  PROVE  f \in batch'
  <1> DEFINE found == {x \in rows : Visible(x) /\ Fresh(x)}
             Below(x) == {y \in found : y < x}
  <1>1. batch' = {x \in found : Cardinality(Below(x)) < Limit}
    BY DEF List
  <1>2. rows \subseteq 1 .. top /\ top \in Int
    BY DEF TableInv
  <1>3. IsFiniteSet(Below(e))
    <2>1. IsFiniteSet(1 .. top)
      BY <1>2, FS_Interval
    <2> QED BY <2>1, <1>2, FS_Subset
  <1>4. Below(f) \subseteq Below(e)
    <2>1. e \in rows
      BY <1>1
    <2>2. \A y \in rows : y \in Int
      BY <1>2
    <2> QED BY <2>1, <2>2
  <1>5. /\ Cardinality(Below(f)) <= Cardinality(Below(e))
        /\ Cardinality(Below(f)) \in Nat /\ Cardinality(Below(e)) \in Nat
    BY <1>3, <1>4, FS_Subset, FS_CardinalityType
  <1> HIDE DEF Below
  <1>6. Cardinality(Below(f)) < Limit
    BY <1>1, <1>5, BoundAssumption
  <1> QED BY <1>1, <1>6

LEMMA ListOvertakes ==
  ASSUME TableInv, LockInv, List,
         NEW e \in batch', NEW f \in Coming, Fresh(f), f < e
  PROVE  f \in batch' \cup overtaken'
  <1>1. e \in 1 .. top
    BY DEF List, TableInv
  <1>2. Passes(e) \subseteq overtaken'
    BY DEF List
  <1>3. CASE f \in open
    BY <1>1, <1>2, <1>3 DEF LockInv, Passes
  <1>4. CASE f \in rows /\ Retained(f) /\ ~Visible(f)
    BY <1>2, <1>4 DEF Passes
  <1>5. CASE f \in rows /\ Visible(f)
    BY <1>5, ListHasNoHoles
  <1> QED BY <1>3, <1>4, <1>5 DEF Coming

-----------------------------------------------------------------------------
(* Every step keeps the invariant.                                         *)

LEMMA InsertKeeps ==
  ASSUME StreamInv, NEW m \in Match, NEW k \in Kind, Insert(m, k)
  PROVE  StreamInv'
  <1> USE DEF StreamInv
  <1>1. /\ top' = top + 1 /\ top' \in 0 .. Last /\ top' \in Seq /\ top \in Nat
        /\ event' = [event EXCEPT ![top + 1] = [kind |-> k, match |-> m]]
        /\ open' = open \cup {top + 1}
        /\ HoldsMatch(k) => Free(m)
    BY BoundAssumption DEF Insert, TableInv, Seq
  <1>2. UNCHANGED <<done, rows, expired, ended, pc, after, batch, wire, cursor, got, overtaken>>
    BY DEF Insert, socket, device
  <1>3. /\ \A e \in 1 .. top : event'[e] = event[e]
        /\ event'[top + 1] = [kind |-> k, match |-> m]
    BY <1>1 DEF TableInv, Seq
  <1>4. Coming' = Coming \cup {top + 1}
    <2>1. \A e \in rows : Retained(e)' <=> Retained(e)
      BY <1>2, <1>3 DEF Retained, TableInv
    <2> QED BY <1>1, <1>2, <2>1 DEF Coming
  <1>5. TableInv'
    BY <1>1, <1>2, <1>3 DEF TableInv
  <1>6. LockInv'
    <2> SUFFICES ASSUME NEW f \in open', NEW e \in 1 .. top', f < e
                 PROVE  Unordered(e, f)'
      BY DEF LockInv
    <2>1. f \in open /\ f \in 1 .. top
      BY <1>1 DEF TableInv
    <2>2. CASE e \in 1 .. top
      BY <1>3, <2>1, <2>2 DEF LockInv, Unordered
    <2>3. CASE e = top + 1
      <3>1. HoldsMatch(k) /\ HoldsMatch(event[f].kind) => event[f].match # m
        BY <1>1, <2>1 DEF Free
      <3> QED BY <1>3, <2>1, <2>3, <3>1 DEF Unordered
    <2> QED BY <1>1, <2>2, <2>3
  <1>7. after < top + 1 /\ cursor < top + 1 /\ \A e \in batch : e < top + 1
    <2>1. \A e \in done \cup {0} : e \in Nat /\ e <= top
      BY <1>1 DEF TableInv
    <2>2. after \in done \cup {0} /\ cursor \in done \cup {0} /\ batch \subseteq done
      BY DEF CursorInv
    <2> QED BY <1>1, <2>1, <2>2
  <1>8. ~(top + 1 <= after) /\ ~(top + 1 <= cursor) /\ \A e \in batch : ~(top + 1 < e)
    BY <1>1, <1>7, Numbers
  <1>9. CursorInv' /\ PassedInv' /\ BatchInv' /\ BehindInv'
    BY <1>2, <1>4, <1>8 DEF CursorInv, PassedInv, BatchInv, BehindInv
  <1> QED BY <1>5, <1>6, <1>9

\* Commits, rollbacks, time and blocks only take from what is coming: an event
\* that commits was coming before.
LEMMA ComingShrinks ==
  ASSUME StreamInv, Coming' \subseteq Coming, open' \subseteq open,
         rows' \subseteq done', done \subseteq done', done' \subseteq done \cup open,
         UNCHANGED <<top, event, pc, after, batch, wire, cursor, got, overtaken>>
  PROVE  StreamInv'
  <1> USE DEF StreamInv
  <1>1. TableInv' /\ CursorInv'
    BY DEF TableInv, CursorInv
  <1>2. LockInv'
    BY DEF LockInv, Unordered
  <1>3. PassedInv' /\ BatchInv' /\ BehindInv'
    BY DEF PassedInv, BatchInv, BehindInv
  <1> QED BY <1>1, <1>2, <1>3

LEMMA CommitKeeps ==
  ASSUME StreamInv, NEW e \in Seq, Commit(e)
  PROVE  StreamInv'
  <1>1. /\ e \in open
        /\ open' = open \ {e} /\ done' = done \cup {e} /\ rows' = rows \cup {e}
        /\ ended \subseteq ended'
    BY DEF Commit
  <1>2. UNCHANGED <<top, event, expired, pc, after, batch, wire, cursor, got, overtaken>>
    BY DEF Commit, socket, device
  <1>3. \A f \in rows : Retained(f)' => Retained(f)
    BY <1>1, <1>2 DEF Retained
  <1>4. Coming' \subseteq Coming
    BY <1>1, <1>3 DEF Coming
  <1>5. rows' \subseteq done'
    BY <1>1 DEF StreamInv, TableInv
  <1> QED BY <1>1, <1>2, <1>4, <1>5, ComingShrinks

LEMMA HidingKeeps ==
  ASSUME StreamInv, rows' \subseteq rows, rows' \ expired' \subseteq rows \ expired,
         open' \subseteq open,
         UNCHANGED <<top, event, done, ended, pc, after, batch, wire, cursor, got, overtaken>>
  PROVE  StreamInv'
  <1>1. \A f \in rows' : Retained(f)' => Retained(f)
    BY DEF Retained
  <1>2. Coming' \subseteq Coming
    BY <1>1 DEF Coming
  <1>3. rows' \subseteq done'
    BY DEF StreamInv, TableInv
  <1> QED BY <1>2, <1>3, ComingShrinks

\* A step that leaves the outbox alone leaves alone what is coming.
LEMMA OutboxAlone ==
  ASSUME UNCHANGED outbox
  PROVE  Coming' = Coming /\ (TableInv => TableInv') /\ (LockInv => LockInv')
  BY DEF outbox, Coming, Retained, TableInv, LockInv, Unordered

\* A step of the hub or of a loop that reads and sends nothing.
LEMMA IdleKeeps ==
  ASSUME StreamInv, UNCHANGED <<outbox, after, batch, wire, cursor, got, overtaken>>,
         pc = "off" <=> pc' = "off", batch # {} => pc' = pc
  PROVE  StreamInv'
  BY OutboxAlone DEF StreamInv, CursorInv, PassedInv, BatchInv, BehindInv, outbox

LEMMA ConnectKeeps == StreamInv /\ Connect => StreamInv'
  <1> SUFFICES ASSUME StreamInv, Connect PROVE StreamInv'
    OBVIOUS
  <1>1. batch = {} /\ wire = {}
    BY DEF Connect, StreamInv, CursorInv
  <1>2. /\ UNCHANGED <<outbox, batch, wire, cursor, got>>
        /\ pc' = "poll" /\ after' = cursor
        /\ overtaken' = {e \in overtaken : e <= cursor}
    BY DEF Connect
  <1>3. BehindInv' /\ PassedInv'
    BY <1>2, OutboxAlone DEF StreamInv, BehindInv, PassedInv
  <1> QED BY <1>1, <1>2, <1>3, OutboxAlone DEF StreamInv, CursorInv, BatchInv, outbox

LEMMA RejectedKeeps == StreamInv /\ Rejected => StreamInv'
  <1> SUFFICES ASSUME StreamInv, Rejected PROVE StreamInv'
    OBVIOUS
  <1>1. /\ pc = "off" /\ cursor' = 0
        /\ UNCHANGED <<outbox, socket, overtaken>>
    BY DEF Rejected, Recover
  <1>2. \A e \in Coming : ~(e <= 0)
    BY ComingNumbers DEF StreamInv
  <1>3. BehindInv'
    BY <1>1, <1>2, OutboxAlone DEF BehindInv
  <1> QED BY <1>1, <1>3, OutboxAlone DEF StreamInv, outbox, socket, CursorInv, PassedInv, BatchInv

LEMMA DisconnectKeeps == StreamInv /\ Disconnect => StreamInv'
  <1> SUFFICES ASSUME StreamInv, Disconnect PROVE StreamInv'
    OBVIOUS
  <1> QED BY OutboxAlone DEF StreamInv, Disconnect, outbox, CursorInv, PassedInv,
                     BatchInv, BehindInv

LEMMA ListKeeps == StreamInv /\ List => StreamInv'
  <1> SUFFICES ASSUME StreamInv, List PROVE StreamInv'
    OBVIOUS
  <1> USE DEF StreamInv
  <1>1. /\ UNCHANGED <<outbox, after, wire, cursor, got>> /\ pc = "list" /\ batch = {}
        /\ overtaken \subseteq overtaken'
    BY DEF List, CursorInv
  <1>2. batch' \subseteq rows /\ \A e \in batch' : e > after
    BY DEF List, Fresh
  <1>3. pc' = IF batch' = {} THEN "wait" ELSE "write"
    BY DEF List
  <1>4. Coming' = Coming /\ TableInv' /\ LockInv'
    BY <1>1, OutboxAlone
  <1>5. CursorInv'
    BY <1>1, <1>2, <1>3 DEF CursorInv, TableInv, outbox
  <1>6. PassedInv' /\ BehindInv'
    BY <1>1, <1>4 DEF PassedInv, BehindInv
  <1>7. BatchInv'
    <2> SUFFICES ASSUME NEW e \in batch', NEW f \in Coming, after < f, f < e
                 PROVE  f \in batch' \cup overtaken'
      BY <1>1, <1>4 DEF BatchInv
    <2>1. Fresh(f)
      BY Numbers DEF Fresh, Coming, TableInv
    <2> QED BY <2>1, ListOvertakes
  <1> QED BY <1>4, <1>5, <1>6, <1>7

LEMMA WriteKeeps == StreamInv /\ Write => StreamInv'
  <1> SUFFICES ASSUME StreamInv, Write PROVE StreamInv'
    OBVIOUS
  <1> USE DEF StreamInv
  <1>1. PICK e \in batch :
           /\ \A f \in batch : e <= f
           /\ wire' = wire \cup {e} /\ after' = e /\ batch' = batch \ {e}
    BY DEF Write
  <1>2. UNCHANGED <<outbox, cursor, got, overtaken>> /\ pc = "write"
    BY DEF Write, device
  <1>3. pc' = IF batch' = {} THEN "wait" ELSE "write"
    BY DEF Write
  <1>4. Coming' = Coming /\ TableInv' /\ LockInv' /\ BehindInv'
    BY <1>2, OutboxAlone DEF BehindInv
  <1>5. /\ done \subseteq Nat /\ after \in Nat
        /\ batch \subseteq Nat /\ wire \subseteq Nat /\ after < e
    BY Numbers DEF CursorInv
  <1>6. CursorInv'
    <2>1. e \in done
      BY DEF CursorInv
    <2>2. \A f \in batch' : f > after'
      BY <1>1, <1>5
    <2>3. \A f \in wire' : f <= after'
      BY <1>1, <1>5 DEF CursorInv
    <2>4. UNCHANGED <<done, cursor>>
      BY <1>2 DEF outbox
    <2> QED BY <1>1, <1>2, <1>3, <2>1, <2>2, <2>3, <2>4 DEF CursorInv
  <1>7. Coming \subseteq Nat
    BY ComingNumbers
  <1>8. PassedInv'
    <2> SUFFICES ASSUME NEW f \in Coming, f <= e
                 PROVE  f \in got \cup wire \cup {e} \cup overtaken
      BY <1>1, <1>2, <1>4 DEF PassedInv
    <2>1. CASE f <= after
      BY <1>2, <2>1 DEF PassedInv
    <2>2. CASE after < f /\ f < e
      <3>1. f \in batch => e <= f
        BY <1>1
      <3> QED BY <1>5, <1>7, <2>2, <3>1 DEF BatchInv
    <2> QED BY <1>5, <1>7, <2>1, <2>2
  <1>9. BatchInv'
    <2> SUFFICES ASSUME NEW g \in batch \ {e}, NEW f \in Coming, e < f, f < g
                 PROVE  f \in (batch \ {e}) \cup overtaken
      BY <1>1, <1>2, <1>4 DEF BatchInv
    <2>1. after < f /\ f # e
      BY <1>5, <1>7
    <2> QED BY <2>1 DEF BatchInv
  <1> QED BY <1>4, <1>6, <1>8, <1>9

LEMMA ReceiveKeeps == StreamInv /\ Receive => StreamInv'
  <1> SUFFICES ASSUME StreamInv, Receive PROVE StreamInv'
    OBVIOUS
  <1> USE DEF StreamInv
  <1>1. PICK e \in wire :
           /\ \A f \in wire : e <= f
           /\ wire' = wire \ {e} /\ got' = got \cup {e}
           /\ cursor' = IF e > cursor THEN e ELSE cursor
    BY DEF Receive
  <1>2. UNCHANGED <<outbox, pc, after, batch, overtaken>> /\ pc # "off"
    BY <1>1 DEF Receive, CursorInv
  <1>3. Coming' = Coming /\ TableInv' /\ LockInv'
    BY <1>2, OutboxAlone
  <1>4. /\ Coming \subseteq Nat /\ wire \subseteq Nat
        /\ cursor \in Nat /\ after \in Nat /\ e <= after
    <2>1. Coming \subseteq Nat
      BY ComingNumbers
    <2> QED BY <2>1, Numbers DEF CursorInv
  <1>5. CursorInv' /\ BatchInv'
    BY <1>1, <1>2, <1>3 DEF CursorInv, BatchInv, outbox
  <1>6. PassedInv'
    BY <1>1, <1>2, <1>3 DEF PassedInv
  <1>7. BehindInv'
    <2> SUFFICES ASSUME NEW f \in Coming, f <= cursor'
                 PROVE  f \in got' \cup overtaken
      BY <1>2, <1>3 DEF BehindInv
    <2>1. CASE f <= cursor
      BY <1>1, <2>1 DEF BehindInv
    <2>2. CASE ~(f <= cursor)
      <3>1. f <= e /\ f <= after
        BY <1>1, <1>4, <2>2
      <3>2. f \in wire => e <= f
        BY <1>1
      <3> QED BY <1>1, <1>2, <1>4, <3>1, <3>2 DEF PassedInv
    <2> QED BY <2>1, <2>2
  <1> QED BY <1>3, <1>5, <1>6, <1>7

LEMMA StreamStep == StreamInv /\ [Next]_vars => StreamInv'
  <1> SUFFICES ASSUME StreamInv, [Next]_vars PROVE StreamInv'
    OBVIOUS
  <1>1. CASE \E m \in Match, k \in Kind : Insert(m, k)
    BY <1>1, InsertKeeps
  <1>2. CASE \E e \in Seq : Commit(e)
    BY <1>2, CommitKeeps
  <1>0. CASE \E m \in Match : Block(m) \/ Unblock(m)
    BY <1>0, HidingKeeps DEF Block, Unblock, socket, device
  <1>3. CASE \E e \in Seq : Rollback(e) \/ Age(e) \/ Expire(e) \/ Prune(e)
    BY <1>3, HidingKeeps DEF Rollback, Age, Expire, Prune, socket, device
  <1>4. CASE HubPrime \/ HubTick
    BY <1>4, IdleKeeps DEF HubPrime, HubTick, outbox, socket, device
  <1>5. CASE Poll \/ PollDue \/ Wake
    BY <1>5, IdleKeeps DEF Poll, PollDue, Wake, outbox, device, StreamInv, CursorInv
  <1>6. CASE UNCHANGED vars
    BY <1>6, IdleKeeps DEF vars, outbox, socket, device
  <1> QED
    BY <1>0, <1>1, <1>2, <1>3, <1>4, <1>5, <1>6, ConnectKeeps, RejectedKeeps,
       DisconnectKeeps, ListKeeps, WriteKeeps, ReceiveKeeps DEF Next, Loop

\* In whatever order transactions commit and whatever a block hides, the device's
\* cursor passes an event that is still to be replayed only if a read overtook
\* it: a block hid it then, or it had not committed while an event with which it
\* shares no lock had.
THEOREM OvertakenOnly == Spec => []OnlyTheOvertakenAreMissed
  <1>1. StreamInv => OnlyTheOvertakenAreMissed
    BY DEF StreamInv, BehindInv, Coming, OnlyTheOvertakenAreMissed, Visible
  <1> QED BY <1>1, InitStream, StreamStep, PTL DEF Spec

-----------------------------------------------------------------------------
(* Types.  These hold of every instance, whatever orders the transactions. *)

\* An allocated sequence has its event.
OutboxTypes ==
    /\ top \in 0 .. Last
    /\ event \in [Seq -> [kind : Kind \cup {"none"}, match : Match \cup {"none"}]]
    /\ open \subseteq 1 .. top /\ done \subseteq 1 .. top /\ rows \subseteq 1 .. top
    /\ aged \subseteq 1 .. top /\ expired \subseteq 1 .. top
    /\ pruned \in 0 .. top /\ ended \subseteq Match /\ blocked \subseteq Match
    /\ \A e \in 1 .. top : event[e].kind \in Kind /\ event[e].match \in Match

\* A batch belongs to a write.
SocketTypes ==
    /\ high \in -1 .. top
    /\ pc \in {"off", "poll", "list", "write", "wait"}
    /\ after \in 0 .. top /\ signalled \in 0 .. top /\ polled \in 0 .. top
    /\ batch \subseteq 1 .. top /\ wire \subseteq 1 .. top
    /\ batch # {} => pc = "write"
    /\ \A e \in batch : e > after

DeviceTypes ==
    /\ cursor \in 0 .. top /\ got \subseteq 1 .. top /\ overtaken \subseteq 1 .. top
    /\ drops \in 0 .. MaxDrops

TypeInv == OutboxTypes /\ SocketTypes /\ DeviceTypes

FlagTypes == woken \in BOOLEAN /\ recovered \in BOOLEAN

LEMMA TypeInvIsEnough == TypeInv /\ FlagTypes => TypeOK
<1> SUFFICES ASSUME TypeInv, FlagTypes PROVE TypeOK
  OBVIOUS
<1> USE DEF TypeInv
<1>1. {open, done, rows, aged, expired} \subseteq SUBSET (1 .. top)
  BY DEF OutboxTypes
<1>2. {ended, blocked} \subseteq SUBSET Match
  BY DEF OutboxTypes
<1>3. {after, signalled, polled, cursor} \subseteq 0 .. top
  BY DEF SocketTypes, DeviceTypes
<1>4. {batch, wire, got, overtaken} \subseteq SUBSET (1 .. top)
  BY DEF SocketTypes, DeviceTypes
<1>5. {woken, recovered} \subseteq BOOLEAN
  BY Zenon DEF FlagTypes
<1>6. /\ top \in 0 .. Last /\ pruned \in 0 .. top
      /\ event \in [Seq -> [kind : Kind \cup {"none"}, match : Match \cup {"none"}]]
  BY DEF OutboxTypes
<1>7. /\ high \in -1 .. top /\ pc \in {"off", "poll", "list", "write", "wait"}
      /\ drops \in 0 .. MaxDrops /\ \A e \in batch : e > after
  BY DEF SocketTypes, DeviceTypes
<1> QED BY <1>1, <1>2, <1>3, <1>4, <1>5, <1>6, <1>7 DEF TypeOK

\* The greatest sequence of a set of sequences is one of them.
LEMMA GreatestSequence ==
  ASSUME NEW n \in Nat, NEW S \in SUBSET (1 .. n), S # {}
  PROVE  Max(S) \in S
<1> DEFINE Distances == {n - x : x \in S}
<1>1. \A x \in S : x \in 1 .. n
  OBVIOUS
<1>2. Distances \subseteq Nat /\ Distances # {}
  <2>1. \A x \in S : n - x \in Nat
    BY <1>1
  <2>2. PICK x \in S : TRUE
    OBVIOUS
  <2> QED BY <2>1, <2>2
<1>3. PICK d \in Distances : \A c \in Distances : <<c, d>> \notin OpToRel(<, Nat)
  BY <1>2, NatLessThanWellFounded, WFMin
<1>4. \A c \in Distances : d <= c
  <2> SUFFICES ASSUME NEW c \in Distances PROVE ~(c < d)
    BY <1>2
  <2>1. c \in Nat /\ d \in Nat /\ <<c, d>> \notin OpToRel(<, Nat)
    BY <1>2, <1>3
  <2> QED BY <2>1 DEF OpToRel
<1>5. PICK x \in S : d = n - x
  OBVIOUS
<1>6. \A y \in S : x >= y
  <2> SUFFICES ASSUME NEW y \in S PROVE x >= y
    OBVIOUS
  <2>1. n - x <= n - y
    BY <1>4, <1>5
  <2>2. x \in 1 .. n /\ y \in 1 .. n
    BY <1>1, <1>5
  <2> QED BY <2>1, <2>2
<1> QED BY <1>6 DEF Max

LEMMA InitTypes == Init => TypeInv
<1> SUFFICES ASSUME Init PROVE TypeInv
  OBVIOUS
<1>1. event \in [Seq -> [kind : Kind \cup {"none"}, match : Match \cup {"none"}]]
  BY DEF Init, None
<1>2. OutboxTypes
  BY <1>1, BoundAssumption DEF Init, OutboxTypes
<1>3. SocketTypes /\ DeviceTypes
  BY BoundAssumption DEF Init, SocketTypes, DeviceTypes
<1> QED BY <1>2, <1>3 DEF TypeInv

LEMMA InsertTypes ==
  ASSUME TypeInv, NEW m \in Match, NEW k \in Kind, Insert(m, k)
  PROVE  TypeInv'
<1>1. /\ top' = top + 1 /\ top' \in 1 .. Last /\ top \in Nat
      /\ event' = [event EXCEPT ![top + 1] = [kind |-> k, match |-> m]]
      /\ open' = open \cup {top'}
  BY BoundAssumption DEF Insert, TypeInv, OutboxTypes
<1>2. UNCHANGED <<done, rows, aged, expired, pruned, ended, blocked, high, socket, device>>
  BY DEF Insert
<1>3. 1 .. top \subseteq 1 .. top' /\ 0 .. top \subseteq 0 .. top'
      /\ -1 .. top \subseteq -1 .. top' /\ 1 .. top' = 1 .. top \cup {top'}
  BY <1>1
<1>4. event' \in [Seq -> [kind : Kind \cup {"none"}, match : Match \cup {"none"}]]
  BY <1>1 DEF TypeInv, OutboxTypes
<1>5. \A e \in 1 .. top' : event'[e].kind \in Kind /\ event'[e].match \in Match
  <2> SUFFICES ASSUME NEW e \in 1 .. top'
               PROVE  event'[e].kind \in Kind /\ event'[e].match \in Match
    OBVIOUS
  <2>1. DOMAIN event = Seq /\ top' \in Seq
    BY <1>1 DEF TypeInv, OutboxTypes, Seq
  <2>2. CASE e = top'
    BY <1>1, <2>1, <2>2
  <2>3. CASE e # top'
    BY <1>1, <1>3, <2>1, <2>3 DEF TypeInv, OutboxTypes, Seq
  <2> QED BY <2>2, <2>3
<1>6. OutboxTypes'
  <2>1. /\ open' \subseteq 1 .. top' /\ done' \subseteq 1 .. top' /\ rows' \subseteq 1 .. top'
        /\ aged' \subseteq 1 .. top' /\ expired' \subseteq 1 .. top' /\ pruned' \in 0 .. top'
    BY <1>1, <1>2, <1>3 DEF TypeInv, OutboxTypes
  <2>2. top' \in 0 .. Last /\ ended' \subseteq Match /\ blocked' \subseteq Match
    BY <1>1, <1>2 DEF TypeInv, OutboxTypes
  <2> QED BY <1>4, <1>5, <2>1, <2>2 DEF OutboxTypes
<1>7. SocketTypes'
  BY <1>2, <1>3 DEF TypeInv, SocketTypes, socket
<1>8. DeviceTypes'
  BY <1>2, <1>3 DEF TypeInv, DeviceTypes, device
<1> QED BY <1>6, <1>7, <1>8 DEF TypeInv

\* A step of the outbox other than an insert leaves the socket and the device alone.
LEMMA OutboxStepTypes ==
  ASSUME TypeInv, OutboxTypes', UNCHANGED <<top, high, socket, device>>
  PROVE  TypeInv'
BY DEF TypeInv, SocketTypes, DeviceTypes, socket, device

LEMMA CommitTypes ==
  ASSUME TypeInv, NEW e \in Seq, Commit(e)
  PROVE  TypeInv'
<1>1. e \in 1 .. top /\ event[e].match \in Match
  BY DEF Commit, TypeInv, OutboxTypes
<1>2. OutboxTypes'
  BY <1>1 DEF Commit, TypeInv, OutboxTypes
<1> QED BY <1>2, OutboxStepTypes DEF Commit

LEMMA PruneTypes ==
  ASSUME TypeInv, NEW e \in Seq, Prune(e)
  PROVE  TypeInv'
<1>1. e \in 1 .. top
  BY DEF Prune, TypeInv, OutboxTypes
<1>2. OutboxTypes'
  BY <1>1 DEF Prune, TypeInv, OutboxTypes
<1> QED BY <1>2, OutboxStepTypes DEF Prune

\* What the hub reports is a row.
LEMMA HubTypes == TypeInv /\ (HubPrime \/ HubTick) => TypeInv'
<1> SUFFICES ASSUME TypeInv, HubPrime \/ HubTick PROVE TypeInv'
  OBVIOUS
<1>1. UNCHANGED outbox /\ UNCHANGED device /\ UNCHANGED <<pc, after, polled, batch, wire>>
  BY DEF HubPrime, HubTick, socket
<1>2. OutboxTypes' /\ DeviceTypes' /\ top \in Nat /\ rows \subseteq 1 .. top
  BY <1>1 DEF TypeInv, OutboxTypes, DeviceTypes, outbox, device
<1>3. high' \in -1 .. top /\ signalled' \in 0 .. top 
  <2>1. CASE HubPrime
    <3>1. rows # {} => Max(rows) \in 1 .. top
      BY <1>2, GreatestSequence
    <3>2. high' \in -1 .. top
      BY <1>2, <2>1, <3>1 DEF HubPrime
    <3> QED BY <2>1, <3>2 DEF HubPrime, socket, TypeInv, SocketTypes
  <2>2. CASE HubTick
    <3>1. Max(Recent) \in 1 .. top
      BY <1>2, <2>2, GreatestSequence DEF HubTick, Recent
    <3>2. /\ high' \in {high, Max(Recent)} /\ signalled' \in {signalled, Max(Recent)}
      BY <2>2 DEF HubTick
    <3> QED BY <1>2, <3>1, <3>2 DEF TypeInv, SocketTypes
  <2> QED BY <2>1, <2>2
<1>4. SocketTypes'
  BY <1>1, <1>3 DEF TypeInv, SocketTypes, outbox
<1> QED BY <1>2, <1>4 DEF TypeInv

LEMMA SocketStepTypes ==
  TypeInv /\ (Connect \/ Disconnect \/ Poll \/ List \/ Write \/ PollDue \/ Wake) => TypeInv'
<1> SUFFICES ASSUME TypeInv, Connect \/ Disconnect \/ Poll \/ List \/ Write \/ PollDue \/ Wake
             PROVE  TypeInv'
  OBVIOUS
<1>1. UNCHANGED outbox /\ UNCHANGED <<cursor, got>> /\ UNCHANGED high
  BY DEF Connect, Disconnect, Poll, List, Write, PollDue, Wake, device
<1>2. OutboxTypes' /\ top \in Nat /\ rows \subseteq 1 .. top
  BY <1>1 DEF TypeInv, OutboxTypes, outbox
<1>3. DeviceTypes'
  <2>2. drops' \in 0 .. MaxDrops
    BY BoundAssumption DEF Connect, Disconnect, Poll, List, Write, PollDue, Wake, device, TypeInv,
       DeviceTypes
  <2>3. overtaken' \subseteq 1 .. top
    <3>1. CASE List
      <4>1. \A e \in batch' : Passes(e) \subseteq open \cup rows
        BY DEF Passes
      <4>2. overtaken' = overtaken \cup UNION {Passes(e) : e \in batch'}
        BY <3>1 DEF List
      <4>3. open \cup rows \subseteq 1 .. top /\ overtaken \subseteq 1 .. top
        BY DEF TypeInv, OutboxTypes, DeviceTypes
      <4> QED BY <4>1, <4>2, <4>3
    <3>2. CASE ~List
      <4>1. overtaken' \subseteq overtaken
        BY <3>2 DEF Connect, Disconnect, Poll, Write, PollDue, Wake, device
      <4> QED BY <4>1 DEF TypeInv, DeviceTypes
    <3> QED BY <3>1, <3>2
  <2> QED BY <1>1, <2>2, <2>3 DEF TypeInv, DeviceTypes, outbox
<1>4. SocketTypes'
  <2> USE <1>1, <1>2 DEF TypeInv, SocketTypes, DeviceTypes, outbox
  <2>1. CASE Connect
    BY <2>1 DEF Connect
  <2>2. CASE Disconnect
    BY <2>2 DEF Disconnect
  <2>3. CASE Poll
    BY <2>3 DEF Poll
  <2>4. CASE List
    <3>1. batch' \subseteq 1 .. top /\ \A e \in batch' : e > after
      BY <2>4 DEF List, Fresh
    <3>2. pc' = IF batch' = {} THEN "wait" ELSE "write"
      BY <2>4 DEF List
    <3>3. UNCHANGED <<after, signalled, woken, polled, wire>>
      BY <2>4 DEF List
    <3> QED BY <3>1, <3>2, <3>3
  <2>5. CASE Write
    <3>1. PICK e \in batch :
             /\ \A f \in batch : e <= f
             /\ wire' = wire \cup {e} /\ after' = e /\ batch' = batch \ {e}
      BY <2>5 DEF Write
    <3>2. pc' = IF batch' = {} THEN "wait" ELSE "write"
      BY <2>5 DEF Write
    <3>3. UNCHANGED <<signalled, woken, polled>>
      BY <2>5 DEF Write
    <3>4. \A f \in batch' : f > after'
      <4>1. \A f \in batch : f \in 1 .. top
        OBVIOUS
      <4> QED BY <3>1, <4>1
    <3>5. batch' \subseteq 1 .. top /\ wire' \subseteq 1 .. top /\ after' \in 0 .. top
      BY <3>1
    <3>6. pc' \in {"off", "poll", "list", "write", "wait"} /\ (batch' # {} => pc' = "write")
      BY <3>2
    <3> QED BY <3>3, <3>4, <3>5, <3>6
  <2>6. CASE PollDue
    BY <2>6 DEF PollDue
  <2>7. CASE Wake
    BY <2>7 DEF Wake
  <2> QED BY <2>1, <2>2, <2>3, <2>4, <2>5, <2>6, <2>7
<1> QED BY <1>2, <1>3, <1>4 DEF TypeInv

LEMMA DeviceStepTypes == TypeInv /\ (Rejected \/ Receive) => TypeInv'
<1> SUFFICES ASSUME TypeInv, Rejected \/ Receive PROVE TypeInv'
  OBVIOUS
<1>1. UNCHANGED outbox
  BY DEF Rejected, Receive
<1>2. OutboxTypes' /\ top \in Nat /\ done \subseteq 1 .. top
  BY <1>1 DEF TypeInv, OutboxTypes, outbox
<1>3. CASE Rejected
  <2>1. SocketTypes'
    BY <1>1, <1>3 DEF Rejected, TypeInv, SocketTypes, socket, outbox
  <2>2. got' = got \cup done /\ cursor' = 0 /\ recovered' = TRUE
    BY <1>3 DEF Rejected, Recover
  <2>3. drops' \in 0 .. MaxDrops
    BY <1>3, BoundAssumption DEF Rejected, TypeInv, DeviceTypes
  <2>4. DeviceTypes'
    <3>1. top' = top /\ overtaken' = overtaken
      BY <1>1, <1>3 DEF Rejected, outbox
    <3> QED BY <1>2, <2>2, <2>3, <3>1 DEF TypeInv, DeviceTypes
  <2> QED BY <1>2, <2>1, <2>4 DEF TypeInv
<1>4. CASE Receive
  <2>1. PICK e \in wire :
           /\ wire' = wire \ {e} /\ got' = got \cup {e}
           /\ cursor' = IF e > cursor THEN e ELSE cursor
    BY <1>4 DEF Receive
  <2>2. UNCHANGED <<high, pc, after, signalled, woken, polled, batch, recovered,
                  overtaken, drops>>
    BY <1>4 DEF Receive
  <2>3. SocketTypes'
    BY <1>1, <2>1, <2>2 DEF TypeInv, SocketTypes, outbox
  <2>4. DeviceTypes'
    BY <1>1, <2>1, <2>2 DEF TypeInv, SocketTypes, DeviceTypes, outbox
  <2> QED BY <1>2, <2>3, <2>4 DEF TypeInv
<1> QED BY <1>3, <1>4

LEMMA FlagStep == FlagTypes /\ [Next]_vars => FlagTypes'
<1> SUFFICES ASSUME FlagTypes, [Next]_vars PROVE FlagTypes'
  OBVIOUS
<1>1. woken' \in BOOLEAN
  <2>1. woken' = woken \/ woken' = TRUE \/ woken' = FALSE
    BY Zenon DEF Next, Loop, vars, outbox, socket, device, Insert, Commit, Rollback, Age, Expire,
       Prune, Block, Unblock, HubPrime, HubTick, Connect, Rejected, Disconnect, Poll, List, Write,
       PollDue, Wake, Receive
  <2> QED BY Zenon, <2>1 DEF FlagTypes
<1>2. recovered' \in BOOLEAN
  <2>1. recovered' = recovered \/ recovered' = TRUE \/ recovered' = FALSE
    BY Zenon DEF Next, Loop, vars, outbox, socket, device, Insert, Commit, Rollback, Age, Expire,
       Prune, Block, Unblock, HubPrime, HubTick, Connect, Rejected, Recover, Disconnect, Poll, List,
       Write, PollDue, Wake, Receive
  <2> QED BY Zenon, <2>1 DEF FlagTypes
<1> QED BY Zenon, <1>1, <1>2 DEF FlagTypes

LEMMA TypeStep == TypeInv /\ [Next]_vars => TypeInv'
<1> SUFFICES ASSUME TypeInv, [Next]_vars PROVE TypeInv'
  OBVIOUS
<1>1. CASE \E m \in Match, k \in Kind : Insert(m, k)
  BY <1>1, InsertTypes
<1>2. CASE \E e \in Seq : Commit(e) \/ Prune(e)
  BY <1>2, CommitTypes, PruneTypes
<1>3. CASE \E m \in Match : Block(m) \/ Unblock(m)
  BY <1>3, OutboxStepTypes DEF Block, Unblock, TypeInv, OutboxTypes
<1>4. CASE \E e \in Seq : Rollback(e) \/ Age(e) \/ Expire(e)
  BY <1>4, OutboxStepTypes DEF Rollback, Age, Expire, TypeInv, OutboxTypes
<1>5. CASE UNCHANGED vars
  BY <1>5, OutboxStepTypes DEF vars, outbox, TypeInv, OutboxTypes
<1> QED
  BY <1>1, <1>2, <1>3, <1>4, <1>5, HubTypes, SocketStepTypes, DeviceStepTypes
     DEF Next, Loop

\* Every cursor, high-water mark and set of events of the stream stays within
\* the sequences that were allocated, whatever commits out of order, is lost or
\* expires, and a batch is always ahead of the cursor of its socket.
THEOREM StreamTypes == Spec => []TypeOK
<1>1. Init => FlagTypes
  BY Zenon DEF Init, FlagTypes
<1> QED BY <1>1, InitTypes, TypeStep, FlagStep, TypeInvIsEnough, PTL DEF Spec
=============================================================================
