------------------------------- MODULE Route -------------------------------
(***************************************************************************)
(* The route: one sender broadcasts fragments through a ring of RING_SIZE  *)
(* slots to at most NBits receivers.  A slot's word rc_ holds the epoch it *)
(* was stamped in and the receivers that still owe a read of it (marks).   *)
(* The module follows ChanInner::open (receiver side), send and            *)
(* push_fragment, recv and release_slot, and disconnect, with one action   *)
(* per access to shared memory that another endpoint can interleave with.  *)
(*                                                                         *)
(* Abstractions.  A fragment is the position it was pushed at.  Cursors    *)
(* are positions counted from the creation of the ring; what the code      *)
(* stores and compares is that count modulo CursorMod.  The owner records  *)
(* and the reaper are in Reaper, the sole-sender claim in SoleSender.      *)
(* wait_for is polled: sleeping and waking change no state here.           *)
(***************************************************************************)
EXTENDS Integers, TLC

CONSTANTS
    Receivers,   \* receiver endpoints; each may connect any number of times
    NBits,       \* connection bits, 32 in the code
    RING_SIZE,   \* slots of the ring, 256 in the code
    CursorMod,   \* 2^32: cursors are 32 bits wide
    MaxPos,      \* bound: fragments pushed
    MaxEpoch,    \* bound: pushes forced through
    MayDie       \* whether a sender may die in the middle of a push

ASSUME ConstantsAssumption ==
    /\ NBits \in Nat \ {0}
    /\ RING_SIZE \in Nat \ {0}
    /\ CursorMod \in Nat \ {0}
    /\ CursorMod % RING_SIZE = 0
    /\ MaxPos \in Nat
    /\ MaxEpoch \in Nat
    /\ MayDie \in BOOLEAN

Bits == 0 .. NBits - 1
Slots == 0 .. RING_SIZE - 1
Slot(pos) == pos % RING_SIZE

\* Not a whole fragment: a slot never written or being overwritten.
Torn == -1

NoWord == [ep |-> 0, marks |-> {}]

VARIABLES
    \* shared memory
    connections,   \* RingHeader.connections, as a set of bits
    write_cursor,  \* RingHeader.write_cursor
    epoch,         \* RingHeader.epoch, in units of EP_INCR
    rc,            \* ElemT.rc_ of each slot: epoch and unread marks
    data,          \* ElemT.data_ of each slot: the fragment in it
    since,         \* SlotOwner.since of each bit
    \* locals of the sender
    wpc, cc, cur_rc, rem2,
    \* locals of each receiver
    pc, conn_id, start, ep, walked, read_cursor, frag,
    \* history: receivers nothing has disturbed since they claimed their bit
    clean

shared == <<connections, write_cursor, epoch, rc, data, since>>
sender == <<wpc, cc, cur_rc, rem2>>
receiver == <<pc, conn_id, start, ep, walked, read_cursor, frag>>
vars == <<shared, sender, receiver, clean>>

Init ==
    /\ connections = {}
    /\ write_cursor = 0
    /\ epoch = 0
    /\ rc = [s \in Slots |-> NoWord]
    /\ data = [s \in Slots |-> Torn]
    /\ since = [b \in Bits |-> 0]
    /\ wpc = "idle" /\ cc = {} /\ cur_rc = NoWord /\ rem2 = {}
    /\ pc = [r \in Receivers |-> "off"]
    /\ conn_id = [r \in Receivers |-> 0]
    /\ start = [r \in Receivers |-> 0]
    /\ ep = [r \in Receivers |-> 0]
    /\ walked = [r \in Receivers |-> 0]
    /\ read_cursor = [r \in Receivers |-> 0]
    /\ frag = [r \in Receivers |-> Torn]
    /\ clean = {}

-----------------------------------------------------------------------------
\* Seeded fault: after s, strictly.
AtOrAfter_Strict(pos, s) == (pos - s) % CursorMod \in 1 .. CursorMod \div 2 - 1

\* pos is at or after s: the sign of a wrapping difference of cursors.
AtOrAfter(pos, s) == (pos - s) % CursorMod < CursorMod \div 2

SameCursor(p, q) == p % CursorMod = q % CursorMod

\* Of the marks `bits` on the element that held pos, those whose receiver
\* started at or before pos.
live_marks(bits, pos) == {b \in bits : AtOrAfter(pos, since[b])}

-----------------------------------------------------------------------------
(* The sender: send and push_fragment.                                     *)

\* Seeded fault: a lap is taken one slot too long.
prev_OffByOne == write_cursor - RING_SIZE - 1

\* The slot the next fragment goes to, and the position it held a lap ago.
Target == Slot(write_cursor)
prev == write_cursor - RING_SIZE

\* A live reader still owes a read in the current epoch, judged with the
\* connections and the slot word the sender loaded.
Busy(conns, word) ==
    /\ word.ep = epoch
    /\ live_marks(conns \cap word.marks, prev) # {}

\* Seeded fault: without receivers the push spins instead of returning.
LoadConnections_Spins ==
    /\ \/ wpc = "idle" /\ write_cursor < MaxPos
       \/ wpc = "claim"
    /\ cc' = connections
    /\ wpc' = IF connections = {} THEN "claim" ELSE "load"
    /\ UNCHANGED <<shared, cur_rc, rem2, receiver, clean>>

\* No receivers: the push returns false.
LoadConnections ==
    /\ \/ wpc = "idle" /\ write_cursor < MaxPos
       \/ wpc = "claim"
    /\ cc' = connections
    /\ wpc' = IF connections = {} THEN "idle" ELSE "load"
    /\ UNCHANGED <<shared, cur_rc, rem2, receiver, clean>>

LoadSlot ==
    /\ wpc = "load"
    /\ cur_rc' = rc[Target]
    /\ wpc' = "check"
    /\ UNCHANGED <<shared, cc, rem2, receiver, clean>>

CheckBusy ==
    /\ wpc = "check"
    /\ IF Busy(cc, cur_rc)
       THEN wpc' = "wait" /\ cur_rc' = NoWord
       ELSE wpc' = "cas" /\ UNCHANGED cur_rc
    /\ UNCHANGED <<shared, cc, rem2, receiver, clean>>

\* wait_for saw its predicate false; it re-reads the slot but not cc.
WaitDone ==
    /\ wpc = "wait"
    /\ ~Busy(cc, rc[Target])
    /\ wpc' = "claim" /\ cc' = {}
    /\ UNCHANGED <<shared, cur_rc, rem2, receiver, clean>>

\* wait_for failed with an I/O error, which ends the push; or the sender died
\* and a sender that took over from it starts afresh.
Abandon ==
    /\ wpc = "wait" \/ (MayDie /\ wpc # "idle")
    /\ wpc' = "idle" /\ cc' = {} /\ cur_rc' = NoWord /\ rem2' = {}
    /\ UNCHANGED <<shared, receiver, clean>>

\* wait_for timed out: force the push, in a new epoch.
ForcePush ==
    /\ wpc = "wait"
    /\ epoch < MaxEpoch
    /\ epoch' = epoch + 1
    /\ wpc' = "evict"
    /\ clean' = {}
    /\ UNCHANGED <<connections, write_cursor, rc, data, since,
                   cc, cur_rc, rem2, receiver>>

EvictScan ==
    /\ wpc = "evict"
    /\ rem2' = live_marks(rc[Target].marks \cap cc, prev)
    /\ wpc' = IF rem2' = {} THEN "claim" ELSE "drop"
    /\ cc' = {}
    /\ UNCHANGED <<shared, cur_rc, receiver, clean>>

EvictConnections ==
    /\ wpc = "drop"
    /\ connections' = connections \ rem2
    /\ IF connections' = {}
       THEN wpc' = "idle" /\ rem2' = {}
       ELSE wpc' = "unmark" /\ UNCHANGED rem2
    /\ clean' = {r \in clean : conn_id[r] \notin rem2}
    /\ UNCHANGED <<write_cursor, epoch, rc, data, since, cc, cur_rc, receiver>>

EvictMarks ==
    /\ wpc = "unmark"
    /\ rc' = [rc EXCEPT ![Target].marks = @ \ rem2]
    /\ wpc' = "claim" /\ rem2' = {}
    /\ UNCHANGED <<connections, write_cursor, epoch, data, since,
                   cc, cur_rc, receiver, clean>>

\* The CAS of the slot word stamps the slot for cc.  When it fails, because the
\* word changed or because a weak CAS may, the loop starts over.
ClaimSlot ==
    /\ wpc = "cas"
    /\ rc[Target] = cur_rc
    /\ rc' = [rc EXCEPT ![Target] = [ep |-> epoch, marks |-> cc]]
    /\ wpc' = "write" /\ cc' = {} /\ cur_rc' = NoWord
    /\ UNCHANGED <<connections, write_cursor, epoch, data, since,
                   rem2, receiver, clean>>

ClaimFails ==
    /\ wpc = "cas"
    /\ wpc' = "claim" /\ cc' = {} /\ cur_rc' = NoWord
    /\ UNCHANGED <<shared, rem2, receiver, clean>>

WriteMsg ==
    /\ wpc = "write"
    /\ data' = [data EXCEPT ![Target] = Torn]
    /\ wpc' = "publish"
    /\ UNCHANGED <<connections, write_cursor, epoch, rc, since,
                   cc, cur_rc, rem2, receiver, clean>>

Publish ==
    /\ wpc = "publish"
    /\ data' = [data EXCEPT ![Target] = write_cursor]
    /\ write_cursor' = write_cursor + 1
    /\ wpc' = "idle"
    /\ UNCHANGED <<connections, epoch, rc, since,
                   cc, cur_rc, rem2, receiver, clean>>

Sender ==
    \/ LoadConnections \/ LoadSlot \/ CheckBusy \/ WaitDone \/ Abandon
    \/ ForcePush \/ EvictScan \/ EvictConnections \/ EvictMarks
    \/ ClaimSlot \/ ClaimFails \/ WriteMsg \/ Publish

-----------------------------------------------------------------------------
(* A receiver: open, recv, disconnect.                                     *)

Goto(r, label) == pc' = [pc EXCEPT ![r] = label]

\* History: a receiver that was evicted still uses its bit, and what it does
\* with the bit disturbs the receiver that has claimed it since.
Undisturbed(r) == {x \in clean : x = r \/ conn_id[x] # conn_id[r]}

\* Read the cursor before claiming a bit.
ReadSince(r) ==
    /\ pc[r] = "off"
    /\ start' = [start EXCEPT ![r] = write_cursor]
    /\ Goto(r, "connect")
    /\ UNCHANGED <<shared, sender, conn_id, ep, walked, read_cursor, frag, clean>>

\* Claim the lowest clear bit; "too many receivers" when there is none.
ClaimBit(r) ==
    /\ pc[r] = "connect"
    /\ IF connections = Bits
       THEN /\ Goto(r, "off")
            /\ start' = [start EXCEPT ![r] = 0]
            /\ UNCHANGED <<connections, conn_id, clean>>
       ELSE \E b \in Bits \ connections :
               /\ \A x \in Bits \ connections : b <= x
               /\ connections' = connections \cup {b}
               /\ conn_id' = [conn_id EXCEPT ![r] = b]
               /\ clean' = clean \cup {r}
               /\ Goto(r, "since")
               /\ UNCHANGED start
    /\ UNCHANGED <<write_cursor, epoch, rc, data, since, sender,
                   ep, walked, read_cursor, frag>>

set_since(r) ==
    /\ pc[r] = "since"
    /\ since' = [since EXCEPT ![conn_id[r]] = start[r]]
    /\ clean' = Undisturbed(r)
    /\ Goto(r, "epoch")
    /\ UNCHANGED <<connections, write_cursor, epoch, rc, data, sender,
                   conn_id, start, ep, walked, read_cursor, frag>>

\* adopt_cursor: load the epoch, then the cursor, then walk back over the
\* elements that carry this receiver's mark in that epoch.
AdoptEpoch(r) ==
    /\ pc[r] = "epoch"
    /\ ep' = [ep EXCEPT ![r] = epoch]
    /\ Goto(r, "cursor")
    /\ UNCHANGED <<shared, sender, conn_id, start, walked, read_cursor, frag, clean>>

\* History: a push is in flight that does not mark its slot for r.
BlindPush(r) ==
    \/ wpc \in {"load", "check", "cas"} /\ conn_id[r] \notin cc
    \/ wpc \in {"write", "publish"} /\ conn_id[r] \notin rc[Target].marks

AdoptCursor(r) ==
    /\ pc[r] = "cursor"
    /\ read_cursor' = [read_cursor EXCEPT ![r] = write_cursor]
    /\ clean' = IF BlindPush(r) THEN clean \ {r} ELSE clean
    /\ Goto(r, "walk")
    /\ UNCHANGED <<shared, sender, conn_id, start, ep, walked, frag>>

\* Seeded fault: the walk back does not stop at `start`.
Addressed_PastStart(r) ==
    LET word == rc[Slot(read_cursor[r] - 1)]
    IN  /\ walked[r] < RING_SIZE
        /\ conn_id[r] \in word.marks
        /\ word.ep = ep[r]

\* The element before r's cursor was pushed since `start` and is marked for r.
Addressed(r) ==
    LET word == rc[Slot(read_cursor[r] - 1)]
    IN  /\ walked[r] < RING_SIZE
        /\ ~SameCursor(read_cursor[r], start[r])
        /\ conn_id[r] \in word.marks
        /\ word.ep = ep[r]

\* History: the sender came round to r's start while r was connecting.
Lapped(r) == write_cursor >= start[r] + RING_SIZE

AdoptWalk(r) ==
    /\ pc[r] = "walk"
    /\ IF Addressed(r)
       THEN /\ read_cursor' = [read_cursor EXCEPT ![r] = @ - 1]
            /\ walked' = [walked EXCEPT ![r] = @ + 1]
            /\ UNCHANGED <<pc, start, ep, clean>>
       ELSE /\ Goto(r, "idle")
            /\ start' = [start EXCEPT ![r] = 0]
            /\ ep' = [ep EXCEPT ![r] = 0]
            /\ walked' = [walked EXCEPT ![r] = 0]
            /\ clean' = IF Lapped(r) THEN clean \ {r} ELSE clean
            /\ UNCHANGED read_cursor
    /\ UNCHANGED <<shared, sender, conn_id, frag>>

\* Seeded fault: the slot is released before the fragment is copied out.
ReadBegin_ReleasesFirst(r) ==
    /\ pc[r] = "idle"
    /\ ~SameCursor(write_cursor, read_cursor[r])
    /\ frag' = [frag EXCEPT ![r] = data[Slot(read_cursor[r])]]
    /\ rc' = [rc EXCEPT ![Slot(read_cursor[r])].marks = @ \ {conn_id[r]}]
    /\ Goto(r, "copy")
    /\ UNCHANGED <<connections, write_cursor, epoch, data, since, sender,
                   conn_id, start, ep, walked, read_cursor, clean>>

\* recv copies the fragment out of the slot, then releases the slot.  A copy
\* during which the sender overwrites the slot is torn.
ReadBegin(r) ==
    /\ pc[r] = "idle"
    /\ ~SameCursor(write_cursor, read_cursor[r])
    /\ frag' = [frag EXCEPT ![r] = data[Slot(read_cursor[r])]]
    /\ Goto(r, "copy")
    /\ UNCHANGED <<shared, sender, conn_id, start, ep, walked, read_cursor, clean>>

ReadEnd(r) ==
    /\ pc[r] = "copy"
    /\ frag' = [frag EXCEPT ![r] =
                  IF data[Slot(read_cursor[r])] = @ THEN @ ELSE Torn]
    /\ Goto(r, "release")
    /\ UNCHANGED <<shared, sender, conn_id, start, ep, walked, read_cursor, clean>>

release_slot(r) ==
    /\ pc[r] = "release"
    /\ rc' = [rc EXCEPT ![Slot(read_cursor[r])].marks = @ \ {conn_id[r]}]
    /\ read_cursor' = [read_cursor EXCEPT ![r] = @ + 1]
    /\ frag' = [frag EXCEPT ![r] = Torn]
    /\ clean' = Undisturbed(r)
    /\ Goto(r, "idle")
    /\ UNCHANGED <<connections, write_cursor, epoch, data, since, sender,
                   conn_id, start, ep, walked>>

\* The bit is given back and the endpoint is gone.
Leave(r) ==
    /\ connections' = connections \ {conn_id[r]}
    /\ clean' = Undisturbed(r) \ {r}
    /\ conn_id' = [conn_id EXCEPT ![r] = 0]
    /\ read_cursor' = [read_cursor EXCEPT ![r] = 0]
    /\ frag' = [frag EXCEPT ![r] = Torn]
    /\ Goto(r, "off")
    /\ UNCHANGED <<write_cursor, epoch, rc, data, since, sender,
                   start, ep, walked>>

disconnect(r) ==
    /\ pc[r] = "idle"
    /\ Leave(r)

\* r died after recording its ownership, and a connecting receiver reaps it.
reap_dead_receiver(r) ==
    /\ MayDie
    /\ pc[r] \in {"copy", "release"}
    /\ Leave(r)

Receiver(r) ==
    \/ ReadSince(r) \/ ClaimBit(r) \/ set_since(r)
    \/ AdoptEpoch(r) \/ AdoptCursor(r) \/ AdoptWalk(r)
    \/ ReadBegin(r) \/ ReadEnd(r) \/ release_slot(r)
    \/ disconnect(r) \/ reap_dead_receiver(r)

Next == Sender \/ \E r \in Receivers : Receiver(r)

Spec == Init /\ [][Next]_vars

-----------------------------------------------------------------------------
SenderLabels ==
    {"idle", "claim", "load", "check", "wait", "evict", "drop", "unmark",
     "cas", "write", "publish"}
ReceiverLabels ==
    {"off", "connect", "since", "epoch", "cursor", "walk", "idle", "copy",
     "release"}
Reading == {"idle", "copy", "release"}

Words == [ep : Nat, marks : SUBSET Bits]

\* Every variable has its type.
TypeOK ==
    /\ connections \in SUBSET Bits
    /\ write_cursor \in Nat
    /\ epoch \in Nat
    /\ rc \in [Slots -> Words]
    /\ data \in [Slots -> Nat \cup {Torn}]
    /\ since \in [Bits -> Nat]
    /\ wpc \in SenderLabels
    /\ cc \in SUBSET Bits
    /\ cur_rc \in Words
    /\ rem2 \in SUBSET Bits
    /\ pc \in [Receivers -> ReceiverLabels]
    /\ conn_id \in [Receivers -> Bits]
    /\ start \in [Receivers -> Nat]
    /\ ep \in [Receivers -> Nat]
    /\ walked \in [Receivers -> 0 .. RING_SIZE]
    /\ read_cursor \in [Receivers -> Nat]
    /\ frag \in [Receivers -> Nat \cup {Torn}]
    /\ clean \in SUBSET Receivers

-----------------------------------------------------------------------------
(* Safety, for the receivers in `clean`: those that claimed their bit after *)
(* the last forced push, finished connecting within a lap and while no push *)
(* was in flight that had not seen them, and whose bit no evicted receiver  *)
(* has used.                                                                *)

\* No element is overwritten before such a receiver has read it: each of its
\* unread positions still holds its fragment and, in the current epoch, the
\* receiver's mark, so that push_fragment will wait for it.
UnreadKept ==
    \A r \in clean : pc[r] \in Reading =>
        \A p \in read_cursor[r] .. write_cursor - 1 :
            /\ data[Slot(p)] = p
            /\ rc[Slot(p)].ep = epoch
            /\ conn_id[r] \in rc[Slot(p)].marks

\* What recv hands out at a position is the fragment pushed there, never a
\* torn one or one of another lap.
IntactDelivery ==
    \A r \in clean : pc[r] = "release" => frag[r] = read_cursor[r]

\* Together: for such receivers the ring is the broadcast queue of Broadcast.
Attached == {r \in clean : pc[r] \in Reading}

NextOf == [r \in Receivers |-> IF r \in Attached THEN read_cursor[r] ELSE 0]
HandOf == [r \in Receivers |->
             IF r \in Attached /\ pc[r] = "release" THEN frag[r] ELSE Torn]

Queue == INSTANCE Broadcast WITH
    Capacity <- RING_SIZE, pushed <- write_cursor, attached <- Attached,
    next <- NextOf, hand <- HandOf

\* Every step of the ring is a step of the queue or changes nothing in it.
ImplementsQueue == Queue!Spec

-----------------------------------------------------------------------------
(* Liveness.  The sender runs (weak fairness) and a wait for room ends,     *)
(* because every send has a timeout; receivers owe nothing.                 *)

SenderRuns ==
    \/ LoadConnections \/ LoadSlot \/ CheckBusy \/ WaitDone
    \/ ForcePush \/ EvictScan \/ EvictConnections \/ EvictMarks
    \/ ClaimSlot \/ ClaimFails \/ WriteMsg \/ Publish

FairSpec ==
    /\ Spec
    /\ WF_vars(wpc # "idle" /\ SenderRuns)
    /\ SF_vars(ClaimSlot)

\* A send returns whatever the receivers do: one that never reads is evicted.
SendReturns == (wpc # "idle") ~> (wpc = "idle")

-----------------------------------------------------------------------------
(* For TLC, and what the documents say of a route that its code does not   *)
(* keep.                                                                   *)

\* Receivers are interchangeable: no action or invariant tells them apart.
Symmetry == Permutations(Receivers)

\* "Every reader receives every message": what recv hands a receiver at its
\* position is the fragment pushed there.  A push that loaded `connections`
\* before a receiver claimed its bit is published after adopt_cursor has
\* loaded the cursor, so the receiver starts at a slot that is not marked for
\* it, and a lap later the sender overwrites that slot under the reader.
EveryMessageIntact ==
    \A r \in Receivers : pc[r] = "release" => frag[r] = read_cursor[r]
=============================================================================
