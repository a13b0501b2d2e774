----------------------------- MODULE RouteProof -----------------------------
(***************************************************************************)
(* The inductive invariant of Route, facts about slots and wrapping        *)
(* cursors, and the proofs that every step of the sender and of the        *)
(* receivers keeps it, so TypeOK, UnreadKept and IntactDelivery are        *)
(* invariants for every number of receivers, bits and slots.  The last two *)
(* need NoWrap: fewer than half of CursorMod fragments are pushed.  Leaves *)
(* without arithmetic go to Zenon.  At the end the service registry, for   *)
(* every number of names, processes and slots.                             *)
(***************************************************************************)
EXTENDS Route, Registry, TLAPS

NoWrap == 2 * MaxPos + 1 < CursorMod

-----------------------------------------------------------------------------
(* The inductive invariant.                                                *)

\* Positions below Stamped have been stamped for the receivers that get them.
Stamped == IF wpc \in {"write", "publish"} THEN write_cursor + 1 ELSE write_cursor

Linked == {"since", "epoch", "cursor", "walk"} \cup Reading

Marked(r, p) ==
    /\ rc[Slot(p)].ep = epoch
    /\ conn_id[r] \in rc[Slot(p)].marks

\* Cursors: the bound on pushes, and a walk stays between start and cursor.
CursorInv ==
    /\ write_cursor <= MaxPos
    /\ wpc # "idle" => write_cursor < MaxPos
    /\ \A r \in Receivers :
          /\ pc[r] \in {"connect", "since", "epoch", "cursor", "walk"}
                => start[r] <= write_cursor
          /\ pc[r] = "walk" => /\ start[r] <= read_cursor[r]
                               /\ read_cursor[r] <= write_cursor

\* The slots hold the last lap, and a slot being written has its stamp.
RingInv ==
    /\ \A p \in 0 .. write_cursor - 1 :
          write_cursor - p < RING_SIZE => data[Slot(p)] = p
    /\ wpc \in {"write", "publish"} => rc[Target].ep = epoch

\* An undisturbed receiver owns its bit, and its `since` is its own.
BitInv(r) ==
    /\ pc[r] \in Linked
    /\ conn_id[r] \in connections
    /\ \A x \in clean : x # r => conn_id[x] # conn_id[r]
    /\ pc[r] \in {"epoch", "cursor", "walk"} => since[conn_id[r]] = start[r]
    /\ pc[r] \in Reading => since[conn_id[r]] <= read_cursor[r]
    /\ pc[r] \in {"cursor", "walk"} => ep[r] = epoch

\* The push in flight has seen it, and does not go ahead over its mark.
PushInv(r) ==
    /\ pc[r] \in {"walk"} \cup Reading /\ wpc \in {"load", "check", "cas"}
          => conn_id[r] \in cc
    /\ pc[r] \in Reading /\ wpc = "cas" /\ write_cursor - read_cursor[r] = RING_SIZE
          => ~(cur_rc.ep = epoch /\ conn_id[r] \in cur_rc.marks)
    /\ pc[r] \in Reading /\ wpc = "unmark" /\ conn_id[r] \in rem2
          => write_cursor - read_cursor[r] < RING_SIZE

\* Everything it has still to read is marked for it and, if published, there.
UnreadInv(r) ==
    /\ pc[r] = "walk" /\ write_cursor < start[r] + RING_SIZE
          => \A p \in read_cursor[r] .. Stamped - 1 : Marked(r, p)
    /\ pc[r] \in Reading =>
          /\ read_cursor[r] <= write_cursor
          /\ Stamped - read_cursor[r] <= RING_SIZE
          /\ \A p \in read_cursor[r] .. Stamped - 1 : Marked(r, p)
          /\ \A p \in read_cursor[r] .. write_cursor - 1 : data[Slot(p)] = p
    /\ pc[r] \in {"copy", "release"} =>
          /\ read_cursor[r] < write_cursor
          /\ frag[r] = read_cursor[r]

CleanInv == \A r \in clean : BitInv(r) /\ PushInv(r) /\ UnreadInv(r)

IInv == TypeOK /\ CursorInv /\ RingInv /\ CleanInv

-----------------------------------------------------------------------------
(* Positions, slots and wrapping cursors.                                  *)

\* A remainder lies below the divisor.
LEMMA ModRange == \A n \in Nat \ {0}, a \in Int : a % n \in 0 .. n - 1
  OBVIOUS

\* A small number is its own remainder.
LEMMA ModSmall == \A n \in Nat \ {0}, a \in Nat : a < n => a % n = a
  OBVIOUS

\* Division with remainder.
LEMMA DivMod == \A n \in Nat \ {0}, a \in Int :
                   a \div n \in Int /\ a = (n * (a \div n)) + (a % n)
  OBVIOUS

\* Multiples of n are at least n apart.
LEMMA MultiplesApart == \A n \in Nat \ {0}, i, j \in Int :
                           i < j => n * i + n <= n * j
  OBVIOUS

\* A position is kept in one of the ring's slots.
LEMMA SlotType == \A p \in Int : Slot(p) \in Slots
  BY ModRange, ConstantsAssumption, Zenon DEF Slot, Slots

\* Two positions less than a lap apart are kept in different slots.
LEMMA SlotDistinct ==
  ASSUME NEW p \in Int, NEW q \in Int, p < q, q - p < RING_SIZE
  PROVE  Slot(p) # Slot(q)
<1> DEFINE i == p \div RING_SIZE
           j == q \div RING_SIZE
<1>1. /\ i \in Int /\ p = (RING_SIZE * i) + (p % RING_SIZE)
      /\ j \in Int /\ q = (RING_SIZE * j) + (q % RING_SIZE)
  BY DivMod, ConstantsAssumption, Zenon
<1>2. p % RING_SIZE \in Int /\ q % RING_SIZE \in Int
  BY ModRange, ConstantsAssumption
<1>3. ASSUME p % RING_SIZE = q % RING_SIZE PROVE FALSE
  <2>1. RING_SIZE * i \in Int /\ RING_SIZE * j \in Int
    BY <1>1, ConstantsAssumption
  <2>2. RING_SIZE * i < RING_SIZE * j /\ RING_SIZE * j < RING_SIZE * i + RING_SIZE
    BY <1>1, <1>2, <1>3, <2>1, ConstantsAssumption
  <2> HIDE DEF i, j
  <2>3. i < j => RING_SIZE * i + RING_SIZE <= RING_SIZE * j
    BY <1>1, MultiplesApart, ConstantsAssumption, Zenon
  <2>4. j < i => RING_SIZE * j + RING_SIZE <= RING_SIZE * i
    BY <1>1, MultiplesApart, ConstantsAssumption, Zenon
  <2> QED BY <1>1, <2>1, <2>2, <2>3, <2>4, ConstantsAssumption
<1> QED BY Zenon, <1>3 DEF Slot

\* Two positions exactly a lap apart share a slot.
LEMMA SlotLap ==
  ASSUME NEW p \in Int
  PROVE  Slot(p + RING_SIZE) = Slot(p)
<1> DEFINE q == p + RING_SIZE
           i == p \div RING_SIZE
           j == q \div RING_SIZE
           a == p % RING_SIZE
           b == q % RING_SIZE
<1>1. /\ i \in Int /\ p = (RING_SIZE * i) + a
      /\ j \in Int /\ q = (RING_SIZE * j) + b
  BY DivMod, ConstantsAssumption
<1>2. a \in 0 .. RING_SIZE - 1 /\ b \in 0 .. RING_SIZE - 1
  BY ModRange, ConstantsAssumption
<1>3. RING_SIZE * (i + 1) = RING_SIZE * i + RING_SIZE /\ RING_SIZE * i \in Int
      /\ RING_SIZE * j \in Int
  BY <1>1, ConstantsAssumption
<1>4. (RING_SIZE * (i + 1)) + a = (RING_SIZE * j) + b
  BY <1>1, <1>2, <1>3, ConstantsAssumption
<1> HIDE DEF i, j, a, b
<1>5. i + 1 < j => RING_SIZE * (i + 1) + RING_SIZE <= RING_SIZE * j
  BY <1>1, MultiplesApart, ConstantsAssumption
<1>6. j < i + 1 => RING_SIZE * j + RING_SIZE <= RING_SIZE * (i + 1)
  BY <1>1, MultiplesApart, ConstantsAssumption
<1>7. a = b
  BY <1>1, <1>2, <1>3, <1>4, <1>5, <1>6, ConstantsAssumption
<1> QED BY Zenon, <1>7 DEF Slot, a, b

\* Until cursors wrap, the signed comparison of live_marks is the plain one.
LEMMA AtOrAfterNoWrap ==
  ASSUME NoWrap, NEW p \in Nat, NEW s \in Nat, s <= p, p <= MaxPos
  PROVE  AtOrAfter(p, s)
<1>1. p - s \in Nat /\ 2 * (p - s) + 1 < CursorMod
  BY ConstantsAssumption DEF NoWrap
<1>2. (p - s) % CursorMod = p - s
  BY <1>1, ModSmall, ConstantsAssumption
<1>3. \A n \in Nat \ {0}, a \in Nat : 2 * a + 1 < n => a < n \div 2
  OBVIOUS
<1> QED BY Zenon, <1>1, <1>2, <1>3, ConstantsAssumption DEF AtOrAfter

-----------------------------------------------------------------------------
(* Type correctness.                                                       *)

\* A ring just created (init_header) has the types and cursors in range.
LEMMA TypeInit == Init => TypeOK /\ CursorInv
<1> SUFFICES ASSUME Init PROVE TypeOK /\ CursorInv
  BY Zenon
<1>1. NoWord \in Words
  BY Zenon DEF NoWord, Words
<1>2. 0 \in Bits /\ {} \in SUBSET Bits
  BY ConstantsAssumption DEF Bits
<1>3. TypeOK
  BY <1>1, <1>2, ConstantsAssumption
     DEF Init, TypeOK, Torn, SenderLabels, ReceiverLabels
<1>4. CursorInv
  BY ConstantsAssumption DEF Init, CursorInv
<1> QED BY Zenon, <1>3, <1>4

\* A step keeps the types, and keeps every cursor in its range.
LEMMA TypeStep == TypeOK /\ CursorInv /\ [Next]_vars => TypeOK' /\ CursorInv'
<1> SUFFICES ASSUME TypeOK, CursorInv, [Next]_vars PROVE TypeOK' /\ CursorInv'
  BY Zenon
<1> USE ConstantsAssumption
<1> USE DEF shared, sender, receiver
<1>w. NoWord \in Words /\ Slot(write_cursor) \in Slots
  BY SlotType DEF NoWord, Words, TypeOK
<1>t. rc[Target] \in Words /\ \A m \in SUBSET Bits : [ep |-> epoch, marks |-> m] \in Words
  BY <1>w, Zenon DEF TypeOK, Target, Words
<1>1. CASE LoadConnections
  <2>1. TypeOK'
    BY <1>1, <1>w, <1>t, Zenon DEF LoadConnections, TypeOK, SenderLabels
  <2>2. CursorInv'
    BY <1>1, Zenon DEF LoadConnections, CursorInv, TypeOK
  <2> QED BY Zenon, <2>1, <2>2
<1>2. CASE LoadSlot
  <2>1. TypeOK'
    BY <1>2, <1>w, <1>t, Zenon DEF LoadSlot, TypeOK, SenderLabels
  <2>2. CursorInv'
    BY <1>2, Zenon DEF LoadSlot, CursorInv, TypeOK
  <2> QED BY Zenon, <2>1, <2>2
<1>3. CASE CheckBusy
  <2>1. TypeOK'
    BY <1>3, <1>w, <1>t, Zenon DEF CheckBusy, TypeOK, SenderLabels, Busy
  <2>2. CursorInv'
    BY <1>3, Zenon DEF CheckBusy, CursorInv, TypeOK
  <2> QED BY Zenon, <2>1, <2>2
<1>4. CASE WaitDone
  <2>1. TypeOK'
    BY <1>4, <1>w, <1>t, Zenon DEF WaitDone, TypeOK, SenderLabels
  <2>2. CursorInv'
    BY <1>4, Zenon DEF WaitDone, CursorInv, TypeOK
  <2> QED BY Zenon, <2>1, <2>2
<1>5. CASE Abandon
  <2>1. TypeOK'
    BY <1>5, <1>w, <1>t, Zenon DEF Abandon, TypeOK, SenderLabels
  <2>2. CursorInv'
    BY <1>5, Zenon DEF Abandon, CursorInv, TypeOK
  <2> QED BY Zenon, <2>1, <2>2
<1>6. CASE ForcePush
  <2>1. TypeOK'
    BY <1>6, <1>w, <1>t DEF ForcePush, TypeOK, SenderLabels
  <2>2. CursorInv'
    BY <1>6, Zenon DEF ForcePush, CursorInv, TypeOK
  <2> QED BY Zenon, <2>1, <2>2
<1>7. CASE EvictScan
  <2>1. TypeOK'
    BY <1>7, <1>w, <1>t, Zenon DEF EvictScan, TypeOK, SenderLabels, live_marks, Target
  <2>2. CursorInv'
    BY <1>7, Zenon DEF EvictScan, CursorInv, TypeOK
  <2> QED BY Zenon, <2>1, <2>2
<1>8. CASE EvictConnections
  <2>1. TypeOK'
    BY <1>8, <1>w, <1>t, Zenon DEF EvictConnections, TypeOK, SenderLabels
  <2>2. CursorInv'
    BY <1>8, Zenon DEF EvictConnections, CursorInv, TypeOK
  <2> QED BY Zenon, <2>1, <2>2
<1>9. CASE EvictMarks
  <2>1. TypeOK'
    BY <1>9, <1>w, <1>t, Zenon DEF EvictMarks, TypeOK, SenderLabels, Target, Words
  <2>2. CursorInv'
    BY <1>9, Zenon DEF EvictMarks, CursorInv, TypeOK
  <2> QED BY Zenon, <2>1, <2>2
<1>10. CASE ClaimSlot
  <2>1. TypeOK'
    BY <1>10, <1>w, <1>t, Zenon DEF ClaimSlot, TypeOK, SenderLabels, Target
  <2>2. CursorInv'
    BY <1>10, Zenon DEF ClaimSlot, CursorInv, TypeOK
  <2> QED BY Zenon, <2>1, <2>2
<1>11. CASE ClaimFails
  <2>1. TypeOK'
    BY <1>11, <1>w, <1>t, Zenon DEF ClaimFails, TypeOK, SenderLabels
  <2>2. CursorInv'
    BY <1>11, Zenon DEF ClaimFails, CursorInv, TypeOK
  <2> QED BY Zenon, <2>1, <2>2
<1>12. CASE WriteMsg
  <2>1. TypeOK'
    BY <1>12, <1>w, <1>t, Zenon DEF WriteMsg, TypeOK, SenderLabels, Target, Torn
  <2>2. CursorInv'
    BY <1>12, Zenon DEF WriteMsg, CursorInv, TypeOK
  <2> QED BY Zenon, <2>1, <2>2
<1>13. CASE Publish
  <2>1. TypeOK'
    BY <1>13, <1>w, <1>t DEF Publish, TypeOK, SenderLabels, Target
  <2>2. CursorInv'
    BY <1>13 DEF Publish, CursorInv, TypeOK
  <2> QED BY Zenon, <2>1, <2>2
<1>20. ASSUME NEW r \in Receivers, Receiver(r) PROVE TypeOK' /\ CursorInv'
  <2> USE DEF Goto
  <2>s. \A p \in Int : Slot(p) \in Slots
    BY SlotType, Zenon
  <2>l. Leave(r) => TypeOK'
    <3> SUFFICES ASSUME Leave(r) PROVE TypeOK'
      BY Zenon
    <3>1. 0 \in Bits
      BY DEF Bits
    <3>4. connections' \in SUBSET Bits
      BY Zenon DEF Leave, TypeOK
    <3>5. conn_id' \in [Receivers -> Bits]
      BY <3>1, Zenon DEF Leave, TypeOK
    <3>2. clean' \in SUBSET Receivers
      BY Zenon DEF Leave, Undisturbed, TypeOK
    <3>3. frag' \in [Receivers -> Nat \cup {Torn}] /\ read_cursor' \in [Receivers -> Nat]
      BY Zenon DEF Leave, TypeOK
    <3> QED BY Zenon, <3>2, <3>3, <3>4, <3>5 DEF Leave, TypeOK, ReceiverLabels
  <2>1. CASE ReadSince(r)
    <3>1. TypeOK'
      BY <2>1, <2>s, Zenon DEF ReadSince, TypeOK, CursorInv, ReceiverLabels
    <3>2. CursorInv'
      BY <2>1 DEF ReadSince, CursorInv, TypeOK
    <3> QED BY Zenon, <3>1, <3>2
  <2>2. CASE ClaimBit(r)
    <3>1. TypeOK'
      BY <2>2, <2>s DEF ClaimBit, TypeOK, CursorInv, ReceiverLabels
    <3>2. CursorInv'
      BY <2>2 DEF ClaimBit, CursorInv, TypeOK
    <3> QED BY Zenon, <3>1, <3>2
  <2>3. CASE set_since(r)
    <3>1. TypeOK'
      BY <2>3, <2>s, Zenon DEF set_since, TypeOK, CursorInv, ReceiverLabels, Undisturbed
    <3>2. CursorInv'
      BY <2>3, Zenon DEF set_since, CursorInv, TypeOK
    <3> QED BY Zenon, <3>1, <3>2
  <2>4. CASE AdoptEpoch(r)
    <3>1. TypeOK'
      BY <2>4, <2>s, Zenon DEF AdoptEpoch, TypeOK, CursorInv, ReceiverLabels
    <3>2. CursorInv'
      BY <2>4, Zenon DEF AdoptEpoch, CursorInv, TypeOK
    <3> QED BY Zenon, <3>1, <3>2
  <2>5. CASE AdoptCursor(r)
    <3>1. TypeOK'
      BY <2>5, <2>s, Zenon DEF AdoptCursor, TypeOK, CursorInv, ReceiverLabels
    <3>2. CursorInv'
      BY <2>5 DEF AdoptCursor, CursorInv, TypeOK
    <3> QED BY Zenon, <3>1, <3>2
  <2>6. CASE AdoptWalk(r)
    <3>1. TypeOK'
      <4>1. Addressed(r) => /\ read_cursor[r] - 1 \in Nat
                            /\ walked[r] + 1 \in 0 .. RING_SIZE
        BY <2>6 DEF AdoptWalk, TypeOK, CursorInv, Addressed, SameCursor
      <4>2. CASE Addressed(r)
        BY <2>6, <4>1, <4>2 DEF AdoptWalk, TypeOK
      <4>3. CASE ~Addressed(r)
        BY <2>6, <4>3 DEF AdoptWalk, TypeOK, ReceiverLabels
      <4> QED BY Zenon, <4>2, <4>3
    <3>2. CursorInv'
      BY <2>6 DEF AdoptWalk, CursorInv, TypeOK, Addressed, SameCursor
    <3> QED BY Zenon, <3>1, <3>2
  <2>7. CASE ReadBegin(r)
    <3>1. TypeOK'
      BY <2>7, <2>s DEF ReadBegin, TypeOK, CursorInv, ReceiverLabels
    <3>2. CursorInv'
      BY <2>7, Zenon DEF ReadBegin, CursorInv, TypeOK
    <3> QED BY Zenon, <3>1, <3>2
  <2>8. CASE ReadEnd(r)
    <3>1. TypeOK'
      BY <2>8, <2>s, Zenon DEF ReadEnd, TypeOK, CursorInv, ReceiverLabels, Torn
    <3>2. CursorInv'
      BY <2>8, Zenon DEF ReadEnd, CursorInv, TypeOK
    <3> QED BY Zenon, <3>1, <3>2
  <2>9. CASE release_slot(r)
    <3>1. TypeOK'
      <4>1. Slot(read_cursor[r]) \in Slots
        BY <2>s DEF TypeOK
      <4>2. rc' \in [Slots -> Words]
        BY <2>9, <4>1, Zenon DEF release_slot, TypeOK, Words
      <4>3. clean' \in SUBSET Receivers
        BY <2>9, Zenon DEF release_slot, Undisturbed, TypeOK
      <4>4. frag' \in [Receivers -> Nat \cup {Torn}] /\ read_cursor' \in [Receivers -> Nat]
        BY <2>9 DEF release_slot, TypeOK
      <4> QED BY Zenon, <2>9, <4>2, <4>3, <4>4 DEF release_slot, TypeOK, ReceiverLabels
    <3>2. CursorInv'
      BY <2>9, Zenon DEF release_slot, CursorInv, TypeOK
    <3> QED BY Zenon, <3>1, <3>2
  <2>10. CASE disconnect(r)
    <3>1. TypeOK'
      BY <2>10, <2>l, Zenon DEF disconnect
    <3>2. CursorInv'
      BY <2>10, Zenon DEF disconnect, CursorInv, TypeOK, Leave
    <3> QED BY Zenon, <3>1, <3>2
  <2>11. CASE reap_dead_receiver(r)
    <3>1. TypeOK'
      BY <2>11, <2>l, Zenon DEF reap_dead_receiver
    <3>2. CursorInv'
      BY <2>11, Zenon DEF reap_dead_receiver, CursorInv, TypeOK, Leave
    <3> QED BY Zenon, <3>1, <3>2
  <2> QED BY Zenon, <1>20, <2>1, <2>2, <2>3, <2>4, <2>5, <2>6, <2>7, <2>8, <2>9, <2>10, <2>11 DEF Receiver
<1>21. CASE UNCHANGED vars
  BY <1>21, Zenon DEF vars, TypeOK, CursorInv
<1> QED BY Zenon, <1>1, <1>2, <1>3, <1>4, <1>5, <1>6, <1>7, <1>8, <1>9, <1>10, <1>11, <1>12, <1>13, <1>20, <1>21 DEF Next, Sender

\* Every variable of the route keeps its type, whatever the interleaving of the
\* sender's and the receivers' accesses to the ring.
THEOREM TypeCorrect == Spec => []TypeOK
<1>1. Init => TypeOK /\ CursorInv
  BY TypeInit, Zenon
<1>2. TypeOK /\ CursorInv /\ [Next]_vars => (TypeOK /\ CursorInv)'
  BY TypeStep, Zenon
<1> QED BY <1>1, <1>2, PTL DEF Spec

-----------------------------------------------------------------------------
(* The slots hold the last lap.                                            *)

\* A step keeps the last lap in the slots: write_msg overwrites only Target.
LEMMA RingStep == TypeOK /\ CursorInv /\ RingInv /\ Next => RingInv'
<1> SUFFICES ASSUME TypeOK, CursorInv, RingInv, Next PROVE RingInv'
  BY Zenon
<1> USE ConstantsAssumption
<1> USE DEF shared, sender, receiver
<1>t. write_cursor \in Nat /\ Target \in Slots
  BY SlotType DEF TypeOK, Target
<1>d. \A p \in 0 .. write_cursor - 1 : write_cursor - p < RING_SIZE => Slot(p) # Target
  BY <1>t, SlotDistinct DEF Target
<1>s. \A p \in Int : Slot(p) \in Slots
  BY SlotType, Zenon
<1>1. CASE LoadConnections
  BY <1>1, <1>t, Zenon DEF LoadConnections, RingInv, Target, TypeOK
<1>2. CASE LoadSlot
  BY <1>2, <1>t, Zenon DEF LoadSlot, RingInv, Target, TypeOK
<1>3. CASE CheckBusy
  BY <1>3, <1>t, Zenon DEF CheckBusy, RingInv, Target, TypeOK
<1>4. CASE WaitDone
  BY <1>4, <1>t, Zenon DEF WaitDone, RingInv, Target, TypeOK
<1>5. CASE Abandon
  BY <1>5, <1>t, Zenon DEF Abandon, RingInv, Target, TypeOK
<1>6. CASE ForcePush
  BY <1>6, <1>t, Zenon DEF ForcePush, RingInv, Target, TypeOK
<1>7. CASE EvictScan
  BY <1>7, <1>t, Zenon DEF EvictScan, RingInv, Target, TypeOK
<1>8. CASE EvictConnections
  BY <1>8, <1>t, Zenon DEF EvictConnections, RingInv, Target, TypeOK
<1>9. CASE EvictMarks
  BY <1>9, <1>t, Zenon DEF EvictMarks, RingInv, Target, TypeOK
<1>10. CASE ClaimSlot
  BY <1>10, <1>t, Zenon DEF ClaimSlot, RingInv, Target, TypeOK
<1>11. CASE ClaimFails
  BY <1>11, <1>t, Zenon DEF ClaimFails, RingInv, Target, TypeOK
<1>12. CASE WriteMsg
  BY <1>12, <1>t, <1>d, <1>s DEF WriteMsg, RingInv, TypeOK, Target
<1>13. CASE Publish
  <2>1. write_cursor' = write_cursor + 1 /\ wpc' = "idle"
        /\ data' = [data EXCEPT ![Target] = write_cursor]
    BY <1>13, Zenon DEF Publish
  <2>2. ASSUME NEW p \in 0 .. write_cursor' - 1, write_cursor' - p < RING_SIZE
        PROVE  data'[Slot(p)] = p
    <3>1. CASE p = write_cursor
      BY <2>1, <3>1, <1>t, Zenon DEF Target, TypeOK
    <3>2. CASE p # write_cursor
      <4>1. p \in 0 .. write_cursor - 1 /\ write_cursor - p < RING_SIZE
        BY <2>1, <2>2, <3>2, <1>t
      <4> QED BY <4>1, <2>1, <1>d, <1>s DEF RingInv, TypeOK
    <3> QED BY Zenon, <3>1, <3>2
  <2> QED BY Zenon, <2>1, <2>2 DEF RingInv
<1>20. ASSUME NEW r \in Receivers, Receiver(r) PROVE RingInv'
  <2>1. CASE ReadSince(r)
    BY <2>1, <1>t, <1>s, Zenon DEF ReadSince, RingInv, Target, TypeOK
  <2>2. CASE ClaimBit(r)
    BY <2>2, <1>t, <1>s, Zenon DEF ClaimBit, RingInv, Target, TypeOK
  <2>3. CASE set_since(r)
    BY <2>3, <1>t, <1>s, Zenon DEF set_since, RingInv, Target, TypeOK
  <2>4. CASE AdoptEpoch(r)
    BY <2>4, <1>t, <1>s, Zenon DEF AdoptEpoch, RingInv, Target, TypeOK
  <2>5. CASE AdoptCursor(r)
    BY <2>5, <1>t, <1>s, Zenon DEF AdoptCursor, RingInv, Target, TypeOK
  <2>6. CASE AdoptWalk(r)
    BY <2>6, <1>t, <1>s, Zenon DEF AdoptWalk, RingInv, Target, TypeOK
  <2>7. CASE ReadBegin(r)
    BY <2>7, <1>t, <1>s, Zenon DEF ReadBegin, RingInv, Target, TypeOK
  <2>8. CASE ReadEnd(r)
    BY <2>8, <1>t, <1>s, Zenon DEF ReadEnd, RingInv, Target, TypeOK
  <2>9. CASE release_slot(r)
    BY <2>9, <1>t, <1>s, Zenon DEF release_slot, RingInv, Target, TypeOK, Words
  <2>10. CASE disconnect(r)
    BY <2>10, <1>t, <1>s, Zenon DEF disconnect, RingInv, Target, TypeOK, Leave
  <2>11. CASE reap_dead_receiver(r)
    BY <2>11, <1>t, <1>s, Zenon DEF reap_dead_receiver, RingInv, Target, TypeOK, Leave
  <2> QED BY Zenon, <1>20, <2>1, <2>2, <2>3, <2>4, <2>5, <2>6, <2>7, <2>8, <2>9, <2>10, <2>11 DEF Receiver
<1> QED BY Zenon, <1>1, <1>2, <1>3, <1>4, <1>5, <1>6, <1>7, <1>8, <1>9, <1>10, <1>11, <1>12, <1>13, <1>20 DEF Next, Sender

-----------------------------------------------------------------------------
(* The undisturbed receivers.                                              *)

\* A step of the sender disturbs no receiver it leaves in `clean`.
LEMMA CleanSender ==
  ASSUME NoWrap, IInv, Sender
  PROVE  CleanInv'
<1> USE ConstantsAssumption
<1> USE DEF shared, sender, receiver
<1>i. TypeOK /\ CursorInv /\ RingInv /\ CleanInv
  BY Zenon DEF IInv
<1>t. write_cursor \in Nat /\ Target \in Slots /\ epoch \in Nat
  BY <1>i, SlotType DEF TypeOK, Target
<1>d. \A p \in Int : p < write_cursor /\ write_cursor - p < RING_SIZE => Slot(p) # Target
  BY <1>t, SlotDistinct DEF Target
<1>s. \A p \in Int : Slot(p) \in Slots
  BY SlotType, Zenon
<1>r. \A r \in clean : /\ r \in Receivers /\ conn_id[r] \in Bits
                       /\ read_cursor[r] \in Nat /\ start[r] \in Nat
                       /\ since[conn_id[r]] \in Nat
  BY <1>i, Zenon DEF TypeOK
<1>c. \A r \in clean : BitInv(r) /\ PushInv(r) /\ UnreadInv(r)
  BY <1>i, Zenon DEF CleanInv
<1>1. CASE LoadConnections
  <2> SUFFICES ASSUME NEW r \in clean PROVE BitInv(r)' /\ PushInv(r)' /\ UnreadInv(r)'
    BY <1>1, Zenon DEF LoadConnections, CleanInv
  <2>1. BitInv(r)'
    BY <1>1, <1>c, Zenon DEF LoadConnections, BitInv
  <2>2. PushInv(r)'
    BY <1>1, <1>c, Zenon DEF LoadConnections, PushInv, BitInv
  <2>3. UnreadInv(r)'
    BY <1>1, <1>c, <1>t, Zenon DEF LoadConnections, UnreadInv, Stamped, Marked
  <2> QED BY Zenon, <2>1, <2>2, <2>3
<1>2. CASE LoadSlot
  <2> SUFFICES ASSUME NEW r \in clean PROVE BitInv(r)' /\ PushInv(r)' /\ UnreadInv(r)'
    BY <1>2, Zenon DEF LoadSlot, CleanInv
  <2>1. BitInv(r)'
    BY <1>2, <1>c, Zenon DEF LoadSlot, BitInv
  <2>2. PushInv(r)'
    BY <1>2, <1>c, Zenon DEF LoadSlot, PushInv, BitInv
  <2>3. UnreadInv(r)'
    BY <1>2, <1>c, <1>t, Zenon DEF LoadSlot, UnreadInv, Stamped, Marked
  <2> QED BY Zenon, <2>1, <2>2, <2>3
<1>3. CASE WaitDone
  <2> SUFFICES ASSUME NEW r \in clean PROVE BitInv(r)' /\ PushInv(r)' /\ UnreadInv(r)'
    BY <1>3, Zenon DEF WaitDone, CleanInv
  <2>1. BitInv(r)'
    BY <1>3, <1>c, Zenon DEF WaitDone, BitInv
  <2>2. PushInv(r)'
    BY <1>3, <1>c, Zenon DEF WaitDone, PushInv, BitInv
  <2>3. UnreadInv(r)'
    BY <1>3, <1>c, <1>t, Zenon DEF WaitDone, UnreadInv, Stamped, Marked
  <2> QED BY Zenon, <2>1, <2>2, <2>3
<1>4. CASE Abandon
  <2> SUFFICES ASSUME NEW r \in clean PROVE BitInv(r)' /\ PushInv(r)' /\ UnreadInv(r)'
    BY <1>4, Zenon DEF Abandon, CleanInv
  <2>1. BitInv(r)'
    BY <1>4, <1>c, Zenon DEF Abandon, BitInv
  <2>2. PushInv(r)'
    BY <1>4, <1>c, Zenon DEF Abandon, PushInv, BitInv
  <2>3. UnreadInv(r)'
    <3>1. /\ Stamped' = write_cursor /\ Stamped \in {write_cursor, write_cursor + 1}
          /\ UNCHANGED <<write_cursor, epoch, rc, data, conn_id, pc, start, read_cursor, frag>>
      BY <1>4, Zenon DEF Abandon, Stamped
    <3>2. read_cursor[r] .. Stamped' - 1 \subseteq read_cursor[r] .. Stamped - 1
      BY <3>1, <1>r, <1>t
    <3>3. Stamped' <= Stamped /\ Stamped \in Int /\ Stamped' \in Int
      BY <3>1, <1>t
    <3> QED BY <3>1, <3>2, <3>3, <1>c, <1>r, <1>t DEF UnreadInv, Marked
  <2> QED BY Zenon, <2>1, <2>2, <2>3
<1>5. CASE EvictScan
  <2> SUFFICES ASSUME NEW r \in clean PROVE BitInv(r)' /\ PushInv(r)' /\ UnreadInv(r)'
    BY <1>5, Zenon DEF EvictScan, CleanInv
  <2>1. BitInv(r)'
    BY <1>5, <1>c, Zenon DEF EvictScan, BitInv
  <2>2. PushInv(r)'
    BY <1>5, <1>c, Zenon DEF EvictScan, PushInv, BitInv
  <2>3. UnreadInv(r)'
    BY <1>5, <1>c, <1>t, Zenon DEF EvictScan, UnreadInv, Stamped, Marked
  <2> QED BY Zenon, <2>1, <2>2, <2>3
<1>6. CASE ClaimFails
  <2> SUFFICES ASSUME NEW r \in clean PROVE BitInv(r)' /\ PushInv(r)' /\ UnreadInv(r)'
    BY <1>6, Zenon DEF ClaimFails, CleanInv
  <2>1. BitInv(r)'
    BY <1>6, <1>c, Zenon DEF ClaimFails, BitInv
  <2>2. PushInv(r)'
    BY <1>6, <1>c, Zenon DEF ClaimFails, PushInv, BitInv
  <2>3. UnreadInv(r)'
    BY <1>6, <1>c, <1>t, Zenon DEF ClaimFails, UnreadInv, Stamped, Marked
  <2> QED BY Zenon, <2>1, <2>2, <2>3
<1>7. CASE CheckBusy
  <2> SUFFICES ASSUME NEW r \in clean PROVE BitInv(r)' /\ PushInv(r)' /\ UnreadInv(r)'
    BY <1>7, Zenon DEF CheckBusy, CleanInv
  <2>1. BitInv(r)'
    BY <1>7, <1>c, Zenon DEF CheckBusy, BitInv
  <2>2. ASSUME pc[r] \in Reading, wpc' = "cas", write_cursor - read_cursor[r] = RING_SIZE,
               cur_rc.ep = epoch, conn_id[r] \in cur_rc.marks
        PROVE  FALSE
    <3>1. conn_id[r] \in cc
      BY <1>7, <2>2, <1>c, Zenon DEF CheckBusy, PushInv
    <3>2. prev = read_cursor[r] /\ since[conn_id[r]] <= prev /\ prev <= MaxPos /\ prev \in Nat
      BY <2>2, <1>c, <1>r, <1>t, <1>i DEF prev, BitInv, CursorInv
    <3>3. AtOrAfter(prev, since[conn_id[r]])
      BY <3>2, <1>r, AtOrAfterNoWrap, Zenon
    <3>4. Busy(cc, cur_rc)
      BY <2>2, <3>1, <3>3, Zenon DEF Busy, live_marks
    <3> QED BY Zenon, <1>7, <2>2, <3>4 DEF CheckBusy
  <2>3. PushInv(r)'
    BY <1>7, <1>c, <2>2, Zenon DEF CheckBusy, PushInv
  <2>4. UnreadInv(r)'
    BY <1>7, <1>c, <1>t, Zenon DEF CheckBusy, UnreadInv, Stamped, Marked
  <2> QED BY Zenon, <2>1, <2>3, <2>4
<1>8. CASE ForcePush
  BY <1>8, Zenon DEF ForcePush, CleanInv
<1>9. CASE EvictConnections
  <2> SUFFICES ASSUME NEW r \in clean, conn_id[r] \notin rem2
               PROVE  BitInv(r)' /\ PushInv(r)' /\ UnreadInv(r)'
    BY <1>9, Zenon DEF EvictConnections, CleanInv
  <2>1. BitInv(r)'
    BY <1>9, <1>c, Zenon DEF EvictConnections, BitInv
  <2>2. PushInv(r)'
    BY <1>9, <1>c, Zenon DEF EvictConnections, PushInv
  <2>3. UnreadInv(r)'
    BY <1>9, <1>c, <1>t, Zenon DEF EvictConnections, UnreadInv, Stamped, Marked
  <2> QED BY Zenon, <2>1, <2>2, <2>3
<1>10. CASE EvictMarks
  <2> SUFFICES ASSUME NEW r \in clean PROVE BitInv(r)' /\ PushInv(r)' /\ UnreadInv(r)'
    BY <1>10, Zenon DEF EvictMarks, CleanInv
  <2>1. BitInv(r)'
    BY <1>10, <1>c, Zenon DEF EvictMarks, BitInv
  <2>2. PushInv(r)'
    BY <1>10, <1>c, Zenon DEF EvictMarks, PushInv
  <2>3. \A p \in Int : Marked(r, p) /\ (Slot(p) # Target \/ conn_id[r] \notin rem2)
                          => Marked(r, p)'
    BY <1>10, <1>t, <1>s, <1>i, Zenon DEF EvictMarks, Marked, TypeOK, Words
  <2>4. Stamped = write_cursor /\ Stamped' = write_cursor
    BY <1>10, Zenon DEF EvictMarks, Stamped
  <2>5. ASSUME pc[r] = "walk", write_cursor < start[r] + RING_SIZE,
               NEW p \in read_cursor[r] .. write_cursor - 1
        PROVE  Marked(r, p)'
    <3>1. p \in Int /\ p < write_cursor /\ write_cursor - p < RING_SIZE
      BY <2>5, <1>r, <1>t, <1>i DEF CursorInv
    <3> QED BY Zenon, <2>3, <2>4, <2>5, <3>1, <1>c, <1>d DEF UnreadInv
  <2>6. ASSUME pc[r] \in Reading, NEW p \in read_cursor[r] .. write_cursor - 1
        PROVE  Marked(r, p)'
    <3>1. Marked(r, p) /\ p \in Int /\ p < write_cursor
      BY <2>4, <2>6, <1>c, <1>r, <1>t DEF UnreadInv
    <3>2. CASE conn_id[r] \in rem2
      <4>1. write_cursor - read_cursor[r] < RING_SIZE
        BY <1>10, <1>c, <2>6, <3>2, Zenon DEF EvictMarks, PushInv
      <4>2. write_cursor - p < RING_SIZE
        BY <4>1, <2>6, <1>r, <1>t
      <4> QED BY Zenon, <2>3, <3>1, <4>2, <1>d
    <3> QED BY Zenon, <2>3, <3>1, <3>2
  <2>7. UnreadInv(r)'
    BY <1>10, <1>c, <2>4, <2>5, <2>6, Zenon DEF EvictMarks, UnreadInv
  <2> QED BY Zenon, <2>1, <2>2, <2>7
<1>11. CASE ClaimSlot
  <2> SUFFICES ASSUME NEW r \in clean PROVE BitInv(r)' /\ PushInv(r)' /\ UnreadInv(r)'
    BY <1>11, Zenon DEF ClaimSlot, CleanInv
  <2>1. BitInv(r)'
    BY <1>11, <1>c, Zenon DEF ClaimSlot, BitInv
  <2>2. PushInv(r)'
    BY <1>11, <1>c, Zenon DEF ClaimSlot, PushInv
  <2>3. /\ \A p \in Int : Marked(r, p) /\ Slot(p) # Target => Marked(r, p)'
        /\ \A p \in Int : p = write_cursor /\ conn_id[r] \in cc => Marked(r, p)'
    BY <1>11, <1>t, <1>s, <1>i, Zenon DEF ClaimSlot, Marked, TypeOK, Target
  <2>4. Stamped = write_cursor /\ Stamped' = write_cursor + 1 /\ wpc = "cas"
    BY <1>11, Zenon DEF ClaimSlot, Stamped
  <2>5. pc[r] \in {"walk"} \cup Reading => conn_id[r] \in cc
    BY <2>4, <1>c, Zenon DEF PushInv
  <2>6. ASSUME pc[r] = "walk", write_cursor < start[r] + RING_SIZE,
               NEW p \in read_cursor[r] .. write_cursor
        PROVE  Marked(r, p)'
    <3>1. CASE p = write_cursor
      BY <2>3, <2>5, <2>6, <3>1, <1>t
    <3>2. CASE p # write_cursor
      <4>1. /\ p \in read_cursor[r] .. write_cursor - 1 /\ p \in Int
            /\ p < write_cursor /\ write_cursor - p < RING_SIZE
        BY <2>6, <3>2, <1>r, <1>t, <1>i DEF CursorInv
      <4> QED BY Zenon, <2>3, <2>4, <2>6, <4>1, <1>c, <1>d DEF UnreadInv
    <3> QED BY Zenon, <3>1, <3>2
  <2>7. ASSUME pc[r] \in Reading PROVE write_cursor - read_cursor[r] < RING_SIZE
    <3>1. SUFFICES ASSUME write_cursor - read_cursor[r] = RING_SIZE PROVE FALSE
      BY <2>4, <2>7, <1>c, <1>r, <1>t DEF UnreadInv
    <3>2. Marked(r, read_cursor[r])
      BY <2>4, <2>7, <3>1, <1>c, <1>r, <1>t DEF UnreadInv
    <3>3. Slot(read_cursor[r]) = Target
      BY <3>1, <1>r, <1>t, SlotLap DEF Target
    <3>4. cur_rc.ep = epoch /\ conn_id[r] \in cur_rc.marks
      BY <1>11, <3>2, <3>3, Zenon DEF ClaimSlot, Marked
    <3> QED BY Zenon, <2>4, <2>7, <3>1, <3>4, <1>c DEF PushInv
  <2>8. ASSUME pc[r] \in Reading, NEW p \in read_cursor[r] .. write_cursor
        PROVE  Marked(r, p)'
    <3>1. CASE p = write_cursor
      BY <2>3, <2>5, <2>8, <3>1, <1>t
    <3>2. CASE p # write_cursor
      <4>1. /\ p \in read_cursor[r] .. write_cursor - 1 /\ p \in Int
            /\ p < write_cursor /\ write_cursor - p < RING_SIZE
        BY <2>7, <2>8, <3>2, <1>r, <1>t
      <4> QED BY Zenon, <2>3, <2>4, <2>8, <4>1, <1>c, <1>d DEF UnreadInv
    <3> QED BY Zenon, <3>1, <3>2
  <2>9. UnreadInv(r)'
    <3>1. UNCHANGED <<write_cursor, data, pc, start, read_cursor, frag>>
      BY <1>11, Zenon DEF ClaimSlot
    <3>2. Stamped' - 1 = write_cursor
      BY <2>4, <1>t
    <3>3. pc[r] \in Reading => Stamped' - read_cursor[r] <= RING_SIZE
      BY <2>4, <2>7, <1>r, <1>t
    <3> QED BY Zenon, <3>1, <3>2, <3>3, <1>c, <2>6, <2>8 DEF UnreadInv
  <2> QED BY Zenon, <2>1, <2>2, <2>9
<1>12. CASE WriteMsg
  <2> SUFFICES ASSUME NEW r \in clean PROVE BitInv(r)' /\ PushInv(r)' /\ UnreadInv(r)'
    BY <1>12, Zenon DEF WriteMsg, CleanInv
  <2>1. BitInv(r)'
    BY <1>12, <1>c, Zenon DEF WriteMsg, BitInv
  <2>2. PushInv(r)'
    BY <1>12, <1>c, Zenon DEF WriteMsg, PushInv
  <2>3. Stamped = write_cursor + 1 /\ Stamped' = Stamped
    BY <1>12, Zenon DEF WriteMsg, Stamped
  <2>4. ASSUME pc[r] \in Reading, NEW p \in read_cursor[r] .. write_cursor - 1
        PROVE  data'[Slot(p)] = p
    <3>1. data[Slot(p)] = p /\ write_cursor + 1 - read_cursor[r] <= RING_SIZE
      BY <2>3, <2>4, <1>c, <1>r, <1>t DEF UnreadInv
    <3>2. p \in Int /\ p < write_cursor /\ write_cursor - p < RING_SIZE
      BY <2>4, <3>1, <1>r, <1>t
    <3> QED BY Zenon, <1>12, <3>1, <3>2, <1>d, <1>s, <1>i DEF WriteMsg, TypeOK
  <2>5. UnreadInv(r)'
    BY <1>12, <1>c, <2>3, <2>4, Zenon DEF WriteMsg, UnreadInv, Marked
  <2> QED BY Zenon, <2>1, <2>2, <2>5
<1>13. CASE Publish
  <2> SUFFICES ASSUME NEW r \in clean PROVE BitInv(r)' /\ PushInv(r)' /\ UnreadInv(r)'
    BY <1>13, Zenon DEF Publish, CleanInv
  <2>1. BitInv(r)'
    BY <1>13, <1>c, Zenon DEF Publish, BitInv
  <2>2. PushInv(r)'
    BY <1>13, <1>c, Zenon DEF Publish, PushInv
  <2>3. Stamped = write_cursor + 1 /\ Stamped' = write_cursor + 1 /\ write_cursor' = write_cursor + 1
    BY <1>13, Zenon DEF Publish, Stamped
  <2>4. ASSUME pc[r] \in Reading, NEW p \in read_cursor[r] .. write_cursor
        PROVE  data'[Slot(p)] = p
    <3>1. CASE p = write_cursor
      BY <1>13, <3>1, <1>t, <1>i, Zenon DEF Publish, Target, TypeOK
    <3>2. CASE p # write_cursor
      <4>1. write_cursor + 1 - read_cursor[r] <= RING_SIZE
        BY <2>3, <2>4, <1>c, <1>r, <1>t DEF UnreadInv
      <4>2. /\ p \in read_cursor[r] .. write_cursor - 1 /\ p \in Int
            /\ p < write_cursor /\ write_cursor - p < RING_SIZE
        BY <2>4, <3>2, <4>1, <1>r, <1>t
      <4>3. data[Slot(p)] = p
        BY <2>4, <4>2, <1>c, Zenon DEF UnreadInv
      <4> QED BY Zenon, <1>13, <4>2, <4>3, <1>d, <1>s, <1>i DEF Publish, TypeOK
    <3> QED BY Zenon, <3>1, <3>2
  <2>5. UnreadInv(r)'
    <3>1. UNCHANGED <<epoch, rc, conn_id, pc, start, read_cursor, frag>>
      BY <1>13, Zenon DEF Publish
    <3>2. write_cursor' - 1 = write_cursor
      BY <2>3, <1>t
    <3> QED BY <3>1, <3>2, <2>3, <2>4, <1>c, <1>r, <1>t DEF UnreadInv, Marked
  <2> QED BY Zenon, <2>1, <2>2, <2>5
<1> QED BY Zenon, <1>1, <1>2, <1>3, <1>4, <1>5, <1>6, <1>7, <1>8, <1>9, <1>10, <1>11, <1>12, <1>13
    DEF Sender

\* What a step of receiver x leaves alone for another receiver r.
KeptFor(r) ==
    /\ r \in clean
    /\ pc'[r] = pc[r] /\ conn_id'[r] = conn_id[r] /\ start'[r] = start[r]
    /\ ep'[r] = ep[r] /\ read_cursor'[r] = read_cursor[r] /\ frag'[r] = frag[r]
    /\ UNCHANGED <<write_cursor, epoch, data, sender>>
    /\ conn_id[r] \in connections'
    /\ since'[conn_id[r]] = since[conn_id[r]]
    /\ \A y \in clean' : y # r => conn_id'[y] # conn_id[r]
    /\ \A p \in Int : Marked(r, p) => Marked(r, p)'

\* A step of receiver x keeps the bit, since and marks of any other in `clean`.
LEMMA OthersKept ==
  ASSUME IInv, NEW x \in Receivers, Receiver(x), NEW r \in clean', r # x
  PROVE  KeptFor(r)
<1> USE DEF shared, sender, receiver, Goto
<1>i. TypeOK /\ CleanInv
  BY Zenon DEF IInv
<1>c. \A y \in clean : /\ y \in Receivers /\ conn_id[y] \in connections
                       /\ pc[y] \in Linked
                       /\ \A z \in clean : z # y => conn_id[z] # conn_id[y]
  BY <1>i, Zenon DEF CleanInv, BitInv, TypeOK
<1>s. \A p \in Int : Slot(p) \in Slots
  BY SlotType, Zenon
<1>1. CASE ReadSince(x)
  BY <1>1, <1>i, <1>c, Zenon DEF ReadSince, KeptFor, Marked, TypeOK
<1>2. CASE AdoptEpoch(x)
  BY <1>2, <1>i, <1>c, Zenon DEF AdoptEpoch, KeptFor, Marked, TypeOK
<1>3. CASE AdoptCursor(x)
  BY <1>3, <1>i, <1>c, Zenon DEF AdoptCursor, KeptFor, Marked, TypeOK
<1>4. CASE AdoptWalk(x)
  BY <1>4, <1>i, <1>c, Zenon DEF AdoptWalk, KeptFor, Marked, TypeOK
<1>5. CASE ReadBegin(x)
  BY <1>5, <1>i, <1>c, Zenon DEF ReadBegin, KeptFor, Marked, TypeOK
<1>6. CASE ReadEnd(x)
  BY <1>6, <1>i, <1>c, Zenon DEF ReadEnd, KeptFor, Marked, TypeOK
<1>7. CASE ClaimBit(x)
  <2>1. x \notin clean
    BY <1>7, <1>c, Zenon DEF ClaimBit, Linked, Reading
  <2>2. CASE connections = Bits
    BY <1>7, <2>2, <1>i, <1>c, Zenon DEF ClaimBit, KeptFor, Marked, TypeOK
  <2>3. CASE connections # Bits
    <3>1. PICK b \in Bits \ connections :
             /\ connections' = connections \cup {b}
             /\ conn_id' = [conn_id EXCEPT ![x] = b]
             /\ clean' = clean \cup {x}
             /\ pc' = [pc EXCEPT ![x] = "since"]
             /\ UNCHANGED start
      BY <1>7, <2>3, Zenon DEF ClaimBit
    <3>2. UNCHANGED <<write_cursor, epoch, rc, data, since, sender, ep, walked, read_cursor, frag>>
      BY <1>7, Zenon DEF ClaimBit
    <3> QED BY <2>1, <3>1, <3>2, <1>i, <1>c DEF KeptFor, Marked, TypeOK
  <2> QED BY Zenon, <2>2, <2>3
<1>8. CASE set_since(x)
  BY <1>8, <1>i, <1>c, Zenon DEF set_since, Undisturbed, KeptFor, Marked, TypeOK
<1>9. CASE release_slot(x)
  <2>1. r \in clean /\ conn_id[r] # conn_id[x]
    BY <1>9, Zenon DEF release_slot, Undisturbed
  <2>2. \A p \in Int : Marked(r, p) => Marked(r, p)'
    BY <1>9, <2>1, <1>i, <1>s, Zenon DEF release_slot, Marked, TypeOK, Words
  <2>3. clean' \subseteq clean
    BY <1>9, Zenon DEF release_slot, Undisturbed
  <2> QED BY Zenon, <1>9, <2>1, <2>2, <2>3, <1>i, <1>c DEF release_slot, KeptFor, TypeOK
<1>10. ASSUME Leave(x) PROVE KeptFor(r)
  <2>1. r \in clean /\ conn_id[r] # conn_id[x] /\ clean' \subseteq clean \ {x}
    BY <1>10, Zenon DEF Leave, Undisturbed
  <2> QED BY Zenon, <1>10, <2>1, <1>i, <1>c DEF Leave, KeptFor, Marked, TypeOK
<1>11. CASE disconnect(x)
  BY <1>10, <1>11, Zenon DEF disconnect
<1>12. CASE reap_dead_receiver(x)
  BY <1>10, <1>12, Zenon DEF reap_dead_receiver
<1> QED BY Zenon, <1>1, <1>2, <1>3, <1>4, <1>5, <1>6, <1>7, <1>8, <1>9, <1>11, <1>12 DEF Receiver

\* A step of a receiver disturbs no other receiver it leaves in `clean`.
LEMMA CleanOthers ==
  ASSUME IInv, NEW x \in Receivers, Receiver(x), NEW r \in clean', r # x
  PROVE  BitInv(r)' /\ PushInv(r)' /\ UnreadInv(r)'
<1>1. KeptFor(r)
  BY OthersKept, Zenon
<1>2. BitInv(r) /\ PushInv(r) /\ UnreadInv(r)
  BY <1>1, Zenon DEF KeptFor, IInv, CleanInv
<1>3. BitInv(r)'
  BY <1>1, <1>2, Zenon DEF KeptFor, BitInv, sender
<1>4. PushInv(r)'
  BY <1>1, <1>2, Zenon DEF KeptFor, PushInv, sender
<1>5. Stamped' = Stamped
  BY <1>1, Zenon DEF KeptFor, Stamped, sender
<1>5a. write_cursor \in Nat /\ read_cursor[r] \in Nat
  BY <1>1, Zenon DEF KeptFor, IInv, TypeOK
<1>5b. Stamped \in Int /\ write_cursor \in Int /\ read_cursor[r] \in Int
  <2>1. Stamped \in {write_cursor, write_cursor + 1}
    BY Zenon DEF Stamped
  <2> QED BY <1>5a, <2>1
<1>6. UnreadInv(r)'
  <2>1. /\ pc'[r] = pc[r] /\ start'[r] = start[r] /\ read_cursor'[r] = read_cursor[r]
        /\ frag'[r] = frag[r] /\ write_cursor' = write_cursor /\ data' = data
    BY <1>1, Zenon DEF KeptFor
  <2>2. \A p \in read_cursor[r] .. Stamped - 1 : p \in Int
    BY <1>5b
  <2>3. (\A p \in read_cursor[r] .. Stamped - 1 : Marked(r, p)) =>
          \A p \in read_cursor[r] .. Stamped - 1 : Marked(r, p)'
    BY <1>1, <2>2, Zenon DEF KeptFor
  <2> QED BY <1>2, <1>5, <2>1, <2>3, Zenon DEF UnreadInv
<1> QED BY Zenon, <1>3, <1>4, <1>6

\* A step of an undisturbed receiver keeps the invariant for itself.
LEMMA CleanSelf ==
  ASSUME IInv, NEW x \in Receivers, Receiver(x), x \in clean'
  PROVE  BitInv(x)' /\ PushInv(x)' /\ UnreadInv(x)'
<1> USE ConstantsAssumption
<1> USE DEF shared, sender, receiver, Goto, Linked, Reading
<1>i. TypeOK /\ CursorInv /\ RingInv
  BY Zenon DEF IInv
<1>c. \A y \in clean : BitInv(y) /\ PushInv(y) /\ UnreadInv(y)
  BY Zenon DEF IInv, CleanInv
<1>t. /\ write_cursor \in Nat /\ read_cursor[x] \in Nat /\ start[x] \in Nat /\ epoch \in Nat
      /\ conn_id[x] \in Bits /\ Stamped \in {write_cursor, write_cursor + 1}
  BY <1>i, Zenon DEF TypeOK, Stamped
<1>f. pc \in [Receivers -> ReceiverLabels]
  BY <1>i, Zenon DEF TypeOK
<1>1. CASE ReadSince(x)
  BY <1>1, <1>c, Zenon DEF ReadSince, BitInv
<1>2. CASE ClaimBit(x)
  <2>1. x \notin clean /\ connections # Bits
    BY <1>2, <1>c, Zenon DEF ClaimBit, BitInv
  <2>2. PICK b \in Bits \ connections :
           /\ connections' = connections \cup {b}
           /\ conn_id' = [conn_id EXCEPT ![x] = b]
           /\ clean' = clean \cup {x}
           /\ pc' = [pc EXCEPT ![x] = "since"]
    BY <1>2, <2>1, Zenon DEF ClaimBit
  <2>3. pc'[x] = "since" /\ conn_id'[x] = b
    BY <2>2, <1>i, Zenon DEF TypeOK
  <2>4. \A y \in clean' : y # x => conn_id'[y] # b
    BY <2>2, <1>i, <1>c, Zenon DEF TypeOK, BitInv
  <2>5. BitInv(x)'
    BY <2>2, <2>3, <2>4 DEF BitInv
  <2> QED BY Zenon, <2>3, <2>5 DEF PushInv, UnreadInv
<1>3. CASE set_since(x)
  <2>1. pc'[x] = "epoch" /\ x \in clean /\ since'[conn_id[x]] = start[x]
    BY <1>3, <1>i, Zenon DEF set_since, Undisturbed, TypeOK
  <2>2. BitInv(x)'
    BY <1>3, <2>1, <1>c, Zenon DEF set_since, Undisturbed, BitInv
  <2> QED BY Zenon, <2>1, <2>2 DEF PushInv, UnreadInv
<1>4. CASE AdoptEpoch(x)
  <2>1. pc'[x] = "cursor" /\ x \in clean /\ ep'[x] = epoch
    BY <1>4, <1>i, Zenon DEF AdoptEpoch, TypeOK
  <2>2. BitInv(x)'
    BY <1>4, <2>1, <1>c, Zenon DEF AdoptEpoch, BitInv
  <2> QED BY Zenon, <2>1, <2>2 DEF PushInv, UnreadInv
<1>5. CASE AdoptCursor(x)
  <2>1. /\ pc'[x] = "walk" /\ x \in clean /\ clean' = clean /\ ~BlindPush(x)
        /\ read_cursor'[x] = write_cursor
    BY <1>5, <1>i, Zenon DEF AdoptCursor, TypeOK
  <2>2. BitInv(x)'
    BY <1>5, <2>1, <1>c, Zenon DEF AdoptCursor, BitInv
  <2>3. PushInv(x)'
    BY <1>5, <2>1, Zenon DEF AdoptCursor, PushInv, BlindPush
  <2>4. ASSUME NEW p \in write_cursor .. Stamped - 1 PROVE Marked(x, p)'
    <3>1. p = write_cursor /\ wpc \in {"write", "publish"}
      BY <1>t DEF Stamped
    <3>2. rc[Slot(p)].ep = epoch /\ conn_id[x] \in rc[Slot(p)].marks
      BY <2>1, <3>1, <1>i, Zenon DEF BlindPush, RingInv, Target
    <3> QED BY Zenon, <1>5, <3>2 DEF AdoptCursor, Marked
  <2>5. UnreadInv(x)'
    BY <1>5, <2>1, <2>4, Zenon DEF AdoptCursor, UnreadInv, Stamped
  <2> QED BY Zenon, <2>2, <2>3, <2>5
<1>6. CASE AdoptWalk(x) /\ Addressed(x)
  <2>1. /\ pc[x] = "walk" /\ pc' = pc /\ x \in clean /\ clean' = clean
        /\ read_cursor'[x] = read_cursor[x] - 1 /\ start' = start /\ ep' = ep
        /\ UNCHANGED <<shared, sender, conn_id, frag>>
    BY <1>6, <1>i, Zenon DEF AdoptWalk, TypeOK
  <2>2. BitInv(x)' /\ PushInv(x)'
    BY <2>1, <1>c, Zenon DEF BitInv, PushInv
  <2>3. Marked(x, read_cursor[x] - 1)
    BY <1>6, <2>1, <1>c, Zenon DEF Addressed, Marked, BitInv
  <2>4. ASSUME write_cursor < start[x] + RING_SIZE,
               NEW p \in read_cursor[x] - 1 .. Stamped - 1
        PROVE  Marked(x, p)
    <3>1. p = read_cursor[x] - 1 \/ p \in read_cursor[x] .. Stamped - 1
      BY <1>t
    <3> QED BY Zenon, <2>1, <2>3, <2>4, <3>1, <1>c DEF UnreadInv
  <2>5. UnreadInv(x)'
    BY <2>1, <2>4, Zenon DEF UnreadInv, Stamped, Marked
  <2> QED BY Zenon, <2>2, <2>5
<1>7. CASE AdoptWalk(x) /\ ~Addressed(x)
  <2>1. /\ pc[x] = "walk" /\ pc'[x] = "idle" /\ x \in clean /\ clean' = clean /\ ~Lapped(x)
        /\ UNCHANGED <<shared, sender, conn_id, frag, read_cursor>>
    BY <1>7, <1>i, Zenon DEF AdoptWalk, TypeOK
  <2>2. /\ start[x] <= read_cursor[x] /\ read_cursor[x] <= write_cursor
        /\ write_cursor < start[x] + RING_SIZE
        /\ write_cursor - read_cursor[x] < RING_SIZE
    BY <2>1, <1>i, <1>t DEF CursorInv, Lapped
  <2>3. BitInv(x)'
    BY <2>1, <2>2, <1>c, Zenon DEF BitInv
  <2>4. PushInv(x)'
    BY <2>1, <2>2, <1>c, <1>t DEF PushInv
  <2>5. \A p \in read_cursor[x] .. write_cursor - 1 : data[Slot(p)] = p
    <3> SUFFICES ASSUME NEW p \in read_cursor[x] .. write_cursor - 1 PROVE data[Slot(p)] = p
      BY Zenon
    <3>1. p \in 0 .. write_cursor - 1 /\ write_cursor - p < RING_SIZE
      BY <2>2, <1>t
    <3> QED BY Zenon, <3>1, <1>i DEF RingInv
  <2>6. \A p \in read_cursor[x] .. Stamped - 1 : Marked(x, p)
    BY <2>1, <2>2, <1>c, Zenon DEF UnreadInv
  <2>7. Stamped' = Stamped /\ Stamped - read_cursor[x] <= RING_SIZE
    BY <2>1, <2>2, <1>t DEF Stamped
  <2>8. UnreadInv(x)'
    BY <2>1, <2>2, <2>5, <2>6, <2>7, Zenon DEF UnreadInv, Marked
  <2> QED BY Zenon, <2>3, <2>4, <2>8
<1>8. CASE ReadBegin(x)
  <2>1. /\ pc[x] = "idle" /\ pc'[x] = "copy" /\ x \in clean /\ clean' = clean
        /\ frag'[x] = data[Slot(read_cursor[x])]
        /\ UNCHANGED <<shared, sender, conn_id, start, ep, read_cursor>>
    BY <1>8, <1>i, Zenon DEF ReadBegin, TypeOK
  <2>2. read_cursor[x] < write_cursor
    <3>1. read_cursor[x] <= write_cursor /\ write_cursor # read_cursor[x]
      BY <1>8, <2>1, <1>c, Zenon DEF ReadBegin, SameCursor, UnreadInv, Reading
    <3> QED BY <3>1, <1>t
  <2>3. data[Slot(read_cursor[x])] = read_cursor[x]
    <3>1. \A p \in read_cursor[x] .. write_cursor - 1 : data[Slot(p)] = p
      BY <2>1, <1>c, Zenon DEF UnreadInv, Reading
    <3>2. read_cursor[x] \in read_cursor[x] .. write_cursor - 1
      BY <2>2, <1>t
    <3> QED BY Zenon, <3>1, <3>2
  <2>4. BitInv(x)' /\ PushInv(x)'
    BY <2>1, <1>c, Zenon DEF BitInv, PushInv
  <2>5. UnreadInv(x)'
    BY <2>1, <2>2, <2>3, <1>c, Zenon DEF UnreadInv, Stamped, Marked
  <2> QED BY Zenon, <2>4, <2>5
<1>9. CASE ReadEnd(x)
  <2>1. /\ pc[x] = "copy" /\ pc'[x] = "release" /\ x \in clean /\ clean' = clean
        /\ frag'[x] = IF data[Slot(read_cursor[x])] = frag[x] THEN frag[x] ELSE Torn
        /\ UNCHANGED <<shared, sender, conn_id, start, ep, read_cursor>>
    BY <1>9, <1>i, Zenon DEF ReadEnd, TypeOK
  <2>2. read_cursor[x] < write_cursor /\ frag[x] = read_cursor[x]
    BY <2>1, <1>c, Zenon DEF UnreadInv
  <2>3. data[Slot(read_cursor[x])] = read_cursor[x]
    BY <2>1, <2>2, <1>c, <1>t DEF UnreadInv
  <2>4. BitInv(x)' /\ PushInv(x)'
    BY <2>1, <1>c, Zenon DEF BitInv, PushInv
  <2>5. UnreadInv(x)'
    BY <2>1, <2>2, <2>3, <1>c, Zenon DEF UnreadInv, Stamped, Marked
  <2> QED BY Zenon, <2>4, <2>5
<1>10. CASE release_slot(x)
  <2>1. /\ pc[x] = "release" /\ pc'[x] = "idle" /\ x \in clean /\ clean' \subseteq clean
        /\ read_cursor'[x] = read_cursor[x] + 1
        /\ UNCHANGED <<connections, write_cursor, epoch, data, since, sender, conn_id, start, ep>>
    BY <1>10, <1>i, Zenon DEF release_slot, Undisturbed, TypeOK
  <2>2. /\ read_cursor[x] < write_cursor /\ Stamped - read_cursor[x] <= RING_SIZE
        /\ \A p \in read_cursor[x] .. Stamped - 1 : Marked(x, p)
    BY <2>1, <1>c, Zenon DEF UnreadInv
  <2>3. ASSUME NEW p \in read_cursor[x] + 1 .. Stamped - 1 PROVE Marked(x, p)'
    <3>1. /\ p \in read_cursor[x] .. Stamped - 1 /\ p \in Int
          /\ read_cursor[x] < p /\ p - read_cursor[x] < RING_SIZE
      BY <2>2, <1>t
    <3>2. Slot(read_cursor[x]) # Slot(p)
      BY <3>1, <1>t, SlotDistinct
    <3>3. Slot(p) \in Slots /\ Slot(read_cursor[x]) \in Slots
      BY <3>1, <1>t, SlotType
    <3>4. rc'[Slot(p)] = rc[Slot(p)]
      BY <1>10, <3>2, <3>3, <1>i, Zenon DEF release_slot, TypeOK
    <3> QED BY Zenon, <2>1, <2>2, <3>1, <3>4 DEF Marked
  <2>4. BitInv(x)'
    <3>1. since[conn_id[x]] \in Nat /\ since[conn_id[x]] <= read_cursor[x]
      BY <2>1, <1>c, <1>t, <1>i, Zenon DEF BitInv, TypeOK
    <3>2. since[conn_id[x]] <= read_cursor[x] + 1
      BY <3>1, <1>t
    <3> QED BY <2>1, <1>c, <3>2, Zenon DEF BitInv
  <2>5. PushInv(x)'
    <3>1. /\ write_cursor - (read_cursor[x] + 1) < RING_SIZE
          /\ write_cursor - (read_cursor[x] + 1) # RING_SIZE
      BY <2>2, <1>t
    <3> QED BY <2>1, <1>c, <3>1, Zenon DEF PushInv
  <2>6. \A p \in read_cursor[x] + 1 .. write_cursor - 1 : data[Slot(p)] = p
    BY <2>1, <1>c, <1>t DEF UnreadInv
  <2>7. Stamped' = Stamped
    BY <2>1, Zenon DEF Stamped
  <2>8. read_cursor[x] + 1 <= write_cursor /\ Stamped - (read_cursor[x] + 1) <= RING_SIZE
    BY <2>2, <1>t
  <2>9. UnreadInv(x)'
    BY <2>1, <2>3, <2>6, <2>7, <2>8, Zenon DEF UnreadInv
  <2> QED BY Zenon, <2>4, <2>5, <2>9
<1>11. CASE disconnect(x)
  BY <1>11, Zenon DEF disconnect, Leave
<1>12. CASE reap_dead_receiver(x)
  BY <1>12, Zenon DEF reap_dead_receiver, Leave
<1> QED BY Zenon, <1>1, <1>2, <1>3, <1>4, <1>5, <1>6, <1>7, <1>8, <1>9, <1>10, <1>11, <1>12 DEF Receiver

-----------------------------------------------------------------------------
(* The theorems.                                                           *)

\* The inductive invariant holds of a ring just created.
LEMMA IInvInit == Init => IInv
<1> SUFFICES ASSUME Init PROVE IInv
  BY Zenon
<1>1. TypeOK /\ CursorInv
  BY TypeInit, Zenon
<1>2. RingInv
  BY DEF Init, RingInv
<1>3. CleanInv
  BY Zenon DEF Init, CleanInv
<1> QED BY Zenon, <1>1, <1>2, <1>3 DEF IInv

\* Every step of the sender and of the receivers keeps the inductive invariant.
LEMMA IInvStep == NoWrap /\ IInv /\ [Next]_vars => IInv'
<1> SUFFICES ASSUME NoWrap, IInv, [Next]_vars PROVE IInv'
  BY Zenon
<1>1. TypeOK' /\ CursorInv'
  BY TypeStep, Zenon DEF IInv
<1>2. CASE UNCHANGED vars
  <2>1. /\ connections' = connections /\ write_cursor' = write_cursor /\ epoch' = epoch
        /\ rc' = rc /\ data' = data /\ since' = since
        /\ wpc' = wpc /\ cc' = cc /\ cur_rc' = cur_rc /\ rem2' = rem2
        /\ pc' = pc /\ conn_id' = conn_id /\ start' = start /\ ep' = ep
        /\ read_cursor' = read_cursor /\ frag' = frag /\ clean' = clean
    BY <1>2, Zenon DEF vars, shared, sender, receiver
  <2>2. RingInv'
    BY <2>1, Zenon DEF IInv, RingInv, Target
  <2>3. ASSUME NEW r \in clean' PROVE BitInv(r)' /\ PushInv(r)' /\ UnreadInv(r)'
    <3>1. BitInv(r) /\ PushInv(r) /\ UnreadInv(r)
      BY <2>1, Zenon DEF IInv, CleanInv
    <3>2. BitInv(r)' /\ PushInv(r)'
      BY <2>1, <3>1, Zenon DEF BitInv, PushInv
    <3>3. Stamped' = Stamped /\ \A p : Marked(r, p)' <=> Marked(r, p)
      BY <2>1, Zenon DEF Stamped, Marked
    <3>4. UnreadInv(r)'
      BY <2>1, <3>1, <3>3, Zenon DEF UnreadInv
    <3> QED BY <3>2, <3>4
  <2> QED BY <1>1, <2>2, <2>3, Zenon DEF IInv, CleanInv
<1>3. CASE Next
  <2>1. RingInv'
    BY <1>3, RingStep, Zenon DEF IInv
  <2>2. CASE Sender
    BY <1>1, <2>1, <2>2, CleanSender, Zenon DEF IInv
  <2>3. ASSUME NEW x \in Receivers, Receiver(x) PROVE CleanInv'
    <3>1. \A r \in clean' : r # x => BitInv(r)' /\ PushInv(r)' /\ UnreadInv(r)'
      BY <2>3, CleanOthers, Zenon
    <3>2. x \in clean' => BitInv(x)' /\ PushInv(x)' /\ UnreadInv(x)'
      BY <2>3, CleanSelf, Zenon
    <3> QED BY Zenon, <3>1, <3>2 DEF CleanInv
  <2> QED BY Zenon, <1>1, <1>3, <2>1, <2>2, <2>3 DEF Next, IInv
<1> QED BY Zenon, <1>2, <1>3

\* Every unread fragment of an undisturbed receiver stays in its slot and keeps
\* that receiver's mark, so push_fragment never overwrites it, for any number of
\* receivers, bits and slots, as long as the cursors do not wrap half-way.
THEOREM UnreadIsKept ==
  ASSUME NoWrap
  PROVE  Spec => []UnreadKept
<1>1. Init => IInv
  BY IInvInit, Zenon
<1>2. IInv /\ [Next]_vars => IInv'
  BY IInvStep, Zenon
<1>3. IInv => UnreadKept
  <2> SUFFICES ASSUME IInv, NEW r \in clean, pc[r] \in Reading,
                      NEW p \in read_cursor[r] .. write_cursor - 1
               PROVE  data[Slot(p)] = p /\ Marked(r, p)
    BY Zenon DEF UnreadKept, Marked
  <2>1. UnreadInv(r) /\ write_cursor \in Nat /\ read_cursor[r] \in Nat
    BY Zenon DEF IInv, CleanInv, TypeOK
  <2>2. p \in read_cursor[r] .. Stamped - 1
    BY <2>1 DEF Stamped
  <2> QED BY Zenon, <2>1, <2>2 DEF UnreadInv
<1> QED BY <1>1, <1>2, <1>3, PTL DEF Spec

\* What recv hands an undisturbed receiver is the fragment pushed at its
\* position, never a torn one or one of another lap, under the same assumption.
THEOREM DeliveryIsIntact ==
  ASSUME NoWrap
  PROVE  Spec => []IntactDelivery
<1>1. Init => IInv
  BY IInvInit, Zenon
<1>2. IInv /\ [Next]_vars => IInv'
  BY IInvStep, Zenon
<1>3. IInv => IntactDelivery
  BY Zenon DEF IInv, CleanInv, UnreadInv, IntactDelivery
<1> QED BY <1>1, <1>2, <1>3, PTL DEF Spec
-----------------------------------------------------------------------------
(* The ring implements the broadcast queue: every step of Route is a step  *)
(* of Broadcast under the mapping of Queue, for every number of receivers, *)
(* bits and slots.                                                         *)

\* What the queue shows of a receiver does not change.
Same(x) == /\ read_cursor'[x] = read_cursor[x]
           /\ pc'[x] = "release" <=> pc[x] = "release"
           /\ pc[x] = "release" => frag'[x] = frag[x]

\* Whoever is no longer attached is detached, and the others see nothing: most
\* steps, the ones that change nothing in the queue included.
LEMMA Withdraws ==
  ASSUME UNCHANGED write_cursor, Attached' \subseteq Attached,
         \A x \in Attached' : Same(x)
  PROVE  Queue!Next
<1> DEFINE S == Attached \ Attached'
<1>1. S \in SUBSET Attached /\ Attached' = Attached \ S
  BY Zenon
<1>2. NextOf' = [r \in Receivers |-> IF r \in S THEN 0 ELSE NextOf[r]]
  BY Zenon DEF NextOf, Same
<1>3. HandOf' = [r \in Receivers |-> IF r \in S THEN Queue!Nothing ELSE HandOf[r]]
  BY Zenon DEF HandOf, Same, Torn, Queue!Nothing
<1>4. Queue!Detach(S)
  BY <1>1, <1>2, <1>3, Zenon DEF Queue!Detach
<1> QED
  BY <1>1, <1>4, Zenon DEF Queue!Next

\* A step of receiver r that shows nothing of it, or takes it out.
LEMMA HiddenStep ==
  ASSUME NEW r \in Receivers, UNCHANGED write_cursor, clean' \subseteq clean \cup {r},
         \A x \in Receivers : x # r => Same(x) /\ pc'[x] = pc[x],
         r \in Attached' => r \in Attached /\ Same(r),
         clean \in SUBSET Receivers
  PROVE  Queue!Next
<1>1. ASSUME NEW x \in Attached' PROVE x \in Attached /\ Same(x)
  <2>1. CASE x = r
    BY <2>1, <1>1, Zenon
  <2>2. CASE x # r
    <3>1. x \in clean /\ x \in Receivers /\ pc'[x] \in Reading
      BY <1>1, <2>2, Zenon DEF Attached
    <3> QED
      BY <2>2, <3>1, Zenon DEF Attached
  <2> QED
    BY <2>1, <2>2, Zenon
<1> QED
  BY <1>1, Withdraws, Zenon

\* The sender: only a published fragment and an eviction show.
LEMMA SenderRefines ==
  ASSUME NoWrap, IInv, Sender
  PROVE  [Queue!Next]_Queue!vars
<1> USE DEF shared, sender, receiver
<1>i. TypeOK /\ CleanInv
  BY Zenon DEF IInv
<1>1. CASE Publish
  <2>1. /\ write_cursor' = write_cursor + 1 /\ Stamped = write_cursor + 1
        /\ UNCHANGED <<pc, clean, read_cursor, frag>>
    BY <1>1, Zenon DEF Publish, Stamped
  <2>2. ASSUME NEW r \in Attached PROVE write_cursor - NextOf[r] < RING_SIZE
    <3>1. r \in Receivers /\ r \in clean /\ pc[r] \in Reading /\ NextOf[r] = read_cursor[r]
      BY <1>i, <2>2, Zenon DEF Attached, NextOf, TypeOK
    <3>2. Stamped - read_cursor[r] <= RING_SIZE
      BY <1>i, <3>1, Zenon DEF CleanInv, UnreadInv
    <3>3. write_cursor \in Nat /\ read_cursor[r] \in Nat
      BY <1>i, <3>1, Zenon DEF TypeOK
    <3>4. NextOf[r] = read_cursor[r] /\ Stamped = write_cursor + 1 /\ RING_SIZE \in Nat
      BY <2>1, <3>1, ConstantsAssumption, Zenon
    <3> QED
      BY <3>2, <3>3, <3>4
  <2>3. UNCHANGED <<Attached, NextOf, HandOf>>
    BY <2>1, Zenon DEF Attached, NextOf, HandOf
  <2>4. Queue!Push
    BY <2>1, <2>2, <2>3, Zenon DEF Queue!Push
  <2> QED
    BY <2>4, Zenon DEF Queue!Next
<1>2. CASE ForcePush \/ EvictConnections
  <2>1. UNCHANGED <<write_cursor, pc, read_cursor, frag>> /\ clean' \subseteq clean
    BY <1>2, Zenon DEF ForcePush, EvictConnections
  <2>2. Attached' \subseteq Attached /\ \A x \in Attached' : Same(x)
    BY <2>1, Zenon DEF Attached, Same
  <2> QED
    BY <2>1, <2>2, Withdraws, Zenon
<1>3. CASE \/ LoadConnections \/ LoadSlot \/ CheckBusy \/ WaitDone \/ Abandon \/ EvictScan
           \/ EvictMarks \/ ClaimSlot \/ ClaimFails \/ WriteMsg
  <2>1. UNCHANGED <<write_cursor, pc, read_cursor, frag, clean>>
    BY <1>3, Zenon DEF LoadConnections, LoadSlot, CheckBusy, WaitDone, Abandon, EvictScan,
       EvictMarks, ClaimSlot, ClaimFails, WriteMsg
  <2>2. UNCHANGED <<Attached, NextOf, HandOf>>
    BY <2>1, Zenon DEF Attached, NextOf, HandOf
  <2> QED
    BY <2>1, <2>2, Zenon DEF Queue!vars
<1> QED
  BY <1>1, <1>2, <1>3, Zenon DEF Sender

\* A receiver: the end of adopt_cursor attaches it, the end of the copy hands it
\* the fragment, release_slot acknowledges.
LEMMA ReceiverRefines ==
  ASSUME NoWrap, IInv, IInv', NEW r \in Receivers, Receiver(r)
  PROVE  Queue!Next
<1> USE DEF shared, sender, receiver, Goto
<1>i. TypeOK /\ CleanInv /\ TypeOK' /\ CleanInv' /\ clean \in SUBSET Receivers
  BY Zenon DEF IInv, TypeOK
<1>f. /\ pc \in [Receivers -> ReceiverLabels] /\ read_cursor \in [Receivers -> Nat]
      /\ frag \in [Receivers -> Nat \cup {Torn}]
  BY <1>i, Zenon DEF TypeOK
<1>1. CASE ReadSince(r) \/ ClaimBit(r) \/ set_since(r) \/ AdoptEpoch(r) \/ AdoptCursor(r)
  <2>1. /\ UNCHANGED <<write_cursor, frag>> /\ clean' \subseteq clean \cup {r}
        /\ read_cursor' \in {read_cursor, [read_cursor EXCEPT ![r] = write_cursor]}
    BY <1>1, Zenon DEF ReadSince, ClaimBit, set_since, AdoptEpoch, AdoptCursor, Undisturbed
  <2>2. PICK l \in {"connect", "off", "since", "epoch", "cursor", "walk"} : pc' = [pc EXCEPT ![r] = l]
    BY <1>1, Zenon DEF ReadSince, ClaimBit, set_since, AdoptEpoch, AdoptCursor
  <2>3. \A x \in Receivers : x # r => Same(x) /\ pc'[x] = pc[x]
    BY <1>f, <2>1, <2>2, Zenon DEF Same
  <2>4. pc'[r] = l
    BY <1>f, <2>2, Zenon
  <2>5. r \notin Attached'
    BY <2>4, Zenon DEF Attached, Reading
  <2> QED
    BY <1>i, <2>1, <2>3, <2>5, HiddenStep, Zenon
<1>2. CASE AdoptWalk(r)
  <2>0. /\ UNCHANGED <<write_cursor, frag>> /\ clean' \in {clean, clean \ {r}} /\ pc[r] = "walk"
        /\ read_cursor' \in {read_cursor, [read_cursor EXCEPT ![r] = @ - 1]}
        /\ pc' \in {pc, [pc EXCEPT ![r] = "idle"]}
    BY <1>2, Zenon DEF AdoptWalk
  <2>1. /\ UNCHANGED write_cursor /\ clean' \in {clean, clean \ {r}} /\ pc[r] = "walk"
        /\ \A x \in Receivers : x # r => Same(x) /\ pc'[x] = pc[x]
        /\ read_cursor' \in [Receivers -> Nat]
    <3>1. \A x \in Receivers : x # r => Same(x) /\ pc'[x] = pc[x]
      BY <1>f, <2>0, Zenon DEF Same
    <3> QED
      BY <1>i, <2>0, <3>1, Zenon DEF TypeOK
  <2>2. r \notin Attached
    BY <2>1, Zenon DEF Attached, Reading
  <2>3. CASE r \notin Attached'
    BY <1>i, <2>1, <2>3, HiddenStep, Zenon
  <2>4. CASE r \in Attached'
    <3>1. r \in clean' /\ pc'[r] \in Reading
      BY <2>4, Zenon DEF Attached
    <3>2. pc'[r] # "release" /\ pc'[r] # "walk"
      <4>1. pc'[r] \in {"walk", "idle"}
        BY <1>2, <1>f, Zenon DEF AdoptWalk
      <4> QED
        BY <3>1, <4>1, Zenon DEF Reading
    <3>3. clean' = clean
      BY <2>1, <3>1, Zenon
    <3>4. Attached' = Attached \cup {r}
      <4>1. \A x \in Receivers : x # r => (x \in Attached' <=> x \in Attached)
        BY <2>1, <3>3, Zenon DEF Attached
      <4> QED
        BY <1>i, <2>4, <3>3, <4>1, Zenon DEF Attached
    <3>5. NextOf' = [NextOf EXCEPT ![r] = read_cursor'[r]]
      BY <2>1, <2>2, <3>4, Zenon DEF NextOf, Same
    <3>6. HandOf' = HandOf
      BY <2>1, <2>2, <3>2, <3>4, Zenon DEF HandOf, Same
    <3>7. UnreadInv(r)'
      BY <1>i, <3>1, Zenon DEF CleanInv
    <3>8. /\ read_cursor'[r] <= write_cursor' /\ Stamped' - read_cursor'[r] <= RING_SIZE
          /\ Stamped' \in {write_cursor', write_cursor' + 1}
      BY <3>1, <3>7, Zenon DEF UnreadInv, Stamped
    <3>9. read_cursor'[r] \in Nat /\ write_cursor \in Nat
      BY <1>i, <2>1, Zenon DEF TypeOK
    <3>10. read_cursor'[r] \in write_cursor - RING_SIZE .. write_cursor /\ read_cursor'[r] >= 0
      BY <2>1, <3>8, <3>9, ConstantsAssumption
    <3>11. Queue!Attach(r)
      BY <2>1, <2>2, <3>4, <3>5, <3>6, <3>10, Zenon DEF Queue!Attach
    <3> QED
      BY <3>11, Zenon DEF Queue!Next
  <2> QED
    BY <2>3, <2>4, Zenon
<1>3. CASE ReadBegin(r)
  <2>1. /\ UNCHANGED <<write_cursor, read_cursor, clean>> /\ pc[r] = "idle" /\ pc'[r] = "copy"
        /\ \A x \in Receivers : x # r => Same(x) /\ pc'[x] = pc[x]
    BY <1>3, <1>f, Zenon DEF ReadBegin, Same
  <2>2. Same(r) /\ (r \in Attached' => r \in Attached)
    BY <2>1, Zenon DEF Same, Attached, Reading
  <2> QED
    BY <1>i, <2>1, <2>2, HiddenStep, Zenon
<1>4. CASE ReadEnd(r)
  <2>1. /\ UNCHANGED <<write_cursor, read_cursor, clean>> /\ pc[r] = "copy" /\ pc'[r] = "release"
        /\ \A x \in Receivers : x # r => Same(x) /\ pc'[x] = pc[x]
    BY <1>4, <1>f, Zenon DEF ReadEnd, Same
  <2>2. CASE r \notin clean
    BY <1>i, <2>1, <2>2, HiddenStep, Zenon DEF Attached
  <2>3. CASE r \in clean
    <3>1. UnreadInv(r)'
      BY <1>i, <2>1, <2>3, Zenon DEF CleanInv
    <3>2. read_cursor[r] < write_cursor /\ frag'[r] = read_cursor[r]
      BY <2>1, <3>1, Zenon DEF UnreadInv
    <3>3. Attached' = Attached /\ r \in Attached
      BY <1>i, <2>1, <2>3, Zenon DEF Attached, Reading
    <3>4. NextOf' = NextOf /\ NextOf[r] = read_cursor[r]
      BY <2>1, <3>3, Zenon DEF NextOf
    <3>5. HandOf[r] = Torn
      BY <2>1, Zenon DEF HandOf
    <3>6. HandOf' = [HandOf EXCEPT ![r] = read_cursor[r]]
      BY <2>1, <3>2, <3>3, Zenon DEF HandOf, Same
    <3>7. Queue!Take(r)
      BY <2>1, <3>2, <3>3, <3>4, <3>5, <3>6, Zenon DEF Queue!Take, Queue!Nothing, Torn
    <3> QED
      BY <3>7, Zenon DEF Queue!Next
  <2> QED
    BY <2>2, <2>3, Zenon
<1>5. CASE release_slot(r)
  <2>1. /\ UNCHANGED <<write_cursor, conn_id>> /\ pc[r] = "release" /\ pc'[r] = "idle"
        /\ clean' = Undisturbed(r) /\ read_cursor'[r] = read_cursor[r] + 1
        /\ \A x \in Receivers : x # r => Same(x) /\ pc'[x] = pc[x]
    BY <1>5, <1>f, Zenon DEF release_slot, Same
  <2>2. CASE r \notin clean
    <3>1. clean' \subseteq clean /\ r \notin clean'
      BY <2>1, <2>2, Zenon DEF Undisturbed
    <3> QED
      BY <1>i, <2>1, <3>1, HiddenStep, Zenon DEF Attached
  <2>3. CASE r \in clean
    <3>1. clean' = clean
      BY <1>i, <2>1, <2>3, Zenon DEF CleanInv, BitInv, Undisturbed
    <3>2. Attached' = Attached /\ r \in Attached
      BY <1>i, <2>1, <2>3, <3>1, Zenon DEF Attached, Reading
    <3>3. HandOf[r] = read_cursor[r] /\ NextOf[r] = read_cursor[r] /\ read_cursor[r] \in Nat
      BY <1>i, <1>f, <2>1, <2>3, <3>2, Zenon DEF HandOf, NextOf, CleanInv, UnreadInv
    <3>4. HandOf[r] # Torn
      BY <3>3 DEF Torn
    <3>5. HandOf' = [HandOf EXCEPT ![r] = Torn]
      BY <2>1, <3>2, Zenon DEF HandOf, Same
    <3>6. NextOf' = [NextOf EXCEPT ![r] = @ + 1]
      BY <2>1, <3>2, <3>3, Zenon DEF NextOf, Same
    <3>7. Queue!Ack(r)
      BY <2>1, <3>2, <3>4, <3>5, <3>6, Zenon DEF Queue!Ack, Queue!Nothing, Torn
    <3> QED
      BY <3>7, Zenon DEF Queue!Next
  <2> QED
    BY <2>2, <2>3, Zenon
<1>6. CASE disconnect(r) \/ reap_dead_receiver(r)
  <2>1. /\ UNCHANGED write_cursor /\ clean' = Undisturbed(r) \ {r}
        /\ \A x \in Receivers : x # r => Same(x) /\ pc'[x] = pc[x]
    BY <1>6, <1>f, Zenon DEF disconnect, reap_dead_receiver, Leave, Same
  <2>2. clean' \subseteq clean /\ r \notin Attached'
    BY <2>1, Zenon DEF Undisturbed, Attached
  <2> QED
    BY <1>i, <2>1, <2>2, HiddenStep, Zenon
<1> QED
  BY <1>1, <1>2, <1>3, <1>4, <1>5, <1>6, Zenon DEF Receiver

-----------------------------------------------------------------------------
\* A receiver left in peace is handed every fragment pushed since it attached,
\* whole, once and in order, and push_fragment waits for it: each step of the
\* sender and the receivers is a step of Broadcast or leaves it unchanged, for
\* any number of receivers, bits and slots, while the cursors do not wrap.
THEOREM RouteImplementsQueue ==
  ASSUME NoWrap
  PROVE  Spec => ImplementsQueue
<1>1. Init => IInv
  BY IInvInit, Zenon
<1>2. IInv /\ [Next]_vars => IInv'
  BY IInvStep, Zenon
<1>3. Init => Queue!Init
  <2> SUFFICES ASSUME Init PROVE Queue!Init
    BY Zenon
  <2>1. Attached = {} /\ write_cursor = 0
    BY Zenon DEF Init, Attached
  <2>2. NextOf = [r \in Receivers |-> 0] /\ HandOf = [r \in Receivers |-> Queue!Nothing]
    BY <2>1, Zenon DEF NextOf, HandOf, Torn, Queue!Nothing
  <2> QED
    BY <2>1, <2>2, Zenon DEF Queue!Init
<1>4. IInv /\ IInv' /\ [Next]_vars => [Queue!Next]_Queue!vars
  <2> SUFFICES ASSUME IInv, IInv', [Next]_vars PROVE [Queue!Next]_Queue!vars
    BY Zenon
  <2>1. CASE Sender
    BY <2>1, SenderRefines, Zenon
  <2>2. ASSUME NEW r \in Receivers, Receiver(r) PROVE Queue!Next
    BY <2>2, ReceiverRefines, Zenon
  <2>3. CASE UNCHANGED vars
    BY <2>3, Zenon DEF vars, shared, receiver, Queue!vars, Attached, NextOf, HandOf
  <2> QED
    BY <2>1, <2>2, <2>3, Zenon DEF Next
<1> QED
  BY <1>1, <1>2, <1>3, <1>4, PTL DEF Spec, ImplementsQueue, Queue!Spec

-----------------------------------------------------------------------------
(* Registry *)

Entry == [name : RegNames \cup {""}, pid : RegPids \cup {0}, life : Nat]

\* A call that takes a name has one; the table has a record in each slot.
RegTypes ==
  /\ call.op \in {"register", "unregister", "find"} => call.name \in RegNames
  /\ entries \in [RegSlots -> Entry]
  /\ reg_life \in [RegPids -> Nat] /\ births \in Nat
  /\ spinlock \in RegPids \cup {0}

RegInv == RegTypes /\ RegUnique

\* Until a pid is used again, an entry whose pid is in use is the entry of the
\* process that uses it.
Registered ==
  ~reuse => \A i \in RegSlots : is_alive(entries[i]) => reg_life[entries[i].pid] = entries[i].life

-----------------------------------------------------------------------------
LEMMA Successor == \A k \in Nat : k + 1 \in Nat
OBVIOUS

\* Of a name that is taken there is one slot.
LEMMA NamedIsOne ==
  ASSUME RegUnique, NEW n, n # "", NEW k \in Named(n)
  PROVE  Named(n) = {k}
BY Zenon DEF Named, RegUnique, active

\* Emptying slots makes no name appear twice.
LEMMA CleaningIsSafe ==
  ASSUME RegUnique, \A i \in RegSlots : entries'[i] \in {entries[i], EmptyEntry}
  PROVE  RegUnique'
<1>1. SUFFICES ASSUME NEW i \in RegSlots, NEW j \in RegSlots, entries'[i].name # "",
                      entries'[i].name = entries'[j].name
               PROVE  i = j
  BY DEF RegUnique, active
<1>2. EmptyEntry.name = ""
  BY DEF EmptyEntry
<1>3. entries'[i] = entries[i] /\ entries'[j] = entries[j]
  BY <1>1, <1>2, Zenon
<1> QED
  BY <1>1, <1>3, Zenon DEF RegUnique, active

\* A process that writes its name over a slot nobody else has under that name
\* makes no name appear twice.
LEMMA FillingIsSafe ==
  ASSUME RegUnique, RegTypes, NEW k \in RegSlots, NEW n \in RegNames, NEW p \in RegPids,
         \A i \in RegSlots : entries[i].name = n => i = k,
         entries' = fill_entry(k, n, p)
  PROVE  RegUnique'
<1>1. entries'[k].name = n
  BY Zenon DEF fill_entry, RegTypes
<1>2. \A i \in RegSlots : i # k => entries'[i] = entries[i]
  BY Zenon DEF fill_entry, RegTypes
<1> QED
  <2>1. SUFFICES ASSUME NEW i \in RegSlots, NEW j \in RegSlots, entries'[i].name # "",
                        entries'[i].name = entries'[j].name
                 PROVE  i = j
    BY DEF RegUnique, active
  <2>2. CASE i = k \/ j = k
    BY <1>1, <1>2, <2>1, <2>2, Zenon
  <2>3. CASE i # k /\ j # k
    <3>1. entries'[i] = entries[i] /\ entries'[j] = entries[j]
      BY <1>2, <2>3, Zenon
    <3>2. active(entries[i]) /\ entries[i].name = entries[j].name
      BY <2>1, <3>1, Zenon DEF active
    <3> QED
      BY <3>2, Zenon DEF RegUnique
  <2> QED
    BY <2>2, <2>3

LEMMA FilledEntry ==
  ASSUME RegTypes, NEW k \in RegSlots, NEW n \in RegNames, NEW p \in RegPids
  PROVE  fill_entry(k, n, p) \in [RegSlots -> Entry]
<1>1. [name |-> n, pid |-> p, life |-> reg_life[p]] \in Entry
  BY Zenon DEF Entry, RegTypes
<1> QED
  BY <1>1, Zenon DEF fill_entry, RegTypes

LEMMA RegInvInit ==
  ASSUME RegInit PROVE RegInv
<1>1. EmptyEntry \in Entry
  BY DEF EmptyEntry, Entry
<1>2. RegTypes
  BY <1>1, Zenon DEF RegInit, RegTypes, RegIdle
<1>3. RegUnique
  BY Zenon DEF RegInit, RegUnique, EmptyEntry, active
<1> QED
  BY <1>2, <1>3 DEF RegInv

LEMMA RegInvStep ==
  ASSUME "" \notin RegNames, MaxBirths \in Nat, RegInv, [RegNext]_reg_vars
  PROVE  RegInv'
<1>a. RegTypes /\ RegUnique
  BY DEF RegInv
<1>b. EmptyEntry \in Entry
  BY DEF EmptyEntry, Entry
<1>1. ASSUME NEW p \in RegPids, RegStart(p) \/ RegExit(p) \/ RegLock(p) PROVE RegInv'
  <2>1. UNCHANGED entries
    BY <1>1 DEF RegStart, RegExit, RegLock
  <2>2. RegUnique'
    BY <1>a, <2>1 DEF RegUnique, active
  <2>3. RegTypes'
    <3>1. CASE RegStart(p)
      <4>1. births' \in Nat
        <5>1. births \in Nat /\ births' = births + 1
          BY <1>a, <3>1, Zenon DEF RegStart, RegTypes
        <5> QED
          BY <5>1, Successor, Zenon
      <4> QED
        BY <1>a, <3>1, <4>1, Zenon DEF RegStart, RegTypes
    <3>2. CASE RegExit(p)
      BY <1>a, <3>2, Zenon DEF RegExit, RegTypes
    <3>3. CASE RegLock(p)
      <4>1. call'.op \in {"register", "unregister", "find"} => call'.name \in RegNames
        <5>1. CASE call' \in [op : {"register", "unregister", "find"}, name : RegNames]
          BY <5>1, Zenon
        <5>2. CASE call' \in [op : {"list", "clear"}, name : {""}]
          <6>1. call'.op \in {"list", "clear"}
            BY <5>2, Zenon
          <6> QED
            BY <6>1
        <5> QED
          BY <3>3, <5>1, <5>2, Zenon DEF RegLock
      <4> QED
        BY <1>a, <3>3, <4>1, Zenon DEF RegLock, RegTypes
    <3> QED
      BY <1>1, <3>1, <3>2, <3>3
  <2> QED
    BY <2>2, <2>3 DEF RegInv
<1>2. ASSUME NEW p \in RegPids, Unregister(p) \/ Find(p) \/ List(p) \/ RegClear(p)
      PROVE  RegInv'
  <2>1. /\ entries' \in [RegSlots -> Entry]
        /\ \A i \in RegSlots : entries'[i] \in {entries[i], EmptyEntry}
    BY <1>2, <1>a, <1>b, Zenon DEF Unregister, Find, List, RegClear, RegTypes
  <2>2. /\ UNCHANGED <<reg_life, births>> /\ spinlock' = 0 /\ call' = RegIdle
    BY <1>2 DEF Unregister, Find, List, RegClear, RegReturn
  <2>3. RegTypes'
    BY <1>a, <2>1, <2>2, Zenon DEF RegTypes, RegIdle
  <2>4. RegUnique'
    BY <1>a, <2>1, CleaningIsSafe, Zenon
  <2> QED
    BY <2>3, <2>4 DEF RegInv
<1>3. ASSUME NEW p \in RegPids, Register(p) PROVE RegInv'
  <2>0. call.name \in RegNames /\ call.name # ""
    BY <1>3, <1>a DEF Register, RegTypes
  <2>1. UNCHANGED <<reg_life, births>> /\ spinlock' = 0 /\ call' = RegIdle
    BY <1>3 DEF Register, RegReturn
  <2>2. CASE entries' = entries
    BY <1>a, <2>1, <2>2, Zenon DEF RegInv, RegTypes, RegIdle, RegUnique, active
  <2>3. CASE \E k \in Named(call.name) : entries' = fill_entry(k, call.name, p)
    <3>0. PICK k \in Named(call.name) : entries' = fill_entry(k, call.name, p)
      BY <2>3
    <3>1. \A i \in RegSlots : entries[i].name = call.name => i = k
      <4>1. Named(call.name) = {k}
        BY <1>a, <2>0, NamedIsOne, Zenon
      <4> QED
        BY <4>1, Zenon DEF Named
    <3>2. k \in RegSlots
      BY Zenon DEF Named
    <3> QED
      BY <1>a, <2>0, <2>1, <3>0, <3>1, <3>2, FilledEntry, FillingIsSafe, Zenon DEF RegInv, RegTypes, RegIdle
  <2>4. CASE Named(call.name) = {} /\ \E k \in Usable : entries' = fill_entry(k, call.name, p)
    <3>0. PICK k \in Usable : entries' = fill_entry(k, call.name, p)
      BY <2>4
    <3>1. \A i \in RegSlots : entries[i].name # call.name
      BY <2>4 DEF Named
    <3>2. k \in RegSlots
      BY Zenon DEF Usable
    <3> QED
      BY <1>a, <2>0, <2>1, <3>0, <3>1, <3>2, FilledEntry, FillingIsSafe, Zenon DEF RegInv, RegTypes, RegIdle
  <2> QED
    <3>1. CASE Named(call.name) # {}
      BY <1>3, <2>2, <2>3, <3>1, Zenon DEF Register, First
    <3>2. CASE Named(call.name) = {}
      BY <1>3, <2>2, <2>4, <3>2, Zenon DEF Register, First
    <3> QED
      BY <3>1, <3>2
<1>4. CASE UNCHANGED reg_vars
  BY <1>4, <1>a, Zenon DEF reg_vars, RegInv, RegTypes, RegUnique, active
<1> QED
  BY <1>1, <1>2, <1>3, <1>4, Zenon DEF RegNext, RegDone

\* The steps that may take the entry of a live process.
LEMMA KeptStep ==
  ASSUME RegInv, [RegNext]_reg_vars
  PROVE  Kept \/ UNCHANGED reg_vars
<1>a. RegTypes /\ RegUnique
  BY DEF RegInv
<1> SUFFICES ASSUME NEW i \in RegSlots, active(entries[i]), is_alive(entries[i]), entries'[i] # entries[i]
             PROVE  call.op = "clear" \/ (call.op = "unregister" /\ spinlock = entries[i].pid)
  BY DEF Kept
<1>1. PICK p \in RegPids : Register(p) \/ Unregister(p) \/ Find(p) \/ List(p) \/ RegClear(p)
  BY Zenon DEF RegNext, RegDone, reg_vars, RegStart, RegExit, RegLock
<1>2. CASE Register(p)
  <2>1. \A k \in RegSlots : \A n, q : entries' = fill_entry(k, n, q) /\ k # i => entries'[i] = entries[i]
    BY <1>a, Zenon DEF fill_entry, RegTypes
  <2>2. ASSUME NEW k \in Named(call.name), ~is_alive(entries[k]),
               entries' = fill_entry(k, call.name, p)
        PROVE  FALSE
    BY <2>1, <2>2, Zenon DEF Named
  <2>3. ASSUME NEW k \in Usable, entries' = fill_entry(k, call.name, p)
        PROVE  FALSE
    BY <2>1, <2>3, Zenon DEF Usable
  <2> QED
    BY <1>2, <2>2, <2>3, Zenon DEF Register, First
<1>3. CASE Unregister(p)
  <2>1. PICK k : k \in {j \in Named(call.name) : entries[j].pid = p} /\ entries' = [entries EXCEPT ![k] = EmptyEntry]
    BY <1>3, Zenon DEF Unregister, First
  <2>2. k = i
    BY <1>a, <2>1, Zenon DEF RegTypes, Named
  <2> QED
    BY <1>3, <2>1, <2>2, Zenon DEF Unregister, RegReturn
<1>4. CASE Find(p)
  BY <1>4, Zenon DEF Find
<1>5. CASE List(p)
  BY <1>5, Zenon DEF List
<1>6. CASE RegClear(p)
  BY <1>6 DEF RegClear
<1> QED
  BY <1>1, <1>2, <1>3, <1>4, <1>5, <1>6

\* Whatever a call under the lock leaves in a slot is what was there, nothing,
\* or the caller's own entry.
LEMMA SlotAfterCall ==
  ASSUME RegInv, NEW p \in RegPids,
         Register(p) \/ Unregister(p) \/ Find(p) \/ List(p) \/ RegClear(p), NEW i \in RegSlots
  PROVE  entries'[i] \in {entries[i], EmptyEntry} \/ (entries'[i].pid = p /\ entries'[i].life = reg_life[p])
<1>a. RegTypes
  BY DEF RegInv
<1>1. CASE Register(p)
  <2>1. \A k : \A n : entries' = fill_entry(k, n, p)
                     => entries'[i] = entries[i] \/ (entries'[i].pid = p /\ entries'[i].life = reg_life[p])
    <3>1. SUFFICES ASSUME NEW k, NEW n, entries' = fill_entry(k, n, p)
                   PROVE  entries'[i] = entries[i] \/ (entries'[i].pid = p /\ entries'[i].life = reg_life[p])
      OBVIOUS
    <3>2. CASE k = i
      BY <1>a, <3>1, <3>2, Zenon DEF fill_entry, RegTypes
    <3>3. CASE k # i
      BY <1>a, <3>1, <3>3, Zenon DEF fill_entry, RegTypes
    <3> QED
      BY <3>2, <3>3
  <2>2. entries' = entries \/ \E k : \E n : entries' = fill_entry(k, n, p)
    BY <1>1, Zenon DEF Register
  <2> QED
    BY <2>1, <2>2, Zenon
<1>2. CASE Unregister(p)
  BY <1>a, <1>2, Zenon DEF Unregister, RegTypes
<1>3. CASE Find(p) \/ List(p) \/ RegClear(p)
  BY <1>3, Zenon DEF Find, List, RegClear
<1> QED
  BY <1>1, <1>2, <1>3

LEMMA RegisteredStep ==
  ASSUME RegInv, Registered, [RegNext]_reg_vars
  PROVE  Registered'
<1>a. RegTypes
  BY DEF RegInv
<1>b. EmptyEntry.pid = 0
  BY DEF EmptyEntry
<1>c. \A i \in RegSlots : entries[i].pid # 0 => entries[i].pid \in RegPids
  BY <1>a DEF RegTypes, Entry
<1>1. ASSUME NEW p \in RegPids, RegStart(p) PROVE Registered'
  <2>1. /\ entries' = entries /\ reuse' = (reuse \/ \E i \in RegSlots : entries[i].pid = p)
        /\ \A q \in RegPids : q # p => reg_life'[q] = reg_life[q]
    BY <1>1, <1>a, Zenon DEF RegStart, RegTypes
  <2> QED
    BY <1>c, <2>1, Zenon DEF Registered, is_alive
<1>2. ASSUME NEW p \in RegPids, RegExit(p) PROVE Registered'
  <2>1. /\ entries' = entries /\ reuse' = reuse /\ reg_life'[p] = 0
        /\ \A q \in RegPids : q # p => reg_life'[q] = reg_life[q]
    BY <1>2, <1>a, Zenon DEF RegExit, RegTypes
  <2> QED
    BY <1>c, <2>1, Zenon DEF Registered, is_alive
<1>3. ASSUME NEW p \in RegPids, RegLock(p) PROVE Registered'
  BY <1>3, Zenon DEF RegLock, Registered, is_alive
<1>4. ASSUME NEW p \in RegPids, Register(p) \/ Unregister(p) \/ Find(p) \/ List(p) \/ RegClear(p)
      PROVE  Registered'
  <2>1. reg_life' = reg_life /\ reuse' = reuse
    BY <1>4, Zenon DEF Register, Unregister, Find, List, RegClear
  <2>2. \A i \in RegSlots : \/ entries'[i] \in {entries[i], EmptyEntry}
                            \/ entries'[i].pid = p /\ entries'[i].life = reg_life[p]
    BY <1>4, SlotAfterCall, Zenon
  <2> QED
    BY <1>b, <2>1, <2>2, Zenon DEF Registered, is_alive
<1>5. CASE UNCHANGED reg_vars
  BY <1>5, Zenon DEF reg_vars, Registered, is_alive
<1> QED
  BY <1>1, <1>2, <1>3, <1>4, <1>5, Zenon DEF RegNext, RegDone

\* Find is the one step that returns an entry, and it returns a live one.
LEMMA HonestStep ==
  ASSUME RegInv, Registered, [RegNext]_reg_vars
  PROVE  Honest \/ UNCHANGED reg_vars
<1> SUFFICES ASSUME ~reuse, found' # EmptyEntry, found' # found
             PROVE  reg_life[found'.pid] = found'.life
  BY DEF Honest
<1>1. PICK p \in RegPids : Find(p)
  BY Zenon DEF RegNext, RegDone, reg_vars, RegStart, RegExit, RegLock, Register, Unregister, List, RegClear
<1> DEFINE running == {i \in Named(call.name) : is_alive(entries[i])}
<1>2. PICK f \in running : found' = entries[f]
  BY <1>1, Zenon DEF Find, First
<1>3. running \in SUBSET RegSlots
  BY Zenon DEF Named
<1> QED
  BY <1>2, <1>3, Zenon DEF Registered

-----------------------------------------------------------------------------
\* register, unregister, find, list and clear never leave a name in two slots,
\* whichever processes call them and die between the calls.
THEOREM RegistryUnique ==
  ASSUME "" \notin RegNames, MaxBirths \in Nat
  PROVE  RegSpec => []RegUnique
<1>1. RegInit => RegInv
  BY RegInvInit
<1>2. RegInv /\ [RegNext]_reg_vars => RegInv'
  BY RegInvStep
<1>3. RegInv => RegUnique
  BY DEF RegInv
<1> QED
  BY <1>1, <1>2, <1>3, PTL DEF RegSpec

\* The entry of a live process goes only by its own unregister or a clear, and
\* find returns the live process that registered the name unless a pid was
\* used again.
THEOREM RegistryKept ==
  ASSUME "" \notin RegNames, MaxBirths \in Nat
  PROVE  RegSpec => RegKept
<1>1. RegInit => RegInv /\ Registered
  <2>1. RegInit => Registered
    <3>1. EmptyEntry.pid = 0
      BY DEF EmptyEntry
    <3> QED
      BY <3>1, Zenon DEF RegInit, Registered, is_alive
  <2> QED
    BY <2>1, RegInvInit
<1>2. RegInv /\ Registered /\ [RegNext]_reg_vars => RegInv' /\ Registered'
  BY RegInvStep, RegisteredStep
<1>3. RegInv /\ Registered /\ [RegNext]_reg_vars => [Kept /\ Honest]_reg_vars
  BY KeptStep, HonestStep
<1> QED
  BY <1>1, <1>2, <1>3, PTL DEF RegSpec, RegKept
=============================================================================
