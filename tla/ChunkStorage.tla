---------------------------- MODULE ChunkStorage ----------------------------
(***************************************************************************)
(* The chunk storage of large messages: a free list of chunk ids under a   *)
(* spin lock, a set of readers on each chunk, and the last of them giving  *)
(* the id back (chunk_storage.rs).  Senders are C++ (ipc.cpp, send and     *)
(* try_send), receivers Rust.  A sender stamps a chunk with the receivers  *)
(* connected when its send began and pushes the id to the ones connected   *)
(* when it pushes.  A push that fails gives the chunk back; a forced one   *)
(* evicts the late readers of its slot and gives the slot's chunk back.    *)
(***************************************************************************)
EXTENDS Integers, FiniteSets

CONSTANTS
  Senders, Receivers,
  MAX_COUNT,     \* chunks of one size
  NSlots,        \* slots of the ring, 256 in the code
  MaxStore       \* bound: large messages stored

VARIABLES
  next, cursor, prepared,   \* id_pool
  lock,                     \* who holds chunk_info_t's lock, or None
  conns,                    \* readers each chunk still waits for
  data,                     \* message each chunk holds
  up,                       \* connected receivers
  s, r,                     \* senders and receivers
  ring,                     \* ct: the position to claim next; ep: the epoch; e: of
                            \* each slot the position published, its id and message,
                            \* the unread marks and their epoch
  stored,                   \* messages stored
  odd                       \* ghost: a receiver joined late, or a push was forced

vars == <<next, cursor, prepared, lock, conns, data, up, s, r, ring, stored, odd>>
pool == <<next, cursor, prepared>>
chunks == <<conns, data>>

Ids == 0 .. MAX_COUNT - 1
None == "none"
IdleS == [pc |-> "idle", id |-> 0, to |-> {}, m |-> 0, old |-> 0, pos |-> 0]
NoId == -1
NoSlot == [pos |-> 0, id |-> NoId, m |-> 0, left |-> {}, ep |-> 0]

\* A new segment reads as zeros.
Init == /\ next = [i \in Ids |-> 0] /\ cursor = 0 /\ prepared = FALSE /\ lock = None
        /\ conns = [i \in Ids |-> {}] /\ data = [i \in Ids |-> 0] /\ up = {}
        /\ s = [x \in Senders |-> IdleS]
        /\ r = [y \in Receivers |-> [pc |-> "new", rd |-> 0, id |-> 0, m |-> 0, cur |-> {}]]
        /\ ring = [ct |-> 1, ep |-> 0, e |-> [i \in 0 .. NSlots - 1 |-> NoSlot]]
        /\ stored = 0 /\ odd = FALSE

\* chunk_lock and chunk_unlock: a test-and-set spin.
ChunkLock(x) == lock = None /\ lock' = x

\* ChanInner::open: a bit, and the first element addressed to it.
Connect(y) ==
  /\ r[y].pc = "new" /\ up' = up \cup {y}
  /\ r' = [r EXCEPT ![y].pc = "idle", ![y].rd = ring.ct]
  /\ UNCHANGED <<pool, lock, chunks, s, ring, stored, odd>>

-----------------------------------------------------------------------------
(* Senders. *)

\* send loads the connections before it stores the message; none is an error.
StartSend(x) ==
  /\ s[x].pc = "idle" /\ up # {} /\ stored < MaxStore
  /\ stored' = stored + 1
  /\ s' = [s EXCEPT ![x] = [IdleS EXCEPT !.pc = "lock", !.to = up, !.m = stored']]
  /\ UNCHANGED <<pool, lock, chunks, up, r, ring, odd>>

LockPool(x) ==
  /\ s[x].pc = "lock" /\ ChunkLock(x)
  /\ s' = [s EXCEPT ![x].pc = "pool"]
  /\ UNCHANGED <<pool, chunks, up, r, ring, stored, odd>>

\* prepare: an all-zero pool is fresh.
Prepared == IF ~prepared /\ cursor = 0 /\ \A i \in Ids : next[i] = 0
            THEN [i \in Ids |-> i + 1] ELSE next

\* acquire_storage, under the lock: take the head of the free list; without
\* one the message goes in fragments.
Acquire(x) ==
  /\ s[x].pc = "pool" /\ lock' = None /\ prepared' = TRUE /\ next' = Prepared
  /\ IF cursor >= MAX_COUNT
     THEN s' = [s EXCEPT ![x] = IdleS] /\ UNCHANGED cursor
     ELSE /\ cursor' = next'[cursor]
          /\ s' = [s EXCEPT ![x].pc = "stamp", ![x].id = cursor]
  /\ UNCHANGED <<chunks, up, r, ring, stored, odd>>

\* acquire_storage after the lock: stamp the readers; the caller fills the payload.
Stamp(x) ==
  /\ s[x].pc = "stamp"
  /\ conns' = [conns EXCEPT ![s[x].id] = s[x].to]
  /\ data' = [data EXCEPT ![s[x].id] = s[x].m]
  /\ s' = [s EXCEPT ![x].pc = "push"]
  /\ UNCHANGED <<pool, lock, up, r, ring, stored, odd>>

Slot(n) == n % NSlots
HeldUp == ring.e[Slot(ring.ct)].left \cap up      \* who holds the next slot up

\* Marks of an epoch before the last forced push hold no push up.
Full == HeldUp # {} /\ ring.e[Slot(ring.ct)].ep = ring.ep

\* The push of the one slot that carries the id, to who is connected by then.
Push(x) ==
  /\ s[x].pc = "push" /\ up # {} /\ ~Full
  /\ ring' = [ring EXCEPT !.ct = @ + 1, !.e[Slot(ring.ct)] =
                [pos |-> ring.ct, id |-> s[x].id, m |-> s[x].m, left |-> up, ep |-> ring.ep]]
  /\ odd' = (odd \/ up # s[x].to)
  /\ s' = [s EXCEPT ![x] = IdleS]
  /\ UNCHANGED <<pool, lock, chunks, up, r, stored>>

\* No room, or no receiver: try_send gives up, send forces when its time is up.
PushTimesOut(x) ==
  /\ s[x].pc = "push" /\ (up = {} \/ Full)
  /\ \E pc \in {"give", "force"} : s' = [s EXCEPT ![x].pc = pc]
  /\ UNCHANGED <<pool, lock, chunks, up, r, ring, stored, odd>>

\* force_push: start an epoch, disconnect who still holds the slot up, and
\* claim it, though it may have become free since; false without receivers.
\* clear_message then frees the chunk the slot refers to, if any.
ForcePush(x) ==
  LET i == Slot(ring.ct) left == up \ HeldUp
  IN /\ s[x].pc = "force"
     /\ up' = left /\ odd' = TRUE
     /\ IF left = {} THEN s' = [s EXCEPT ![x].pc = "give"] /\ ring' = [ring EXCEPT !.ep = @ + 1]
        ELSE /\ ring' = [ring EXCEPT !.ct = @ + 1, !.ep = @ + 1,
                           !.e[i] = [@ EXCEPT !.pos = 0, !.left = left, !.ep = ring.ep + 1]]
             /\ s' = [s EXCEPT ![x] = [@ EXCEPT !.old = ring.e[i].id, !.pos = ring.ct,
                         !.pc = IF ring.e[i].id = NoId THEN "write" ELSE "clear"]]
     /\ UNCHANGED <<pool, lock, chunks, r, stored>>

\* release_storage, of the chunk that was not pushed or of the one in the
\* overwritten slot.
LockGive(x) ==
  /\ s[x].pc \in {"give", "clear"} /\ ChunkLock(x)
  /\ s' = [s EXCEPT ![x].pc = IF @ = "give" THEN "given" ELSE "cleared"]
  /\ UNCHANGED <<pool, chunks, up, r, ring, stored, odd>>

\* release: push the id on the free list.
Freed(id) == next' = [next EXCEPT ![id] = cursor] /\ cursor' = id /\ UNCHANGED prepared

\* Seeded fault: the chunk of a push that failed is forgotten.
GiveBack_Not(x) ==
  /\ s[x].pc \in {"given", "cleared"} /\ lock' = None
  /\ s' = [s EXCEPT ![x] = IF @.pc = "given" THEN IdleS ELSE [@ EXCEPT !.pc = "write"]]
  /\ UNCHANGED <<pool, chunks, up, r, ring, stored, odd>>

GiveBack(x) ==
  /\ s[x].pc \in {"given", "cleared"} /\ lock' = None
  /\ Freed(IF s[x].pc = "given" THEN s[x].id ELSE s[x].old)
  /\ s' = [s EXCEPT ![x] = IF @.pc = "given" THEN IdleS ELSE [@ EXCEPT !.pc = "write"]]
  /\ UNCHANGED <<chunks, up, r, ring, stored, odd>>

\* Then force_push writes the slot and publishes it.
ForcedWrite(x) ==
  LET i == Slot(s[x].pos)
  IN /\ s[x].pc = "write"
     /\ ring' = [ring EXCEPT !.e[i] = [@ EXCEPT !.pos = s[x].pos, !.id = s[x].id, !.m = s[x].m]]
     /\ s' = [s EXCEPT ![x] = IdleS]
     /\ UNCHANGED <<pool, lock, chunks, up, r, stored, odd>>

-----------------------------------------------------------------------------
(* Receivers. *)

\* recv: read the slot, take the mark off it; then find_storage and the copy
\* of the payload.
Find(y) ==
  LET i == Slot(r[y].rd)
  IN /\ r[y].pc = "idle" /\ ring.e[i].pos = r[y].rd
     /\ ring' = [ring EXCEPT !.e[i].left = @ \ {y}]
     /\ r' = [r EXCEPT ![y] = [@ EXCEPT !.pc = "load", !.rd = @ + 1,
                                        !.id = ring.e[i].id, !.m = ring.e[i].m]]
     /\ UNCHANGED <<pool, lock, chunks, up, s, stored, odd>>

\* recycle_storage: load the readers,
LoadConns(y) ==
  /\ r[y].pc = "load" /\ r' = [r EXCEPT ![y].pc = "cas", ![y].cur = conns[r[y].id]]
  /\ UNCHANGED <<pool, lock, chunks, up, s, ring, stored, odd>>

Idle(y) == r' = [r EXCEPT ![y] = [@ EXCEPT !.pc = "idle", !.id = 0, !.m = 0, !.cur = {}]]

\* Seeded fault: every reader gives the id back, not the last one.
CasConns_Any(y) ==
  /\ r[y].pc = "cas" /\ conns[r[y].id] = r[y].cur
  /\ conns' = [conns EXCEPT ![r[y].id] = @ \ {y}]
  /\ r' = [r EXCEPT ![y].pc = "lock"]
  /\ UNCHANGED <<pool, lock, data, up, s, ring, stored, odd>>

\* take ourselves out, and the last one (nxt == 0) gives the id back.
CasConns(y) ==
  LET nxt == r[y].cur \ {y}
  IN /\ r[y].pc = "cas"
     /\ IF conns[r[y].id] = r[y].cur
        THEN /\ conns' = [conns EXCEPT ![r[y].id] = nxt]
             /\ IF nxt = {} THEN r' = [r EXCEPT ![y].pc = "lock"] ELSE Idle(y)
        ELSE r' = [r EXCEPT ![y].pc = "load"] /\ UNCHANGED conns
     /\ UNCHANGED <<pool, lock, data, up, s, ring, stored, odd>>

LockRelease(y) ==
  /\ r[y].pc = "lock" /\ ChunkLock(y)
  /\ r' = [r EXCEPT ![y].pc = "free"]
  /\ UNCHANGED <<pool, chunks, up, s, ring, stored, odd>>

\* Seeded fault: the released chunk does not link to the rest of the list.
Release_Unlinked(y) ==
  /\ r[y].pc = "free" /\ lock' = None
  /\ cursor' = r[y].id /\ Idle(y)
  /\ UNCHANGED <<next, prepared, chunks, up, s, ring, stored, odd>>

Release(y) ==
  /\ r[y].pc = "free" /\ lock' = None /\ Freed(r[y].id) /\ Idle(y)
  /\ UNCHANGED <<chunks, up, s, ring, stored, odd>>

\* All stored, all read: nothing is left to do.
Done == /\ stored = MaxStore \/ up = {}
        /\ \A x \in Senders : s[x].pc = "idle"
        /\ \A y \in Receivers : r[y].pc = "idle" /\ ring.e[Slot(r[y].rd)].pos # r[y].rd
        /\ UNCHANGED vars

Next == \/ \E x \in Senders : \/ StartSend(x) \/ LockPool(x) \/ Acquire(x) \/ Stamp(x)
                              \/ Push(x) \/ PushTimesOut(x) \/ ForcePush(x)
                              \/ LockGive(x) \/ GiveBack(x) \/ ForcedWrite(x)
        \/ \E y \in Receivers : \/ Connect(y) \/ Find(y) \/ LoadConns(y) \/ CasConns(y)
                                \/ LockRelease(y) \/ Release(y)
        \/ Done

Spec == Init /\ [][Next]_vars

-----------------------------------------------------------------------------
\* The free list from c on, at most n links.
FreeFrom[c \in 0 .. MAX_COUNT, n \in 0 .. MAX_COUNT] ==
  IF c = MAX_COUNT \/ n = 0 THEN {} ELSE {c} \cup FreeFrom[next[c], n - 1]

Free == IF prepared THEN FreeFrom[cursor, MAX_COUNT] ELSE Ids

\* Chunks a sender has, a receiver has still to read, reads or is giving back.
InUse == {s[x].id : x \in {x \in Senders : s[x].pc \notin {"idle", "lock", "pool"}}}
         \cup {e.id : e \in {e \in {ring.e[i] : i \in DOMAIN ring.e} : e.pos # 0 /\ e.left # {}}}
         \cup {r[y].id : y \in {y \in Receivers : r[y].pc \notin {"new", "idle"}}}

\* A chunk is free or in use and never both: none is handed out while a sender
\* fills it or a receiver has it to read, the list never runs into itself, and
\* none leaks, that of a push which failed neither.  Left out are behaviours in
\* which a receiver joined between the stamp and the push, which then reads a
\* chunk that does not wait for it, or a push was forced: force_push frees the
\* slot's chunk though its readers may have done so or be at it still, and a
\* receiver it evicts reads on.
ChunksApart == ~odd => Free \cap InUse = {} /\ Free \cup InUse = Ids

\* With the same exceptions, a receiver finds in the chunk the message it was
\* sent, though the chunk is used again as soon as its last reader is out.
ChunkIntact ==
  ~odd => \A y \in Receivers :
            /\ \A i \in DOMAIN ring.e : LET e == ring.e[i]
                                        IN y \in e.left => data[e.id] = e.m
            /\ r[y].pc \in {"load", "cas"} => data[r[y].id] = r[y].m
=============================================================================
