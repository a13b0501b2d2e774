---------------------------- MODULE BoundedBuffer ----------------------------
(***************************************************************************)
(* demo_bounded_buffer.rs: producers and a consumer share a ring in a      *)
(* segment through a named mutex and two counting semaphores (LinuxSync    *)
(* and Semaphore say what those do).  Every process sets the cursors to    *)
(* zero if it is the segment's only user when it opens it.  The segment    *)
(* and the two semaphores are opened one after the other and each counts   *)
(* its own users.                                                          *)
(***************************************************************************)
EXTENDS Integers, Sequences, FiniteSets

CONSTANTS
  Producers,
  CAP,
  count        \* items each producer sends

VARIABLES
  users,                         \* [object -> processes counted in]
  head, tail, slot,              \* the segment
  mutex,                         \* its holder, or None
  empty, full,                   \* the semaphores
  p,                             \* processes: pc, item, slot index
  log, got,                      \* ghosts: items in the order of their slots, items drained
  raced,                         \* ghost: a cursor zeroed after it was used
  stale                          \* ghost: a fresh `empty` beside a ring with items in it

vars == <<users, head, tail, slot, mutex, empty, full, p, log, got, raced, stale>>

None == "none"
Consumer == "consumer"
Procs == Producers \cup {Consumer}
Quota(x) == IF x = Consumer THEN count * Cardinality(Producers) ELSE count

Init == /\ users = [o \in {"ring", "empty", "full"} |-> {}] /\ head = 0 /\ tail = 0 /\ slot = [i \in 0 .. CAP - 1 |-> <<>>]
        /\ mutex = None /\ empty = CAP /\ full = 0
        /\ p = [x \in Procs |-> [pc |-> "ring", k |-> 0, idx |-> 0]]
        /\ log = <<>> /\ got = <<>> /\ raced = FALSE /\ stale = FALSE

Go(x, pc) == p' = [p EXCEPT ![x].pc = pc]

CountIn(o, x) == users' = [users EXCEPT ![o] = @ \cup {x}]
CountOut(o, x) == users' = [users EXCEPT ![o] = @ \ {x}]
Last(o, x) == users[o] = {x}

\* Ring::open: count ourselves in (ShmHandle::acquire), then look at the count.
Open(x) ==
  /\ p[x].pc = "ring" /\ CountIn("ring", x) /\ Go(x, "look")
  /\ UNCHANGED <<head, tail, slot, mutex, empty, full, log, got, raced, stale>>

RefCount(x) ==
  /\ p[x].pc = "look" /\ Go(x, IF Last("ring", x) THEN "zero" ELSE "empty")
  /\ UNCHANGED <<users, head, tail, slot, mutex, empty, full, log, got, raced, stale>>

\* The only user zeroes the cursors; a process that has opened the segment
\* meanwhile does not wait for it.
Zero(x) ==
  /\ p[x].pc = "zero" /\ head' = 0 /\ tail' = 0 /\ Go(x, "empty")
  /\ raced' = (raced \/ head # 0 \/ tail # 0)
  /\ UNCHANGED <<users, slot, mutex, empty, full, log, got, stale>>

\* IpcSemaphore::open of `empty`, then of `full`.
OpenSem(x) ==
  /\ p[x].pc \in {"empty", "full"} /\ CountIn(p[x].pc, x)
  /\ Go(x, IF p[x].pc = "empty" THEN "full" ELSE "wait")
  /\ UNCHANGED <<head, tail, slot, mutex, empty, full, log, got, raced, stale>>

\* empty.wait in a producer, full.wait in the consumer.
WaitEmpty(x) ==
  /\ x # Consumer /\ p[x].pc = "wait" /\ p[x].k < count
  /\ empty > 0 /\ empty' = empty - 1 /\ Go(x, "lock")
  /\ UNCHANGED <<users, head, tail, slot, mutex, full, log, got, raced, stale>>

\* Seeded fault: the consumer frees the slot before it has the item.
WaitFull_EarlyPost ==
  /\ p[Consumer].pc = "wait" /\ p[Consumer].k < Quota(Consumer)
  /\ full > 0 /\ full' = full - 1 /\ empty' = empty + 1 /\ Go(Consumer, "lock")
  /\ UNCHANGED <<users, head, tail, slot, mutex, log, got, raced, stale>>

WaitFull ==
  /\ p[Consumer].pc = "wait" /\ p[Consumer].k < Quota(Consumer)
  /\ full > 0 /\ full' = full - 1 /\ Go(Consumer, "lock")
  /\ UNCHANGED <<users, head, tail, slot, mutex, empty, log, got, raced, stale>>

Lock(x) ==
  /\ p[x].pc = "lock" /\ mutex = None /\ mutex' = x /\ Go(x, "cursor")
  /\ UNCHANGED <<users, head, tail, slot, empty, full, log, got, raced, stale>>

\* Take the slot at head or tail and move the cursor on,
Cursor(x) ==
  /\ p[x].pc = "cursor"
  /\ p' = [p EXCEPT ![x].pc = "copy", ![x].idx = IF x = Consumer THEN tail ELSE head]
  /\ head' = IF x = Consumer THEN head ELSE (head + 1) % CAP
  /\ tail' = IF x = Consumer THEN (tail + 1) % CAP ELSE tail
  /\ log' = IF x = Consumer THEN log ELSE Append(log, <<x, p[x].k>>)
  /\ UNCHANGED <<users, slot, mutex, empty, full, got, raced, stale>>

\* copy the item in or out,
Copy(x) ==
  /\ p[x].pc = "copy" /\ Go(x, "unlock")
  /\ slot' = IF x = Consumer THEN slot ELSE [slot EXCEPT ![p[x].idx] = <<x, p[x].k>>]
  /\ got' = IF x = Consumer THEN Append(got, slot[p[x].idx]) ELSE got
  /\ UNCHANGED <<users, head, tail, mutex, empty, full, log, raced, stale>>

\* unlock,
Unlock(x) ==
  /\ p[x].pc = "unlock" /\ mutex' = None /\ Go(x, "post")
  /\ UNCHANGED <<users, head, tail, slot, empty, full, log, got, raced, stale>>

\* and post the other side's semaphore.
Post(x) ==
  /\ p[x].pc = "post" /\ p' = [p EXCEPT ![x].pc = "wait", ![x].k = @ + 1]
  /\ full' = IF x = Consumer THEN full ELSE full + 1
  /\ empty' = IF x = Consumer THEN empty + 1 ELSE empty
  /\ UNCHANGED <<users, head, tail, slot, mutex, log, got, raced, stale>>

\* No free slot, or no item, within ten seconds: process::exit without dropping
\* the handles, so the process stays counted in.
GiveUp(x) ==
  /\ p[x].pc = "wait" /\ p[x].k < Quota(x) /\ (IF x = Consumer THEN full ELSE empty) = 0
  /\ Go(x, "exit")
  /\ UNCHANGED <<users, head, tail, slot, mutex, empty, full, log, got, raced, stale>>

\* Its share done, the process drops its handles, the last opened first.  The
\* last user of a semaphore or of the segment unlinks it, with what is in it;
\* the next process to open the name finds it fresh.
DropFull(x) ==
  /\ p[x].pc = "wait" /\ p[x].k = Quota(x) /\ CountOut("full", x) /\ Go(x, "drop_empty")
  /\ full' = IF Last("full", x) THEN 0 ELSE full
  /\ UNCHANGED <<head, tail, slot, mutex, empty, log, got, raced, stale>>

DropEmpty(x) ==
  /\ p[x].pc = "drop_empty" /\ CountOut("empty", x) /\ Go(x, "drop_ring")
  /\ empty' = IF Last("empty", x) THEN CAP ELSE empty
  /\ stale' = (stale \/ (Last("empty", x) /\ empty # CAP))
  /\ UNCHANGED <<head, tail, slot, mutex, full, log, got, raced>>

DropRing(x) ==
  /\ p[x].pc = "drop_ring" /\ CountOut("ring", x) /\ Go(x, "exit")
  /\ IF Last("ring", x)
     THEN /\ head' = 0 /\ tail' = 0 /\ slot' = [i \in 0 .. CAP - 1 |-> <<>>]
          /\ log' = got /\ stale' = FALSE
     ELSE UNCHANGED <<head, tail, slot, log, stale>>
  /\ UNCHANGED <<mutex, empty, full, got, raced>>

Done == (\A x \in Procs : p[x].pc = "exit") /\ UNCHANGED vars

Next == \/ \E x \in Procs : \/ Open(x) \/ RefCount(x) \/ Zero(x) \/ OpenSem(x) \/ Lock(x) \/ Cursor(x)
                            \/ Copy(x) \/ Unlock(x) \/ Post(x) \/ GiveUp(x)
                            \/ DropFull(x) \/ DropEmpty(x) \/ DropRing(x)
        \/ \E x \in Producers : WaitEmpty(x)
        \/ WaitFull \/ Done

Spec == Init /\ [][Next]_vars

-----------------------------------------------------------------------------
\* Unless the first user zeroed a cursor others had used already, or the last
\* user of the semaphores left items in a ring that another had just opened,
\* the consumer drains the items in the order their slots were taken: none
\* overwritten before it is read, none read before it is filled, none twice.
BufferFifo ==
  ~raced /\ ~stale => Len(got) <= Len(log) /\ \A i \in DOMAIN got : got[i] = log[i]
=============================================================================
