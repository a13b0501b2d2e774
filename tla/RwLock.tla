------------------------------- MODULE RwLock -------------------------------
(***************************************************************************)
(* The one-word read-write lock of rw_lock.rs: the high bit of lc is the   *)
(* writer's flag, the rest counts the readers inside.  One action per      *)
(* access to the word.                                                     *)
(***************************************************************************)
EXTENDS Integers, FiniteSets

CONSTANT RwThreads

VARIABLES rw_lc,    \* the word: w the W_FLAG bit, r the count under W_MASK
          rw_pc,    \* where each thread is
          rw_old    \* the word each reader compares with

rw_vars == <<rw_lc, rw_pc, rw_old>>

RwZero == [w |-> FALSE, r |-> 0]

RwInit == /\ rw_lc = RwZero
          /\ rw_pc = [t \in RwThreads |-> "out"]
          /\ rw_old = [t \in RwThreads |-> RwZero]

RwAt(t, l) == rw_pc[t] = l
RwGoto(t, l) == rw_pc' = [rw_pc EXCEPT ![t] = l]

RwCall(t) == /\ RwAt(t, "out")
             /\ \E l \in {"lock", "load"} : RwGoto(t, l)
             /\ UNCHANGED <<rw_lc, rw_old>>

\* Seeded fault: the readers inside are not waited for.
Lock_NoDrain(t) ==
  /\ RwAt(t, "lock")
  /\ rw_lc' = [rw_lc EXCEPT !.w = TRUE]
  /\ RwGoto(t, IF ~rw_lc.w THEN "writing" ELSE "lock")
  /\ UNCHANGED rw_old

\* lock: fetch_or of the flag.  Inside at once, or it is this writer's turn
\* once the readers are gone, or another writer has it.
Lock(t) ==
  /\ RwAt(t, "lock")
  /\ rw_lc' = [rw_lc EXCEPT !.w = TRUE]
  /\ RwGoto(t, IF rw_lc = RwZero THEN "writing" ELSE IF ~rw_lc.w THEN "drain" ELSE "lock")
  /\ UNCHANGED rw_old

Drain(t) ==
  /\ RwAt(t, "drain") /\ rw_lc.r = 0
  /\ RwGoto(t, "writing")
  /\ UNCHANGED <<rw_lc, rw_old>>

Unlock(t) ==
  /\ RwAt(t, "writing")
  /\ rw_lc' = RwZero /\ RwGoto(t, "out")
  /\ UNCHANGED rw_old

\* Seeded fault: a reader slips in under the flag, and the writer never drains.
LoadShared_IgnoresFlag(t) ==
  /\ RwAt(t, "load")
  /\ rw_old' = [rw_old EXCEPT ![t] = rw_lc] /\ RwGoto(t, "cas")
  /\ UNCHANGED rw_lc

\* lock_shared: load until there is no writer, then count itself in.
LoadShared(t) ==
  /\ RwAt(t, "load") /\ ~rw_lc.w
  /\ rw_old' = [rw_old EXCEPT ![t] = rw_lc] /\ RwGoto(t, "cas")
  /\ UNCHANGED rw_lc

\* The weak CAS may fail when the word is the one expected.
CasShared(t) ==
  /\ RwAt(t, "cas")
  /\ \/ rw_lc = rw_old[t] /\ rw_lc' = [rw_lc EXCEPT !.r = @ + 1] /\ RwGoto(t, "reading")
     \/ RwGoto(t, "load") /\ UNCHANGED rw_lc
  /\ rw_old' = [rw_old EXCEPT ![t] = RwZero]

UnlockShared(t) ==
  /\ RwAt(t, "reading")
  /\ rw_lc' = [rw_lc EXCEPT !.r = @ - 1] /\ RwGoto(t, "out")
  /\ UNCHANGED rw_old

RwStep(t) == \/ Lock(t) \/ Drain(t) \/ Unlock(t)
             \/ LoadShared(t) \/ CasShared(t) \/ UnlockShared(t)

RwNext == \E t \in RwThreads : RwCall(t) \/ RwStep(t)

RwSpec == RwInit /\ [][RwNext]_rw_vars

-----------------------------------------------------------------------------
RwReaders == {t \in RwThreads : rw_pc[t] = "reading"}
RwWriters == {t \in RwThreads : rw_pc[t] = "writing"}

\* "Writers get exclusive access, multiple readers can hold the lock": a
\* thread inside RwLock::lock is alone.
RwExclusive ==
  \A t \in RwWriters : RwReaders = {} /\ RwWriters = {t}
=============================================================================
