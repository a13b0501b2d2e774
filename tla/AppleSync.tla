----------------------------- MODULE AppleSync -----------------------------
(***************************************************************************)
(* The macOS backend of IpcMutex and IpcCondition under the Waiter: a      *)
(* three-state word slept on with __ulock_wait, a word naming the holder   *)
(* from which a timed or a try lock recovers the mutex of a dead process,  *)
(* and a condition made of a sequence number and a waiter count            *)
(* (platform/apple.rs, condition.rs).                                      *)
(***************************************************************************)
EXTENDS Integers, FiniteSets

CONSTANTS ApThreads,    \* each in a process of its own, its id nonzero
          ApCanWait,    \* threads that call Waiter::wait_if
          ApCanWake,    \* threads that call Waiter::notify or broadcast
          ApCanTry,     \* threads that call lock_timeout and try_lock
          ApOps,        \* calls a thread makes
          ApMayDie      \* threads that may be killed

VARIABLES ap_state,      \* 0 unlocked, 1 locked, 2 locked with waiters
          ap_holder,     \* pid of the holder, 0 when none is recorded
          ap_queue,      \* threads the kernel holds on the state word
          ap_cnd,        \* the condition's sequence number
          ap_waiters,    \* its waiter count
          ap_sleepers,   \* threads the kernel holds on the sequence number
          ap_pred, ap_dead,
          ap_lapse,      \* a waker was killed, or only one waiter was woken
          ap_broken,     \* a thread was killed with a lock or unlock under way
          ap_overlap,    \* a recovery met another, one cut short, or a lock newer
                         \* than the holder it had loaded
          ap_p           \* each thread's call

ap_vars == <<ap_state, ap_holder, ap_queue, ap_cnd, ap_waiters, ap_sleepers, ap_pred,
             ap_dead, ap_lapse, ap_broken, ap_overlap, ap_p>>
ap_mutex == <<ap_state, ap_holder, ap_queue>>
ap_cond == <<ap_cnd, ap_waiters, ap_sleepers>>
ap_client == <<ap_pred, ap_dead, ap_lapse, ap_broken, ap_overlap>>

\* Where a call is, where it goes with the mutex (k) and without it (u),
\* which lock it runs, deadline or not, slept before, recovered before, the
\* sequence number it loaded, the state its swap returned, the holder it
\* takes for dead.
ApIdle == [pc |-> "idle", k |-> "idle", u |-> "idle", m |-> "lock", timed |-> FALSE,
           contended |-> FALSE, tried |-> FALSE, all |-> FALSE, seq |-> 0, old |-> 0,
           h |-> 0, ops |-> 0]

ApInit == /\ ap_state = 0 /\ ap_holder = 0 /\ ap_queue = {}
          /\ ap_cnd = 0 /\ ap_waiters = 0 /\ ap_sleepers = {}
          /\ ap_pred = [t \in ApThreads |-> TRUE] /\ ap_dead = {}
          /\ ap_lapse = FALSE /\ ap_broken = FALSE /\ ap_overlap = FALSE
          /\ ap_p = [t \in ApThreads |-> ApIdle]

ApAt(t, l) == ap_p[t].pc = l /\ t \notin ap_dead
ApGoto(t, l) == ap_p' = [ap_p EXCEPT ![t].pc = l]
ApReturn(t) == [ap_p EXCEPT ![t] = [ApIdle EXCEPT !.ops = ap_p[t].ops]]

ApCall(t, r) == /\ ApAt(t, "idle") /\ ap_p[t].ops < ApOps
                /\ ap_p' = [ap_p EXCEPT ![t] = [r EXCEPT !.pc = "cas", !.ops = ap_p[t].ops + 1]]
                /\ UNCHANGED <<ap_mutex, ap_cond>>

ApWaitIf(t) == /\ t \in ApCanWait
               /\ \E b \in BOOLEAN : ApCall(t, [ApIdle EXCEPT !.k = "pred", !.timed = b])
               /\ UNCHANGED ap_client

\* The client has made the predicates false, then wakes one or all.
ApWake(t) == /\ t \in ApCanWake
             /\ \E b \in BOOLEAN : ApCall(t, [ApIdle EXCEPT !.k = "barrier", !.all = b])
             /\ ap_pred' = [u \in ApThreads |-> FALSE]
             /\ UNCHANGED <<ap_dead, ap_lapse, ap_broken, ap_overlap>>

ApTryLock(t) == /\ t \in ApCanTry
                /\ \E m \in {"timed", "try"} : ApCall(t, [ApIdle EXCEPT !.k = "crit", !.m = m])
                /\ UNCHANGED ap_client

-----------------------------------------------------------------------------
(* The mutex.                                                              *)

\* The spin phase wins the word ...
ApCas(t) ==
  /\ ApAt(t, "cas") /\ ap_state = 0
  /\ ap_state' = IF ap_p[t].contended THEN 2 ELSE 1
  /\ ApGoto(t, "hold")
  /\ UNCHANGED <<ap_holder, ap_queue, ap_cond, ap_client>>

\* ... or loses: try_lock recovers, once; the others announce a waiter.
ApCasFails(t) ==
  /\ ApAt(t, "cas") /\ ap_state # 0
  /\ ap_p' = IF ap_p[t].m # "try" THEN [ap_p EXCEPT ![t].pc = "mark"]
             ELSE IF ap_p[t].tried THEN ApReturn(t) ELSE [ap_p EXCEPT ![t].pc = "rec_load"]
  /\ UNCHANGED <<ap_mutex, ap_cond, ap_client>>

ApHold(t) ==
  /\ ApAt(t, "hold")
  /\ ap_holder' = t /\ ApGoto(t, ap_p[t].k)
  /\ UNCHANGED <<ap_state, ap_queue, ap_cond, ap_client>>

ApMark(t) ==
  /\ ApAt(t, "mark")
  /\ ap_state' = IF ap_state = 1 THEN 2 ELSE ap_state
  /\ ApGoto(t, IF ap_state = 0 THEN "cas" ELSE "sleep")
  /\ UNCHANGED <<ap_holder, ap_queue, ap_cond, ap_client>>

\* __ulock_wait sleeps only while the word is 2.
ApSleep(t) ==
  /\ ApAt(t, "sleep")
  /\ IF ap_state = 2 THEN ap_queue' = ap_queue \cup {t} /\ ApGoto(t, "queued")
     ELSE ap_p' = [ap_p EXCEPT ![t].pc = "cas", ![t].contended = TRUE] /\ UNCHANGED ap_queue
  /\ UNCHANGED <<ap_state, ap_holder, ap_cond, ap_client>>

ApAwake(t) ==
  /\ ApAt(t, "queued") /\ t \notin ap_queue
  /\ ap_p' = [ap_p EXCEPT ![t].pc = "cas", ![t].contended = TRUE]
  /\ UNCHANGED <<ap_mutex, ap_cond, ap_client>>

\* The deadline, before the sleep or in it: recover once, then give up.
ApDeadline(t) ==
  /\ ap_p[t].pc \in {"sleep", "queued"} /\ ap_p[t].m = "timed" /\ t \notin ap_dead
  /\ ap_p[t].pc = "queued" => t \in ap_queue
  /\ ap_queue' = ap_queue \ {t}
  /\ ap_p' = IF ap_p[t].tried THEN ApReturn(t)
             ELSE [ap_p EXCEPT ![t].pc = "rec_load",
                               ![t].contended = ap_p[t].contended \/ ap_p[t].pc = "queued"]
  /\ UNCHANGED <<ap_state, ap_holder, ap_cond, ap_client>>

\* try_recover_dead_holder: give up when no holder is recorded ...
ApRecLoad(t) ==
  /\ ApAt(t, "rec_load")
  /\ ap_p' = IF ap_holder = 0 THEN ApReturn(t)
             ELSE [ap_p EXCEPT ![t].pc = "rec_check", ![t].h = ap_holder]
  /\ UNCHANGED <<ap_mutex, ap_cond, ap_client>>

\* Seeded fault: whoever holds the mutex at the deadline is taken for dead.
ApRecCheck_AnyHolder(t) ==
  /\ ApAt(t, "rec_check")
  /\ ap_p' = [ap_p EXCEPT ![t].pc = "rec_swap", ![t].tried = TRUE]
  /\ UNCHANGED <<ap_mutex, ap_cond, ap_client>>

\* ... or when the one recorded lives ...
ApRecCheck(t) ==
  /\ ApAt(t, "rec_check")
  /\ ap_p' = IF ap_p[t].h \in ap_dead THEN [ap_p EXCEPT ![t].pc = "rec_swap", ![t].tried = TRUE]
             ELSE ApReturn(t)
  /\ ap_overlap' =
       \/ ap_overlap
       \/ /\ ap_p[t].h \in ap_dead
          /\ \/ ap_holder # ap_p[t].h
             \/ \E u \in ApThreads : ap_p[u].pc \in {"rec_swap", "rec_clear"}
  /\ UNCHANGED <<ap_mutex, ap_cond, ap_pred, ap_dead, ap_lapse, ap_broken>>

\* ... then unlock for it, clear the holder, and wake everyone.
ApRecSwap(t) ==
  /\ ApAt(t, "rec_swap")
  /\ ap_p' = [ap_p EXCEPT ![t].pc = "rec_clear", ![t].old = ap_state]
  /\ ap_state' = 0
  /\ UNCHANGED <<ap_holder, ap_queue, ap_cond, ap_client>>

ApRecClear(t) ==
  /\ ApAt(t, "rec_clear")
  /\ ap_holder' = 0 /\ ApGoto(t, "rec_wake")
  /\ UNCHANGED <<ap_state, ap_queue, ap_cond, ap_client>>

ApRecWake(t) ==
  /\ ApAt(t, "rec_wake")
  /\ ap_queue' = IF ap_p[t].old = 2 THEN {} ELSE ap_queue
  /\ ApGoto(t, "cas")
  /\ UNCHANGED <<ap_state, ap_holder, ap_cond, ap_client>>

\* unlock: clear the holder, swap the word, wake one sleeper if it was 2.
ApUnlock(t) ==
  /\ ApAt(t, "unlock")
  /\ ap_holder' = 0 /\ ApGoto(t, "swap")
  /\ UNCHANGED <<ap_state, ap_queue, ap_cond, ap_client>>

ApSwap(t) ==
  /\ ApAt(t, "swap")
  /\ ap_state' = 0
  /\ ap_p' = [ap_p EXCEPT ![t].pc = "ulock_wake", ![t].old = ap_state]
  /\ UNCHANGED <<ap_holder, ap_queue, ap_cond, ap_client>>

\* Seeded fault: unlock forgets the sleepers.
ApUlockWake_Never(t) ==
  /\ ApAt(t, "ulock_wake")
  /\ ap_p' = IF ap_p[t].u = "idle" THEN ApReturn(t) ELSE [ap_p EXCEPT ![t].pc = ap_p[t].u]
  /\ UNCHANGED <<ap_mutex, ap_cond, ap_client>>

ApUlockWake(t) ==
  /\ ApAt(t, "ulock_wake")
  /\ IF ap_p[t].old = 2 /\ ap_queue # {} THEN \E u \in ap_queue : ap_queue' = ap_queue \ {u}
                                         ELSE UNCHANGED ap_queue
  /\ ap_p' = IF ap_p[t].u = "idle" THEN ApReturn(t) ELSE [ap_p EXCEPT ![t].pc = ap_p[t].u]
  /\ UNCHANGED <<ap_state, ap_holder, ap_cond, ap_client>>

ApLeave(t) ==
  /\ ap_p[t].pc \in {"crit", "barrier", "timeout"} /\ t \notin ap_dead
  /\ ap_p' = [ap_p EXCEPT ![t].pc = "unlock",
                          ![t].u = IF ap_p[t].pc = "barrier" THEN "bump" ELSE "idle"]
  /\ UNCHANGED <<ap_mutex, ap_cond, ap_client>>

-----------------------------------------------------------------------------
(* The condition.                                                          *)

\* wait_if's loop with the mutex held: done, or wait ...
ApCheckPred(t) ==
  /\ ApAt(t, "pred")
  /\ ap_p' = IF ap_pred[t] THEN [ap_p EXCEPT ![t].pc = "load"]
             ELSE [ap_p EXCEPT ![t].pc = "unlock", ![t].u = "idle"]
  /\ ap_pred' = [ap_pred EXCEPT ![t] = TRUE]
  /\ UNCHANGED <<ap_mutex, ap_cond, ap_dead, ap_lapse, ap_broken, ap_overlap>>

\* ... load the sequence number ...
ApLoadSeq(t) ==
  /\ ApAt(t, "load")
  /\ ap_p' = [ap_p EXCEPT ![t].pc = "count", ![t].seq = ap_cnd]
  /\ UNCHANGED <<ap_mutex, ap_cond, ap_client>>

\* Seeded fault: a waiter that will time out is not counted.
ApCount_UntimedOnly(t) ==
  /\ ApAt(t, "count")
  /\ ap_waiters' = IF ap_p[t].timed THEN ap_waiters ELSE ap_waiters + 1
  /\ ap_p' = [ap_p EXCEPT ![t].pc = "unlock", ![t].u = "park"]
  /\ UNCHANGED <<ap_mutex, ap_cnd, ap_sleepers, ap_client>>

\* ... add a waiter, and unlock.
ApCount(t) ==
  /\ ApAt(t, "count")
  /\ ap_waiters' = ap_waiters + 1
  /\ ap_p' = [ap_p EXCEPT ![t].pc = "unlock", ![t].u = "park"]
  /\ UNCHANGED <<ap_mutex, ap_cnd, ap_sleepers, ap_client>>

ApPark(t) ==
  /\ ApAt(t, "park")
  /\ IF ap_cnd = ap_p[t].seq THEN ap_sleepers' = ap_sleepers \cup {t} /\ ApGoto(t, "asleep")
                             ELSE ApGoto(t, "uncount") /\ UNCHANGED ap_sleepers
  /\ UNCHANGED <<ap_mutex, ap_cnd, ap_waiters, ap_client>>

\* Off the kernel's list, by a wake, an interrupt or the deadline: back to
\* the loop's test, except that the deadline ends it.
ApUnpark(t) ==
  /\ ApAt(t, "asleep")
  /\ \/ t \notin ap_sleepers /\ ApGoto(t, "park")
     \/ /\ t \in ap_sleepers /\ ap_p[t].timed
        /\ ap_p' = [ap_p EXCEPT ![t].pc = "uncount",
                                ![t].k = IF ap_cnd = ap_p[t].seq THEN "timeout" ELSE ap_p[t].k]
  /\ ap_sleepers' = ap_sleepers \ {t}
  /\ UNCHANGED <<ap_mutex, ap_cnd, ap_waiters, ap_client>>

ApUncount(t) ==
  /\ ApAt(t, "uncount")
  /\ ap_waiters' = ap_waiters - 1
  /\ ap_p' = [ap_p EXCEPT ![t].pc = "cas", ![t].contended = FALSE, ![t].old = 0]
  /\ UNCHANGED <<ap_mutex, ap_cnd, ap_sleepers, ap_client>>

ApBump(t) ==
  /\ ApAt(t, "bump")
  /\ ap_cnd' = ap_cnd + 1 /\ ApGoto(t, "wake")
  /\ UNCHANGED <<ap_mutex, ap_waiters, ap_sleepers, ap_client>>

\* No waiter counted: no system call.
ApCondWake(t) ==
  /\ ApAt(t, "wake")
  /\ \E S \in SUBSET ap_sleepers :
       /\ S = IF ap_waiters <= 0 THEN {} ELSE IF ap_p[t].all THEN ap_sleepers ELSE S
       /\ ap_waiters > 0 /\ ~ap_p[t].all /\ ap_sleepers # {} => Cardinality(S) = 1
       /\ ap_sleepers' = ap_sleepers \ S
       /\ ap_lapse' = (ap_lapse \/ (~ap_p[t].all /\ S # ap_sleepers))
  /\ ap_p' = ApReturn(t)
  /\ UNCHANGED <<ap_mutex, ap_cnd, ap_waiters, ap_pred, ap_dead, ap_broken, ap_overlap>>

-----------------------------------------------------------------------------
\* A process is killed.  The kernel frees nothing for it.
ApDie(t) ==
  /\ t \in ApMayDie \ ap_dead
  /\ ap_dead' = ap_dead \cup {t}
  /\ ap_queue' = ap_queue \ {t} /\ ap_sleepers' = ap_sleepers \ {t}
  /\ ap_lapse' = (ap_lapse \/ ap_p[t].k = "barrier")
  /\ ap_broken' = (ap_broken \/ ap_p[t].pc \notin {"idle", "crit"})
  /\ ap_overlap' = (ap_overlap \/ ap_p[t].pc = "rec_clear")
  /\ ap_p' = [ap_p EXCEPT ![t] = ApIdle]
  /\ UNCHANGED <<ap_state, ap_holder, ap_cnd, ap_waiters, ap_pred>>

ApStuck(t) == \/ ap_p[t].pc = "idle" /\ ap_p[t].ops = ApOps
              \/ t \in ap_sleepers /\ ~ap_p[t].timed
              \/ t \in ap_queue /\ ap_p[t].m = "lock"

ApDone == (\A t \in ApThreads \ ap_dead : ApStuck(t)) /\ UNCHANGED ap_vars

ApStep(t) == \/ ApCas(t) \/ ApCasFails(t) \/ ApHold(t) \/ ApMark(t) \/ ApSleep(t) \/ ApAwake(t)
             \/ ApRecLoad(t) \/ ApRecCheck(t) \/ ApRecSwap(t) \/ ApRecClear(t) \/ ApRecWake(t)
             \/ ApUnlock(t) \/ ApSwap(t) \/ ApUlockWake(t) \/ ApLeave(t)
             \/ ApCheckPred(t) \/ ApLoadSeq(t) \/ ApCount(t) \/ ApPark(t) \/ ApUnpark(t)
             \/ ApUncount(t) \/ ApBump(t) \/ ApCondWake(t)

ApNext == \/ \E t \in ApThreads : \/ ApStep(t) \/ ApWaitIf(t) \/ ApWake(t) \/ ApTryLock(t)
                                  \/ ApDeadline(t) \/ ApDie(t)
          \/ ApDone

ApSpec == ApInit /\ [][ApNext]_ap_vars

-----------------------------------------------------------------------------
ApInside == {t \in ApThreads :
               ap_p[t].pc \in {"hold", "crit", "barrier", "pred", "load", "count", "timeout",
                               "unlock", "swap"}}

\* Recovery keeps mutual exclusion: one thread at most is between its lock
\* and its unlock, whoever died there, as long as no recovery overlaps.
ApExclusive == ~ap_overlap => \A t, u \in ApInside : t = u

\* No thread sleeps on a mutex that nobody will wake it from: while one is
\* queued the word says so, or someone is about to wake or to say so again,
\* however the recoveries went.
ApSleeperCovered ==
  ap_queue # {} /\ ~ap_broken =>
    \/ ap_state = 2
    \/ \E u \in ApThreads :
         \/ ap_p[u].pc \in {"ulock_wake", "rec_clear", "rec_wake"} /\ ap_p[u].old = 2
         \/ ap_p[u].pc = "queued" /\ u \notin ap_queue
         \/ ap_p[u].pc \in {"cas", "mark"} /\ ap_p[u].contended

\* Waiter::broadcast loses no wake-up, although the waker skips the system
\* call when it counts no waiter: a thread asleep whose predicate is false
\* has a waker on the way.
ApNoLostWakeup ==
  \A t \in ap_sleepers :
    ~ap_pred[t] /\ ~ap_lapse /\ ~ap_overlap => \E u \in ApThreads : ap_p[u].k = "barrier"

\* IpcMutex and Waiter on macOS: mutual exclusion through the recovery of a
\* dead holder's mutex, and nobody left asleep on the word or the condition.
AppleSound == ApExclusive /\ ApSleeperCovered /\ ApNoLostWakeup
=============================================================================
