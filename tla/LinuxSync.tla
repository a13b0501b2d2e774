----------------------------- MODULE LinuxSync -----------------------------
(***************************************************************************)
(* The Linux backend of IpcMutex and IpcCondition (platform/linux.rs), the *)
(* alephzero robust, priority-inheriting futex mutex and its condition,    *)
(* under the Waiter of waiter.rs that parks every blocking send and recv.  *)
(* Processes are killed between any two steps; the kernel then walks the   *)
(* robust list the code keeps for it.                                      *)
(***************************************************************************)
EXTENDS Integers, FiniteSets

CONSTANTS Threads,    \* thread ids, positive numbers (the kernel's TIDs)
          ProcOf,     \* the process each thread belongs to
          CanWait,    \* threads that call Waiter::wait_if
          CanWake,    \* threads that call notify, broadcast, quit_waiting
          CanLock,    \* threads that lock the mutex for themselves
          MaxOps,     \* calls a thread makes
          MayDie      \* processes that may be killed

ASSUME TidsPositive == Threads \subseteq Nat \ {0}

VARIABLES ftx,        \* the futex word: owner TID, OWNER_DIED, WAITERS
          cnd,        \* the condition's sequence number
          sleepers,   \* threads the kernel holds on the sequence futex
          queue,      \* threads the kernel holds on the mutex futex
          pend,       \* threads whose list_op_pending names the mutex
          listed,     \* threads whose robust list holds the mutex
          dead,       \* killed threads
          quit,       \* processes whose Waiter has quit set
          pred,       \* what each waiter's predicate answers: TRUE is wait
          lapse,      \* a waker was killed, or only one waiter was woken
          p           \* each thread's call

lx_vars == <<ftx, cnd, sleepers, queue, pend, listed, dead, quit, pred, lapse, p>>
kernel == <<sleepers, queue>>
robust == <<pend, listed>>
client == <<dead, quit, pred, lapse>>

Free == [tid |-> 0, died |-> FALSE, waiters |-> FALSE]
FTX_NOTRECOVERABLE == [tid |-> -1, died |-> TRUE, waiters |-> FALSE]

\* A call: where it is, where it goes once it has the mutex (k) and once it
\* has given it up (u), whether it has a deadline, the sequence number it
\* loaded, how many sleepers it wakes, and what its unlock leaves behind.
Idle == [pc |-> "idle", k |-> "idle", u |-> "idle", timed |-> FALSE, seq |-> 0,
         cnt |-> 0, left |-> Free, ops |-> 0]

LxInit == /\ ftx = Free /\ cnd = 0
          /\ sleepers = {} /\ queue = {} /\ pend = {} /\ listed = {}
          /\ dead = {} /\ quit = {} /\ lapse = FALSE
          /\ pred = [t \in Threads |-> TRUE]
          /\ p = [t \in Threads |-> Idle]

At(t, l) == p[t].pc = l /\ t \notin dead
Goto(t, l) == p' = [p EXCEPT ![t].pc = l]
Return(t) == [p EXCEPT ![t] = [Idle EXCEPT !.ops = p[t].ops]]

-----------------------------------------------------------------------------
(* The kernel side of the futex calls.                                     *)

\* The word once the kernel has picked who gets a mutex given up by its
\* owner: some queued thread, or nobody.
HandOver(q, died) ==
  IF q = {} THEN {[Free EXCEPT !.died = died]}
  ELSE {[tid |-> w, died |-> died, waiters |-> TRUE] : w \in q}

\* FUTEX_CMP_REQUEUE_PI moves the sleepers in S onto the mutex; one of them
\* gets it at once when it is free.
Requeue(S) ==
  /\ sleepers' = sleepers \ S
  /\ IF ftx.tid = 0 /\ S # {}
     THEN \E w \in S : /\ ftx' = [ftx EXCEPT !.tid = w, !.waiters = TRUE]
                       /\ queue' = queue \cup (S \ {w})
     ELSE /\ queue' = queue \cup S
          /\ ftx' = [ftx EXCEPT !.waiters = @ \/ S # {}]

\* The robust list: the operation in progress, and the mutex held.
robust_op_start(t) == pend' = pend \cup {t}
robust_op_end(t) == pend' = pend \ {t}
robust_op_del(t) == listed' = listed \ {t}
mtx_consistent(word) == [word EXCEPT !.died = FALSE]

-----------------------------------------------------------------------------
(* The calls a client makes.                                               *)

Call(t, k, timed, cnt) ==
  /\ At(t, "idle") /\ p[t].ops < MaxOps
  /\ p' = [p EXCEPT ![t] = [Idle EXCEPT !.pc = "lock", !.k = k, !.timed = timed,
                                        !.cnt = cnt, !.ops = p[t].ops + 1]]
  /\ UNCHANGED <<ftx, cnd, kernel, robust, dead, lapse>>

WaitIf(t) == /\ t \in CanWait /\ \E timed \in BOOLEAN : Call(t, "pred", timed, 0)
             /\ UNCHANGED <<quit, pred>>

\* Seeded fault: no lock barrier before the wake.
Wake_NoBarrier(t) ==
  /\ t \in CanWake /\ At(t, "idle") /\ p[t].ops < MaxOps
  /\ p' = [p EXCEPT ![t] = [Idle EXCEPT !.pc = "bump", !.k = "barrier", !.ops = p[t].ops + 1,
                                        !.cnt = Cardinality(Threads)]]
  /\ pred' = [u \in Threads |-> FALSE]
  /\ UNCHANGED <<ftx, cnd, kernel, robust, dead, lapse, quit>>

\* A client makes the predicates false (it has published or consumed), then
\* calls Waiter::notify (cnt 1) or Waiter::broadcast.
Wake(t) ==
  /\ t \in CanWake
  /\ \E cnt \in {1, Cardinality(Threads)} : Call(t, "barrier", FALSE, cnt)
  /\ pred' = [u \in Threads |-> FALSE]
  /\ UNCHANGED quit

QuitWaiting(t) == /\ t \in CanWake /\ quit' = quit \cup {ProcOf[t]}
                  /\ Call(t, "barrier", FALSE, Cardinality(Threads))
                  /\ UNCHANGED pred

\* lock, lock_timeout and try_lock: the last two are the timed lock.
LockFor(t) == /\ t \in CanLock /\ \E timed \in BOOLEAN : Call(t, "crit", timed, 0)
              /\ UNCHANGED <<quit, pred>>

-----------------------------------------------------------------------------
(* Locking.                                                                *)

\* robust_op_start, then the fast path of mtx_timedlock_robust.  A waiter
\* that must take the mutex back comes here with its operation pending.
TimedLock(t) ==
  /\ At(t, "lock")
  /\ robust_op_start(t)
  /\ IF ftx = FTX_NOTRECOVERABLE THEN Goto(t, "error") /\ UNCHANGED ftx
     ELSE IF ftx = Free THEN ftx' = [Free EXCEPT !.tid = t] /\ Goto(t, "add")
     ELSE Goto(t, "lock_pi") /\ UNCHANGED ftx
  /\ UNCHANGED <<cnd, kernel, listed, client>>

\* FUTEX_LOCK_PI: take a mutex nobody owns, or queue for it.
LockPi(t) ==
  /\ At(t, "lock_pi")
  /\ IF ftx.tid = 0
     THEN ftx' = [ftx EXCEPT !.tid = t] /\ Goto(t, "add") /\ UNCHANGED queue
     ELSE /\ ftx' = [ftx EXCEPT !.waiters = TRUE]
          /\ queue' = queue \cup {t} /\ Goto(t, "queued")
  /\ UNCHANGED <<cnd, sleepers, robust, client>>

Granted(t) ==
  /\ p[t].pc \in {"queued", "asleep"} /\ t \notin dead /\ ftx.tid = t
  /\ Goto(t, "add")
  /\ UNCHANGED <<ftx, cnd, kernel, robust, client>>

\* A signal interrupts the wait in the kernel; the code tries again.
Interrupted(t) ==
  /\ \/ At(t, "queued") /\ Goto(t, "lock")
     \/ At(t, "asleep") /\ t \in sleepers /\ Goto(t, "park")
  /\ ftx.tid # t
  /\ queue' = queue \ {t} /\ sleepers' = sleepers \ {t}
  /\ UNCHANGED <<ftx, cnd, robust, client>>

\* Seeded fault: a wait that times out reports it before it has the mutex.
TimedOut_NoRelock(t) ==
  /\ p[t].timed /\ t \notin dead /\ ftx.tid # t /\ p[t].pc = "asleep"
  /\ Goto(t, "timeout") /\ robust_op_end(t)
  /\ queue' = queue \ {t} /\ sleepers' = sleepers \ {t}
  /\ UNCHANGED <<ftx, cnd, listed, client>>

\* ETIMEDOUT: a lock gives up; a wait takes the mutex back, with no limit.
TimedOut(t) ==
  /\ p[t].timed /\ t \notin dead /\ ftx.tid # t
  /\ \/ /\ p[t].pc = "queued" /\ p[t].k = "crit"
        /\ p' = Return(t) /\ robust_op_end(t)
     \/ /\ p[t].pc = "asleep"
        /\ p' = [p EXCEPT ![t].pc = "lock", ![t].k = "timeout"]
        /\ UNCHANGED pend
  /\ queue' = queue \ {t} /\ sleepers' = sleepers \ {t}
  /\ UNCHANGED <<ftx, cnd, listed, client>>

RobustOpAdd(t) ==
  /\ At(t, "add")
  /\ listed' = listed \cup {t} /\ Goto(t, "op_end")
  /\ UNCHANGED <<ftx, cnd, kernel, pend, client>>

\* Seeded fault: a dead owner's mutex is given up without being consistent.
LockDone_KeepsDied(t) ==
  /\ At(t, "op_end")
  /\ robust_op_end(t)
  /\ p' = IF ~ftx.died THEN [p EXCEPT ![t].pc = p[t].k]
          ELSE [p EXCEPT ![t].pc = "unlock", ![t].u = "lock"]
  /\ UNCHANGED <<ftx, cnd, kernel, listed, client>>

\* robust_op_end, and what the caller makes of the result: lock_for makes a
\* dead owner's mutex consistent, unlocks it and locks again; a wait makes
\* it consistent and reports a wake-up, even when it had timed out.
LockDone(t) ==
  LET waiting == p[t].k \in {"woken", "timeout"}
  IN /\ At(t, "op_end")
     /\ robust_op_end(t)
     /\ ftx' = mtx_consistent(ftx)
     /\ p' = IF ~ftx.died THEN [p EXCEPT ![t].pc = p[t].k]
             ELSE IF waiting THEN [p EXCEPT ![t].pc = "woken"]
             ELSE [p EXCEPT ![t].pc = "unlock", ![t].u = "lock"]
     /\ UNCHANGED <<cnd, kernel, listed, client>>

-----------------------------------------------------------------------------
(* Unlocking.                                                              *)

\* Seeded fault: off the list before the operation is announced pending.
MtxUnlock_NotPending(t) ==
  /\ At(t, "unlock")
  /\ p' = [p EXCEPT ![t].pc = "release"]
  /\ robust_op_del(t)
  /\ UNCHANGED <<ftx, cnd, kernel, pend, client>>

\* mtx_unlock up to its CAS: only the owner may, and a mutex still marked
\* owner-died will be left unrecoverable.
MtxUnlock(t) ==
  /\ At(t, "unlock")
  /\ IF ftx.tid # t THEN Goto(t, "error") /\ UNCHANGED robust
     ELSE /\ p' = [p EXCEPT ![t].pc = "release",
                            ![t].left = IF ftx.died THEN FTX_NOTRECOVERABLE ELSE Free]
          /\ robust_op_start(t) /\ robust_op_del(t)
  /\ UNCHANGED <<ftx, cnd, kernel, client>>

\* Seeded fault: the mutex is freed in user space whoever waits.
Release_Frees(t) ==
  /\ At(t, "release")
  /\ ftx' = p[t].left
  /\ Goto(t, "released")
  /\ UNCHANGED <<cnd, kernel, robust, client>>

\* The CAS that frees an uncontended mutex, or FUTEX_UNLOCK_PI.
Release(t) ==
  /\ At(t, "release")
  /\ IF ftx = [Free EXCEPT !.tid = t] \/ p[t].left # Free
     THEN ftx' = p[t].left
     ELSE ftx' \in HandOver(queue, FALSE)
  /\ queue' = queue \ {ftx'.tid}
  /\ Goto(t, "released")
  /\ UNCHANGED <<cnd, sleepers, robust, client>>

\* robust_op_end.  A wait_if that found its predicate false has returned to
\* a client that consumes what it was told of.
Unlocked(t) ==
  /\ At(t, "released")
  /\ robust_op_end(t)
  /\ p' = IF p[t].u = "idle" THEN Return(t) ELSE [p EXCEPT ![t].pc = p[t].u]
  /\ UNCHANGED <<ftx, cnd, kernel, listed, client>>

\* The lock's users: a critical section, the barrier of notify and
\* broadcast, a wait_if that timed out.
Leave(t) ==
  /\ p[t].pc \in {"crit", "barrier", "timeout"} /\ t \notin dead
  /\ p' = [p EXCEPT ![t].pc = "unlock",
                    ![t].u = IF p[t].pc = "barrier" THEN "bump" ELSE "idle"]
  /\ UNCHANGED <<ftx, cnd, kernel, robust, client>>

-----------------------------------------------------------------------------
(* Waiting and waking.                                                     *)

\* The loop of wait_if, with the mutex held: return when quit is set or the
\* predicate is false (the client then consumes what it waited for), else
\* load the sequence number and wait.
CheckPred(t) ==
  /\ p[t].pc \in {"pred", "woken"} /\ t \notin dead
  /\ IF pred[t] /\ ProcOf[t] \notin quit
     THEN Goto(t, "load") /\ UNCHANGED pred
     ELSE /\ p' = [p EXCEPT ![t].pc = "unlock", ![t].u = "idle"]
          /\ pred' = [pred EXCEPT ![t] = TRUE]
  /\ UNCHANGED <<ftx, cnd, kernel, robust, dead, quit, lapse>>

LoadSeq(t) ==
  /\ At(t, "load")
  /\ p' = [p EXCEPT ![t].pc = "unlock", ![t].u = "park", ![t].k = "woken", ![t].seq = cnd]
  /\ UNCHANGED <<ftx, cnd, kernel, robust, client>>

\* robust_op_start, then FUTEX_WAIT_REQUEUE_PI: sleep while the sequence is
\* the one loaded, else (EAGAIN) take the mutex back.
Park(t) ==
  /\ At(t, "park")
  /\ robust_op_start(t)
  /\ IF cnd = p[t].seq THEN sleepers' = sleepers \cup {t} /\ Goto(t, "asleep")
                       ELSE Goto(t, "lock") /\ UNCHANGED sleepers
  /\ UNCHANGED <<ftx, cnd, queue, listed, client>>

\* cnd_wake: bump the sequence ...
Bump(t) ==
  /\ At(t, "bump")
  /\ cnd' = cnd + 1
  /\ p' = [p EXCEPT ![t].pc = "requeue", ![t].seq = cnd + 1]
  /\ UNCHANGED <<ftx, kernel, robust, client>>

\* ... and requeue: one sleeper is woken and up to cnt more are moved.
\* EAGAIN (the sequence moved on) is retried with the new number.
CmpRequeue(t) ==
  /\ At(t, "requeue")
  /\ IF cnd # p[t].seq
     THEN p' = [p EXCEPT ![t].seq = cnd] /\ UNCHANGED <<ftx, kernel, lapse>>
     ELSE \E S \in SUBSET sleepers :
            /\ S = sleepers \/ Cardinality(S) \in 1 .. p[t].cnt + 1
            /\ p[t].cnt > 1 => S = sleepers
            /\ Requeue(S) /\ p' = Return(t)
            /\ lapse' = (lapse \/ S # sleepers)
  /\ UNCHANGED <<cnd, robust, dead, quit, pred>>

-----------------------------------------------------------------------------
\* A process is killed.  Leaving, the kernel marks the mutex owner-died if
\* the robust list or the pending entry of the owner names it, or if the
\* owner has waiters, and hands it to a surviving waiter.
Die(x) ==
  LET D == {t \in Threads : ProcOf[t] = x}
  IN /\ x \in MayDie /\ D \cap dead = {}
     /\ IF ftx.tid \in D /\ (ftx.tid \in pend \cup listed \/ queue \ D # {})
        THEN ftx' \in HandOver(queue \ D, TRUE) ELSE UNCHANGED ftx
     /\ queue' = (queue \ D) \ {ftx'.tid} /\ sleepers' = sleepers \ D
     /\ pend' = pend \ D /\ listed' = listed \ D /\ dead' = dead \cup D
     /\ lapse' = (lapse \/ \E t \in D : p[t].k = "barrier")
     /\ p' = [t \in Threads |-> IF t \in D THEN Idle ELSE p[t]]
     /\ UNCHANGED <<cnd, quit, pred>>

\* Nobody has a call to make: the threads left are asleep in a wait.
LxDone == /\ \A t \in Threads \ dead : \/ p[t].pc = "idle" /\ p[t].ops = MaxOps
                                       \/ t \in sleepers /\ ~p[t].timed
          /\ UNCHANGED lx_vars

LxStep(t) == \/ TimedLock(t) \/ LockPi(t) \/ Granted(t) \/ RobustOpAdd(t)
             \/ LockDone(t) \/ MtxUnlock(t) \/ Release(t) \/ Unlocked(t) \/ Leave(t)
             \/ CheckPred(t) \/ LoadSeq(t) \/ Park(t) \/ Bump(t) \/ CmpRequeue(t)

LxNext == \/ \E t \in Threads : \/ LxStep(t) \/ WaitIf(t) \/ Wake(t) \/ QuitWaiting(t)
                                \/ LockFor(t) \/ Interrupted(t) \/ TimedOut(t)
          \/ \E x \in MayDie : Die(x)
          \/ LxDone

LxSpec == LxInit /\ [][LxNext]_lx_vars

-----------------------------------------------------------------------------
\* The state's types; no call ever returns EPERM or ENOTRECOVERABLE.
LxTypeOK ==
  /\ ftx \in [tid : Threads \cup {0}, died : BOOLEAN, waiters : BOOLEAN]
  /\ sleepers \subseteq Threads /\ queue \subseteq Threads
  /\ pend \subseteq Threads /\ listed \subseteq Threads /\ dead \subseteq Threads
  /\ \A t \in Threads : p[t].pc # "error"

\* A thread past its lock and before its release (mtx_timedlock,
\* cnd_timedwait, mtx_unlock) is the owner the futex word names, whatever
\* deaths, timeouts and requeues came before: two are never inside.
OwnerHolds ==
  \A t \in Threads \ dead :
    p[t].pc \in {"add", "op_end", "pred", "load", "woken", "timeout", "barrier", "crit",
                 "unlock", "release"} => ftx.tid = t

\* The robust list covers every instruction: no death leaves the mutex
\* owned by a thread that will never release it, and no call fails with
\* EPERM or ENOTRECOVERABLE after it.
NotOrphaned == ftx.tid \notin dead /\ LxTypeOK

\* Waiter::broadcast loses no wake-up: a thread still asleep although its
\* predicate is false, or its waiter has quit, has a waker on the way.
NoLostWakeup ==
  \A t \in sleepers :
    (~pred[t] \/ ProcOf[t] \in quit) /\ ~lapse
      => \E u \in Threads \ dead : p[u].k = "barrier"

Queued(t) == t \in queue
=============================================================================
