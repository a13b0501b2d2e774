---------------------------- MODULE WindowsSync ----------------------------
(***************************************************************************)
(* The Windows backend of IpcMutex and IpcCondition under the Waiter: a    *)
(* named kernel mutex, and a condition made of a counting semaphore, an    *)
(* inner mutex and a shared count of the waiters (platform/windows.rs,     *)
(* condition.rs, semaphore.rs).  Threads are killed between any two steps; *)
(* the kernel then abandons the mutexes they own.                          *)
(***************************************************************************)
EXTENDS Integers, FiniteSets

CONSTANTS Threads,    \* each in a process of its own
          CanWait,    \* threads that call Waiter::wait_if
          CanWake,    \* threads that call Waiter::notify or broadcast
          MaxOps,     \* calls a thread makes
          MayDie      \* threads that may be killed

VARIABLES mtx, lock,  \* the mutexes: owner ("" none), abandoned or not
          sem,        \* tokens in the semaphore
          blocked,    \* threads the kernel holds on the semaphore
          counter,    \* the shared waiter count
          pred,       \* what each waiter's predicate answers: TRUE is wait
          dead,
          lapse,      \* a waker was killed, or only one waiter was woken
          stolen,     \* a waiter with nothing to wake for took another's token
          p           \* each thread's call

vars == <<mtx, lock, sem, blocked, counter, pred, dead, lapse, stolen, p>>
history == <<dead, lapse, stolen>>
objects == <<mtx, lock, sem, blocked>>

NotOwned == [owner |-> "", abandoned |-> FALSE]

\* Where a call is, where it goes after taking (k) and giving up (u) mtx,
\* whether it has a deadline, whether it wakes all, calls made.
Idle == [pc |-> "idle", k |-> "idle", u |-> "idle", timed |-> FALSE, all |-> FALSE,
         ops |-> 0]

Init == /\ mtx = NotOwned /\ lock = NotOwned
        /\ sem = 0 /\ blocked = {} /\ counter = 0
        /\ pred = [t \in Threads |-> TRUE]
        /\ dead = {} /\ lapse = FALSE /\ stolen = FALSE
        /\ p = [t \in Threads |-> Idle]

At(t, l) == p[t].pc = l /\ t \notin dead
Goto(t, l) == p' = [p EXCEPT ![t].pc = l]
Return(t) == [p EXCEPT ![t] = [Idle EXCEPT !.ops = p[t].ops]]

-----------------------------------------------------------------------------
Call(t, k, timed, all) ==
  /\ At(t, "idle") /\ p[t].ops < MaxOps
  /\ p' = [p EXCEPT ![t] = [Idle EXCEPT !.pc = "lock", !.k = k, !.timed = timed,
                                        !.all = all, !.ops = p[t].ops + 1]]
  /\ UNCHANGED <<objects, counter, history>>

WaitIf(t) == /\ t \in CanWait /\ \E timed \in BOOLEAN : Call(t, "pred", timed, FALSE)
             /\ UNCHANGED pred

\* Seeded fault: no lock and unlock of mtx before the post.
Wake_NoBarrier(t) ==
  /\ t \in CanWake
  /\ \E all \in BOOLEAN :
       /\ At(t, "idle") /\ p[t].ops < MaxOps
       /\ p' = [p EXCEPT ![t] = [Idle EXCEPT !.pc = "ilock", !.k = "barrier",
                                             !.all = all, !.ops = p[t].ops + 1]]
  /\ pred' = [u \in Threads |-> FALSE]
  /\ UNCHANGED <<objects, counter, history>>

\* The client has made the predicates false, then wakes.
Wake(t) == /\ t \in CanWake /\ \E all \in BOOLEAN : Call(t, "barrier", FALSE, all)
           /\ pred' = [u \in Threads |-> FALSE]

\* lock_timeout and try_lock, for a critical section of the client's own.
TryLock(t) == /\ t \in CanWake
              /\ \E l \in {"lock_timeout", "try_lock"} :
                   /\ At(t, "idle") /\ p[t].ops < MaxOps
                   /\ p' = [p EXCEPT ![t] = [Idle EXCEPT !.pc = l, !.k = "crit",
                                                         !.ops = p[t].ops + 1]]
              /\ UNCHANGED <<objects, counter, pred, history>>

\* Seeded fault: lock gives the abandoned mutex back and does not wait again.
Lock_NoRetry(t) ==
  /\ p[t].pc \in {"lock", "lock_timeout", "try_lock"} /\ t \notin dead
  /\ mtx.owner = ""
  /\ mtx' = IF mtx.abandoned THEN NotOwned ELSE [NotOwned EXCEPT !.owner = t]
  /\ Goto(t, p[t].k)
  /\ UNCHANGED <<lock, sem, blocked, counter, pred, history>>

\* WaitForSingleObject on a mutex nobody owns.  lock gives an abandoned one
\* back and waits again; lock_timeout keeps it; try_lock gives it back and
\* reports failure.
Lock(t) ==
  /\ p[t].pc \in {"lock", "lock_timeout", "try_lock"} /\ t \notin dead
  /\ mtx.owner = ""
  /\ IF mtx.abandoned /\ p[t].pc # "lock_timeout"
     THEN /\ mtx' = NotOwned
          /\ p' = IF p[t].pc = "try_lock" THEN Return(t) ELSE p
     ELSE mtx' = [NotOwned EXCEPT !.owner = t] /\ Goto(t, p[t].k)
  /\ UNCHANGED <<lock, sem, blocked, counter, pred, history>>

LockTimesOut(t) ==
  /\ p[t].pc \in {"lock_timeout", "try_lock"} /\ t \notin dead /\ mtx.owner # ""
  /\ p' = Return(t)
  /\ UNCHANGED <<objects, counter, pred, history>>

\* ReleaseMutex fails, and changes nothing, unless the thread is the owner.
Unlock(t) ==
  /\ At(t, "unlock")
  /\ IF mtx.owner = t THEN mtx' = NotOwned ELSE UNCHANGED mtx
  /\ p' = IF mtx.owner # t THEN [p EXCEPT ![t].pc = "error"]
          ELSE IF p[t].u = "idle" THEN Return(t) ELSE [p EXCEPT ![t].pc = p[t].u]
  /\ UNCHANGED <<lock, sem, blocked, counter, pred, history>>

Leave(t) ==
  /\ p[t].pc \in {"crit", "barrier", "timeout"} /\ t \notin dead
  /\ p' = [p EXCEPT ![t].pc = "unlock",
                    ![t].u = IF p[t].pc = "barrier" THEN "ilock" ELSE "idle"]
  /\ UNCHANGED <<objects, counter, pred, history>>

\* The inner mutex: of a waiter about to park ("count"), of one that timed
\* out ("uncount"), of a waker ("post").
InnerLock(t) ==
  /\ At(t, "ilock") /\ lock.owner = ""
  /\ IF lock.abandoned THEN lock' = NotOwned /\ UNCHANGED p
     ELSE /\ lock' = [NotOwned EXCEPT !.owner = t]
          /\ Goto(t, CASE p[t].k = "pred" -> "count" [] p[t].k = "timeout" -> "uncount"
                       [] OTHER -> "post")
  /\ UNCHANGED <<mtx, sem, blocked, counter, pred, history>>

InnerUnlock(t) ==
  /\ At(t, "iunlock")
  /\ lock' = NotOwned
  /\ p' = CASE p[t].k = "pred" -> [p EXCEPT ![t].pc = "unlock", ![t].u = "park"]
            [] p[t].k = "timeout" -> [p EXCEPT ![t].pc = "timeout"]
            [] OTHER -> Return(t)
  /\ UNCHANGED <<mtx, sem, blocked, counter, pred, history>>

-----------------------------------------------------------------------------
(* The condition.                                                          *)

\* Threads on the count: a token must be there for each, or come.
Waiting == {t \in Threads \ dead :
              \/ p[t].pc = "iunlock" /\ p[t].k = "pred"
              \/ p[t].pc = "unlock" /\ p[t].u = "park"
              \/ p[t].pc = "park" \/ t \in blocked
              \/ p[t].k = "timed_out" \/ (p[t].k = "timeout" /\ p[t].pc \in {"ilock", "uncount"})}

\* wait_if's loop: done when the predicate is false, else wait.
CheckPred(t) ==
  /\ At(t, "pred")
  /\ IF pred[t] THEN Goto(t, "ilock") /\ UNCHANGED pred
     ELSE /\ p' = [p EXCEPT ![t].pc = "unlock", ![t].u = "idle"]
          /\ pred' = [pred EXCEPT ![t] = TRUE]
  /\ UNCHANGED <<objects, counter, history>>

Count(t) ==
  /\ At(t, "count")
  /\ counter' = IF counter < 0 THEN 1 ELSE counter + 1
  /\ Goto(t, "iunlock")
  /\ UNCHANGED <<objects, pred, history>>

\* A waiter whose wait timed out takes itself off the count.
Uncount(t) ==
  /\ At(t, "uncount")
  /\ counter' = counter - 1 /\ Goto(t, "iunlock")
  /\ UNCHANGED <<objects, pred, history>>

\* Semaphore wait: take a token or block; the mutex is taken back after it.
\* The token may have been posted for another waiter, on its way to sleep.
Park(t) ==
  /\ At(t, "park")
  /\ IF sem > 0 THEN /\ sem' = sem - 1 /\ Goto(t, "lock") /\ UNCHANGED blocked
                     /\ stolen' = (stolen \/ (pred[t] /\ \E u \in Waiting \ blocked : ~pred[u]))
     ELSE blocked' = blocked \cup {t} /\ Goto(t, "asleep") /\ UNCHANGED <<sem, stolen>>
  /\ UNCHANGED <<mtx, lock, counter, pred, dead, lapse>>

Woken(t) ==
  /\ At(t, "asleep") /\ t \notin blocked
  /\ Goto(t, "lock")
  /\ UNCHANGED <<objects, counter, pred, history>>

SemTimesOut(t) ==
  /\ At(t, "asleep") /\ t \in blocked /\ p[t].timed
  /\ blocked' = blocked \ {t}
  /\ p' = [p EXCEPT ![t].pc = "lock", ![t].k = "timed_out"]
  /\ UNCHANGED <<mtx, lock, sem, counter, pred, history>>

\* Mutex back after a timeout: on to the count.
TimedOut(t) ==
  /\ At(t, "timed_out")
  /\ p' = [p EXCEPT ![t].pc = "ilock", ![t].k = "timeout"]
  /\ UNCHANGED <<objects, counter, pred, history>>

\* ReleaseSemaphore(n): threads blocked on it get the tokens, the rest stay.
Post(t) ==
  LET n == IF counter <= 0 THEN 0 ELSE IF p[t].all THEN counter ELSE 1
  IN /\ At(t, "post")
     /\ \E W \in SUBSET blocked :
          /\ Cardinality(W) = IF n < Cardinality(blocked) THEN n ELSE Cardinality(blocked)
          /\ blocked' = blocked \ W
          /\ sem' = sem + n - Cardinality(W)
     /\ Goto(t, IF n = 0 THEN "iunlock" ELSE "posted")
     /\ lapse' = (lapse \/ n < counter)
     /\ UNCHANGED <<mtx, lock, counter, pred, dead, stolen>>

\* Seeded fault: notify zeroes the count as broadcast does.
Posted_Zeroes(t) ==
  /\ At(t, "posted")
  /\ counter' = 0 /\ Goto(t, "iunlock")
  /\ UNCHANGED <<objects, pred, history>>

\* The count is stored after the post.
Posted(t) ==
  /\ At(t, "posted")
  /\ counter' = IF p[t].all THEN 0 ELSE counter - 1
  /\ Goto(t, "iunlock")
  /\ UNCHANGED <<objects, pred, history>>

-----------------------------------------------------------------------------
Abandon(m, t) == IF m.owner = t THEN [owner |-> "", abandoned |-> TRUE] ELSE m

Die(t) ==
  /\ t \in MayDie \ dead
  /\ dead' = dead \cup {t}
  /\ mtx' = Abandon(mtx, t) /\ lock' = Abandon(lock, t)
  /\ blocked' = blocked \ {t}
  /\ lapse' = (lapse \/ p[t].k = "barrier")
  /\ p' = [p EXCEPT ![t] = Idle]
  /\ UNCHANGED <<sem, counter, pred, stolen>>

Done == /\ \A t \in Threads \ dead : \/ p[t].pc = "idle" /\ p[t].ops = MaxOps
                                     \/ t \in blocked /\ ~p[t].timed
        /\ UNCHANGED vars

Step(t) == \/ Lock(t) \/ Unlock(t) \/ Leave(t) \/ InnerLock(t) \/ InnerUnlock(t)
           \/ CheckPred(t) \/ Count(t) \/ Uncount(t) \/ Park(t) \/ Woken(t)
           \/ TimedOut(t) \/ Post(t) \/ Posted(t)

Next == \/ \E t \in Threads : \/ Step(t) \/ WaitIf(t) \/ Wake(t) \/ TryLock(t)
                              \/ LockTimesOut(t) \/ SemTimesOut(t) \/ Die(t)
        \/ Done

Spec == Init /\ [][Next]_vars

-----------------------------------------------------------------------------
\* No unlock fails: whoever gives a mutex up owns it, so no two threads are
\* inside at once, whoever was killed or timed out before.
WinOwner ==
  \A t \in Threads \ dead :
    /\ p[t].pc \in {"crit", "barrier", "pred", "timeout", "timed_out", "unlock", "count",
                    "uncount"} => mtx.owner = t
    /\ p[t].pc \in {"count", "uncount", "post", "posted", "iunlock"} => lock.owner = t

\* The count and the semaphore together cover every waiter: a broadcast
\* reaches all that have counted themselves, whatever timed out, died or was
\* posted before.
TokensCover == Cardinality(Waiting) <= counter + sem

\* u is on its way to post.
WakerComes(u) == /\ u \notin dead /\ p[u].k = "barrier"
                 /\ p[u].pc \in {"lock", "barrier", "unlock", "ilock", "post"}

\* Nobody sleeps on with its predicate changed and no waker on the way: the
\* waker's lock and unlock of mtx let it post only after the waiter has counted
\* itself, and "a post that races in after the unlock is not lost".  Two ways
\* out: no waker got to wake everybody (lapse), or the token was not kept for
\* the waiter it was posted for but taken by one that began to wait later
\* (stolen), which the semaphore allows.
WinNoLostWakeup ==
  \A t \in blocked : ~pred[t] /\ ~lapse /\ ~stolen => \E u \in Threads : WakerComes(u)
=============================================================================
