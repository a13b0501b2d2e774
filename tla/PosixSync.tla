----------------------------- MODULE PosixSync -----------------------------
(***************************************************************************)
(* The generic POSIX backend of IpcMutex and IpcCondition under the        *)
(* Waiter: a robust process-shared pthread mutex and a pthread condition   *)
(* (platform/posix.rs, condition.rs).  The pthread calls are atomic steps; *)
(* killing the owner makes the next lock return EOWNERDEAD.                *)
(***************************************************************************)
EXTENDS FiniteSets, Integers

CONSTANTS Threads,    \* each in a process of its own
          CanWait,    \* threads that call Waiter::wait_if
          CanWake,    \* threads that call Waiter::notify or broadcast
          CanTry,     \* threads that call lock_timeout and try_lock
          MaxOps,     \* calls a thread makes
          MayDie      \* threads that may be killed

VARIABLES mtx,        \* [owner, died]; died: the last owner was killed
          sleepers,   \* threads on the pthread condition
          pred, dead,
          lapse,      \* a waker was killed, or only one waiter was woken
          stranded,   \* threads whose wait returned an error with the mutex held
          p

vars == <<mtx, sleepers, pred, dead, lapse, stranded, p>>

Idle == [pc |-> "idle", k |-> "idle", u |-> "idle", timed |-> FALSE, all |-> FALSE,
         ops |-> 0]

Init == /\ mtx = [owner |-> "", died |-> FALSE] /\ sleepers = {}
        /\ pred = [t \in Threads |-> TRUE] /\ dead = {}
        /\ lapse = FALSE /\ stranded = {}
        /\ p = [t \in Threads |-> Idle]

At(t, l) == p[t].pc = l /\ t \notin dead
Goto(t, l) == p' = [p EXCEPT ![t].pc = l]
Return(t) == [p EXCEPT ![t] = [Idle EXCEPT !.ops = p[t].ops]]

Call(t, r) == /\ At(t, "idle") /\ p[t].ops < MaxOps /\ t \notin stranded
              /\ p' = [p EXCEPT ![t] = [r EXCEPT !.pc = "lock", !.ops = p[t].ops + 1]]
              /\ UNCHANGED <<mtx, sleepers, dead, lapse, stranded>>

WaitIf(t) == /\ t \in CanWait
             /\ \E b \in BOOLEAN : Call(t, [Idle EXCEPT !.k = "pred", !.timed = b])
             /\ UNCHANGED pred

\* Seeded fault: no lock barrier before the wake.
Wake_NoBarrier(t) ==
  /\ t \in CanWake /\ At(t, "idle") /\ p[t].ops < MaxOps
  /\ p' = [p EXCEPT ![t] = [Idle EXCEPT !.pc = "wake", !.k = "barrier", !.all = TRUE,
                                        !.ops = p[t].ops + 1]]
  /\ pred' = [u \in Threads |-> FALSE]
  /\ UNCHANGED <<mtx, sleepers, dead, lapse, stranded>>

Wake(t) == /\ t \in CanWake
           /\ \E b \in BOOLEAN : Call(t, [Idle EXCEPT !.k = "barrier", !.all = b])
           /\ pred' = [u \in Threads |-> FALSE]

TryLock(t) == /\ t \in CanTry /\ Call(t, [Idle EXCEPT !.k = "crit", !.timed = TRUE])
              /\ UNCHANGED pred

\* Seeded fault: EOWNERDEAD without pthread_mutex_consistent leaves the
\* mutex unrecoverable: the unlock gives it to nobody.
Lock_NotConsistent(t) ==
  /\ At(t, "lock") /\ mtx.owner = ""
  /\ mtx' = [mtx EXCEPT !.owner = t]
  /\ Goto(t, p[t].k)
  /\ UNCHANGED <<sleepers, pred, dead, lapse, stranded>>

\* lock, lock_timeout and try_lock on a free mutex; EOWNERDEAD makes it
\* consistent and counts as success.
Lock(t) ==
  /\ At(t, "lock") /\ mtx.owner = ""
  /\ mtx' = [owner |-> t, died |-> FALSE]
  /\ Goto(t, p[t].k)
  /\ UNCHANGED <<sleepers, pred, dead, lapse, stranded>>

\* EBUSY from try_lock, ETIMEDOUT from lock_timeout.
LockFails(t) ==
  /\ At(t, "lock") /\ p[t].k = "crit" /\ mtx.owner # ""
  /\ p' = Return(t)
  /\ UNCHANGED <<mtx, sleepers, pred, dead, lapse, stranded>>

Unlock(t) ==
  /\ At(t, "unlock")
  /\ mtx' = [mtx EXCEPT !.owner = ""]
  /\ p' = IF p[t].u = "idle" THEN Return(t) ELSE [p EXCEPT ![t].pc = p[t].u]
  /\ UNCHANGED <<sleepers, pred, dead, lapse, stranded>>

Leave(t) ==
  /\ p[t].pc \in {"crit", "barrier", "timeout"} /\ t \notin dead
  /\ p' = [p EXCEPT ![t].pc = "unlock",
                    ![t].u = IF p[t].pc = "barrier" THEN "wake" ELSE "idle"]
  /\ UNCHANGED <<mtx, sleepers, pred, dead, lapse, stranded>>

\* wait_if's loop, with the mutex held: done, or wait.
CheckPred(t) ==
  /\ At(t, "pred")
  /\ p' = IF pred[t] THEN [p EXCEPT ![t].pc = "wait"]
          ELSE [p EXCEPT ![t].pc = "unlock", ![t].u = "idle"]
  /\ pred' = [pred EXCEPT ![t] = TRUE]
  /\ UNCHANGED <<mtx, sleepers, dead, lapse, stranded>>

\* pthread_cond_wait releases the mutex and sleeps in one step.
CondWait(t) ==
  /\ At(t, "wait")
  /\ sleepers' = sleepers \cup {t} /\ mtx' = [mtx EXCEPT !.owner = ""]
  /\ Goto(t, "asleep")
  /\ UNCHANGED <<pred, dead, lapse, stranded>>

\* Signalled, or timed out: pthread_cond_wait takes the mutex back.  If its
\* owner died the error is returned at once, with the mutex held, and
\* wait_if passes it on without unlocking.
Reacquire(t) ==
  /\ At(t, "asleep") /\ mtx.owner = "" /\ (t \notin sleepers \/ p[t].timed)
  /\ mtx' = [mtx EXCEPT !.owner = t]
  /\ IF mtx.died THEN stranded' = stranded \cup {t} /\ p' = Return(t)
     ELSE Goto(t, IF t \in sleepers THEN "timeout" ELSE "pred") /\ UNCHANGED stranded
  /\ sleepers' = sleepers \ {t}
  /\ UNCHANGED <<pred, dead, lapse>>

\* pthread_cond_signal, pthread_cond_broadcast.
CondWake(t) ==
  /\ At(t, "wake")
  /\ \E S \in SUBSET sleepers :
       /\ IF p[t].all THEN S = sleepers ELSE sleepers # {} => S # {}
       /\ sleepers' = sleepers \ S
       /\ lapse' = (lapse \/ S # sleepers)
  /\ p' = Return(t)
  /\ UNCHANGED <<mtx, pred, dead, stranded>>

\* Killed; the robust mutex remembers that its owner was.
Die(t) ==
  /\ t \in MayDie \ dead
  /\ dead' = dead \cup {t} /\ sleepers' = sleepers \ {t} /\ stranded' = stranded \ {t}
  /\ mtx' = IF mtx.owner = t THEN [owner |-> "", died |-> TRUE] ELSE mtx
  /\ lapse' = (lapse \/ p[t].k = "barrier")
  /\ p' = [p EXCEPT ![t] = Idle]
  /\ UNCHANGED pred

Done == /\ \A t \in Threads \ dead :
             \/ p[t].pc = "idle" /\ (p[t].ops = MaxOps \/ t \in stranded)
             \/ t \in sleepers /\ ~p[t].timed
             \/ mtx.owner \in stranded
        /\ UNCHANGED vars

Step(t) == \/ Lock(t) \/ Unlock(t) \/ Leave(t) \/ CheckPred(t) \/ CondWait(t) \/ Reacquire(t) \/ CondWake(t)

Next == \/ \E t \in Threads : Step(t) \/ WaitIf(t) \/ Wake(t) \/ TryLock(t) \/ LockFails(t) \/ Die(t)
        \/ Done

Spec == Init /\ [][Next]_vars

-----------------------------------------------------------------------------
\* The robust mutex is never left unrecoverable or forgotten: its owner is a
\* live thread inside a call (or stranded by an EOWNERDEAD out of
\* pthread_cond_wait, which nothing makes consistent), and a thread that
\* took it through lock, lock_timeout or try_lock left it consistent.
PxOwned ==
  /\ mtx.owner # "" => /\ mtx.owner \notin dead
                       /\ p[mtx.owner].pc # "idle" \/ mtx.owner \in stranded
  /\ mtx.died => mtx.owner = "" \/ mtx.owner \in stranded

\* Waiter::broadcast loses no wake-up.
PxNoLostWakeup ==
  \A t \in sleepers : ~pred[t] /\ ~lapse /\ stranded = {}
                        => \E u \in Threads \ dead : p[u].k = "barrier"
=============================================================================
