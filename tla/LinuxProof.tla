----------------------------- MODULE LinuxProof -----------------------------
(***************************************************************************)
(* The Linux mutex and condition, for every number of threads, processes   *)
(* and calls: who is past its lock is the owner the futex word names, no   *)
(* death leaves the mutex to a dead thread, and no broadcast is lost.  At  *)
(* the end the connection bits, for every number of endpoints and bits.    *)
(***************************************************************************)
EXTENDS LinuxSync, ConnHead, TLAPS

Labels == {"idle", "lock", "lock_pi", "queued", "add", "op_end", "pred", "load", "woken",
           "timeout", "barrier", "crit", "unlock", "release", "released", "park", "asleep",
           "bump", "requeue"}
Goals == {"pred", "barrier", "crit", "woken", "timeout"}
Calls == [pc : Labels, k : Goals \cup {"idle"}, u : {"idle", "lock", "park", "bump"},
          timed : BOOLEAN, seq : Nat, cnt : {0, 1, Cardinality(Threads)},
          left : {Free, FTX_NOTRECOVERABLE}, ops : Nat]

Unlocking == {"unlock", "release", "released"}

\* A call on its way to the mutex knows what it wants it for; a waker comes by
\* the barrier and the bump; what an unlock leaves behind is a free word.
Shape(c) ==
  /\ c.pc \in {"lock", "lock_pi", "queued", "add", "op_end", "park", "asleep"} => c.k \in Goals
  /\ c.pc \in Unlocking /\ c.u \in {"lock", "park"} => c.k \in Goals
  /\ c.k = "barrier" =>
       \/ c.pc \in {"lock", "lock_pi", "queued", "add", "op_end", "barrier", "bump", "requeue"}
       \/ c.pc \in Unlocking /\ c.u \in {"lock", "bump"}
  /\ c.pc = "release" => c.left = Free

TypeInv ==
  /\ ftx \in [tid : Threads \cup {0}, died : BOOLEAN, waiters : BOOLEAN]
  /\ cnd \in Nat
  /\ sleepers \subseteq Threads /\ queue \subseteq Threads
  /\ pend \subseteq Threads /\ listed \subseteq Threads /\ dead \subseteq Threads
  /\ pred \in [Threads -> BOOLEAN]
  /\ p \in [Threads -> Calls]
  /\ \A t \in Threads : Shape(p[t]) /\ p[t].seq <= cnd

-----------------------------------------------------------------------------
Inside == {"add", "op_end", "pred", "load", "woken", "timeout", "barrier", "crit", "unlock",
           "release"}
Settled == {"pred", "load", "woken", "timeout", "barrier", "crit", "unlock", "release"}
Pending == {"lock_pi", "queued", "asleep", "add", "op_end", "release"}
Listed == {"op_end", "pred", "load", "woken", "timeout", "barrier", "crit", "unlock"}

\* A live thread: it is inside exactly if the word names it, or has just been
\* given the mutex in its sleep; the word is consistent once its lock is done;
\* the kernel holds it at one place; and the robust list or the pending entry
\* names the mutex wherever the thread may own it.
Good(t) ==
  /\ ftx.tid = t => p[t].pc \in Inside \cup {"queued", "asleep"}
  /\ p[t].pc \in Inside => ftx.tid = t
  /\ p[t].pc \in Settled => ~ftx.died
  /\ t \in queue => p[t].pc \in {"queued", "asleep"} /\ ftx.tid # t /\ t \notin sleepers
  /\ t \in sleepers => p[t].pc = "asleep" /\ ftx.tid # t
  /\ p[t].pc \in Pending => t \in pend
  /\ p[t].pc \in Listed => t \in listed

Gone(t) == t \notin queue /\ t \notin sleepers /\ ftx.tid # t

MutexInv == \A t \in Threads : IF t \in dead THEN Gone(t) ELSE Good(t)

-----------------------------------------------------------------------------
Told(t) == (~pred[t] \/ ProcOf[t] \in quit) /\ ~lapse
Waker(u) == u \notin dead /\ p[u].k = "barrier"
ToBump(u) == Waker(u) /\ p[u].pc # "requeue"
\* A waker that has still to pass its barrier, and does not have the mutex.
Outside(u) == Waker(u) /\ \/ p[u].pc \in {"lock", "lock_pi", "queued"}
                          \/ p[u].pc = "released" /\ p[u].u = "lock"
\* A waiter from the load of the sequence number to its wake-up.
Parking(t) == p[t].pc \in {"park", "asleep"} \/ (p[t].pc \in Unlocking /\ p[t].u = "park")

\* A waiter that has been told: before it loads the sequence number the waker
\* has still to get the mutex; while the number it loaded is the current one
\* the waker has still to bump it; and a sleeper has a waker on the way.
WakeInv ==
  \A t \in Threads \ dead : Told(t) =>
    /\ p[t].pc = "load" => \E u \in Threads : Outside(u)
    /\ Parking(t) /\ p[t].seq = cnd => \E u \in Threads : ToBump(u)
    /\ t \in sleepers => \E u \in Threads : Waker(u)

LxInv == TypeInv /\ MutexInv /\ WakeInv

-----------------------------------------------------------------------------
(* The records of calls.                                                   *)

LEMMA Updated ==
  ASSUME p \in [Threads -> Calls], NEW t \in Threads, NEW e \in Calls, p' = [p EXCEPT ![t] = e]
  PROVE  p' \in [Threads -> Calls] /\ p'[t] = e /\ \A u \in Threads : u # t => p'[u] = p[u]
BY Zenon

\* A call that goes to another label.
LEMMA Moved ==
  ASSUME p \in [Threads -> Calls], NEW t \in Threads, NEW l \in Labels, Goto(t, l)
  PROVE  /\ p' \in [Threads -> Calls] /\ \A u \in Threads : u # t => p'[u] = p[u]
         /\ p'[t].pc = l /\ p'[t].k = p[t].k /\ p'[t].u = p[t].u /\ p'[t].seq = p[t].seq
         /\ p'[t].left = p[t].left
<1> DEFINE e == [p[t] EXCEPT !.pc = l]
<1>1. p[t] \in Calls
  OBVIOUS
<1>2. e \in Calls /\ e.pc = l /\ e.k = p[t].k /\ e.u = p[t].u /\ e.seq = p[t].seq /\ e.left = p[t].left
  BY <1>1, Zenon DEF Calls
<1>3. p' = [p EXCEPT ![t] = e]
  BY Zenon DEF Goto
<1> HIDE DEF e
<1> QED
  BY <1>2, <1>3, Updated, Zenon

\* One that is about to unlock.
LEMMA MovedToUnlock ==
  ASSUME p \in [Threads -> Calls], NEW t \in Threads, NEW v \in {"idle", "lock", "park", "bump"},
         p' = [p EXCEPT ![t].pc = "unlock", ![t].u = v]
  PROVE  /\ p' \in [Threads -> Calls] /\ \A u \in Threads : u # t => p'[u] = p[u]
         /\ p'[t].pc = "unlock" /\ p'[t].k = p[t].k /\ p'[t].u = v /\ p'[t].seq = p[t].seq
<1> DEFINE e == [p[t] EXCEPT !.pc = "unlock", !.u = v]
<1>1. p[t] \in Calls
  OBVIOUS
<1>2. e \in Calls /\ e.pc = "unlock" /\ e.k = p[t].k /\ e.u = v /\ e.seq = p[t].seq
  BY <1>1, Zenon DEF Calls, Labels
<1>3. p' = [p EXCEPT ![t] = e]
  BY Zenon
<1> HIDE DEF e
<1> QED
  BY <1>2, <1>3, Updated, Zenon

\* One that returns.
LEMMA Returned ==
  ASSUME p \in [Threads -> Calls], NEW t \in Threads, p' = Return(t)
  PROVE  /\ p' \in [Threads -> Calls] /\ \A u \in Threads : u # t => p'[u] = p[u]
         /\ p'[t].pc = "idle" /\ p'[t].k = "idle" /\ p'[t].u = "idle" /\ p'[t].seq = 0
<1> DEFINE e == [Idle EXCEPT !.ops = p[t].ops]
<1>1. p[t].ops \in Nat
  BY Zenon DEF Calls
<1>2. Idle \in Calls /\ Idle.pc = "idle" /\ Idle.k = "idle" /\ Idle.u = "idle" /\ Idle.seq = 0
  BY DEF Idle, Calls, Labels
<1>3. e \in Calls /\ e.pc = "idle" /\ e.k = "idle" /\ e.u = "idle" /\ e.seq = 0
  BY <1>1, <1>2, Zenon DEF Calls
<1>4. p' = [p EXCEPT ![t] = e]
  BY Zenon DEF Return
<1> HIDE DEF e
<1> QED
  BY <1>3, <1>4, Updated, Zenon

-----------------------------------------------------------------------------
(* What a step must do to keep the invariants.                             *)

LEMMA Types ==
  ASSUME LxInv
  PROVE  /\ ftx \in [tid : Threads \cup {0}, died : BOOLEAN, waiters : BOOLEAN]
         /\ sleepers \subseteq Threads /\ queue \subseteq Threads
         /\ pend \subseteq Threads /\ listed \subseteq Threads /\ dead \subseteq Threads
         /\ pred \in [Threads -> BOOLEAN]
BY Zenon DEF LxInv, TypeInv

LEMMA Facts ==
  ASSUME LxInv
  PROVE  /\ p \in [Threads -> Calls] /\ cnd \in Nat
         /\ ftx \in [tid : Threads \cup {0}, died : BOOLEAN, waiters : BOOLEAN]
         /\ \A t \in Threads : p[t] \in Calls /\ Shape(p[t]) /\ p[t].seq \in Nat /\ p[t].seq <= cnd
         /\ \A t \in Threads : t \notin dead => Good(t)
         /\ \A t \in Threads : t \in dead => Gone(t)
<1>1. p \in [Threads -> Calls] /\ cnd \in Nat
      /\ ftx \in [tid : Threads \cup {0}, died : BOOLEAN, waiters : BOOLEAN]
  BY Zenon DEF LxInv, TypeInv
<1>2. \A t \in Threads : p[t] \in Calls /\ p[t].seq \in Nat
  BY <1>1, Zenon DEF Calls
<1>3. \A t \in Threads : Shape(p[t]) /\ p[t].seq <= cnd
  BY Zenon DEF LxInv, TypeInv
<1> QED
  BY <1>1, <1>2, <1>3, Zenon DEF LxInv, MutexInv

\* One thread's call changed, and nothing the types speak of but what is typed.
LEMMA TypeStep ==
  ASSUME LxInv, NEW t \in Threads,
         p' \in [Threads -> Calls], \A u \in Threads : u # t => p'[u] = p[u],
         ftx' \in [tid : Threads \cup {0}, died : BOOLEAN, waiters : BOOLEAN],
         sleepers' \subseteq Threads, queue' \subseteq Threads,
         pend' \subseteq Threads, listed' \subseteq Threads, dead' = dead,
         cnd' = cnd, pred' \in [Threads -> BOOLEAN], Shape(p'[t]), p'[t].seq <= cnd
  PROVE  TypeInv'
<1>1. \A u \in Threads : Shape(p'[u]) /\ p'[u].seq <= cnd
  BY Facts, Zenon
<1>2. cnd' \in Nat /\ dead' \subseteq Threads
  BY Zenon DEF LxInv, TypeInv
<1> QED
  BY <1>1, <1>2, Zenon DEF TypeInv, Shape

\* The word's owner, and who the kernel holds, are the same for everyone but
\* the thread that moves.
LEMMA MutexStep ==
  ASSUME LxInv, NEW t \in Threads, t \notin dead, dead' = dead,
         \A u \in Threads : u # t => p'[u] = p[u],
         \A u \in Threads : u # t =>
            /\ ftx'.tid = u <=> ftx.tid = u
            /\ ftx.tid = u /\ ftx'.died => ftx.died
            /\ u \in queue' => u \in queue
            /\ u \in sleepers' => u \in sleepers
            /\ u \in pend => u \in pend'
            /\ u \in listed => u \in listed',
         Good(t)'
  PROVE  MutexInv'
<1>1. ASSUME NEW u \in Threads, u # t, u \in dead PROVE Gone(u)'
  BY <1>1, Facts, Zenon DEF Gone
<1>2. ASSUME NEW u \in Threads, u # t, u \notin dead PROVE Good(u)'
  <2>1. Good(u) /\ p'[u] = p[u]
    BY <1>2, Facts, Zenon
  <2>2. p[u].pc \in Settled => p[u].pc \in Inside
    BY Zenon DEF Settled, Inside
  <2> QED
    BY <1>2, <2>1, <2>2, Zenon DEF Good
<1> QED
  BY <1>1, <1>2, Zenon DEF MutexInv

\* The same for the wake-ups: a waker goes on towards its bump, leaves its
\* place outside the mutex only when nobody is about to load, and no new
\* waiter comes.
LEMMA WakeStep ==
  ASSUME LxInv, NEW t \in Threads, t \notin dead,
         dead' = dead, pred' = pred, quit' = quit, lapse' = lapse, cnd' = cnd,
         \A u \in Threads : u # t => p'[u] = p[u],
         sleepers' \subseteq sleepers,
         Waker(t) => p'[t].k = "barrier",
         ToBump(t) => p'[t].pc # "requeue",
         Outside(t) => Outside(t)' \/ \A s \in Threads : s \notin dead => p[s].pc # "load",
         p'[t].pc # "load",
         Parking(t)' => Parking(t) /\ p'[t].seq = p[t].seq
  PROVE  WakeInv'
<1> SUFFICES ASSUME NEW s \in Threads, s \notin dead, Told(s)
             PROVE  /\ p'[s].pc = "load" => \E u \in Threads : Outside(u)'
                    /\ Parking(s)' /\ p'[s].seq = cnd => \E u \in Threads : ToBump(u)'
                    /\ s \in sleepers' => \E u \in Threads : Waker(u)'
  BY Zenon DEF WakeInv, Told
<1>1. /\ p[s].pc = "load" => \E u \in Threads : Outside(u)
      /\ Parking(s) /\ p[s].seq = cnd => \E u \in Threads : ToBump(u)
      /\ s \in sleepers => \E u \in Threads : Waker(u)
  BY Zenon DEF LxInv, WakeInv
<1>2. \A u \in Threads : Waker(u) => Waker(u)'
  BY Zenon DEF Waker
<1>3. \A u \in Threads : ToBump(u) => ToBump(u)'
  BY <1>2, Zenon DEF ToBump
<1>4. p'[s].pc = "load" => s # t /\ p[s].pc = "load"
  BY Zenon
<1>5. p[s].pc = "load" => \A u \in Threads : Outside(u) => Outside(u)'
  BY Zenon DEF Outside, Waker
<1>6. Parking(s)' /\ p'[s].seq = cnd => Parking(s) /\ p[s].seq = cnd
  BY Zenon DEF Parking
<1> QED
  BY <1>1, <1>2, <1>3, <1>4, <1>5, <1>6, Zenon

\* Who is about to load has the mutex.
LEMMA NobodyLoads ==
  ASSUME LxInv, NEW t \in Threads, ftx.tid \in {0, t}, p[t].pc # "load"
  PROVE  \A s \in Threads : s \notin dead => p[s].pc # "load"
<1>1. 0 \notin Threads
  BY TidsPositive
<1>2. \A s \in Threads : s \notin dead /\ p[s].pc = "load" => ftx.tid = s
  BY Facts, Zenon DEF Good, Inside
<1> QED
  BY <1>1, <1>2, Zenon

-----------------------------------------------------------------------------
(* Locking.                                                                *)

LEMMA TimedLockKeeps ==
  ASSUME LxInv, NEW t \in Threads, TimedLock(t)
  PROVE  LxInv'
<1>0. /\ p[t].pc = "lock" /\ t \notin dead /\ pend' = pend \cup {t}
      /\ cnd' = cnd /\ sleepers' = sleepers /\ queue' = queue /\ listed' = listed
      /\ dead' = dead /\ quit' = quit /\ pred' = pred /\ lapse' = lapse
  BY Zenon DEF TimedLock, At, robust_op_start, kernel, client
<1>1. Good(t) /\ Shape(p[t]) /\ p \in [Threads -> Calls] /\ p[t].seq <= cnd
  BY <1>0, Facts, Zenon
<1>2. ftx.tid # t /\ t \notin queue /\ t \notin sleepers
  BY <1>0, <1>1, Zenon DEF Good, Inside
<1>3. ftx # FTX_NOTRECOVERABLE
  <2>1. -1 \notin Threads \cup {0}
    BY TidsPositive
  <2>2. ftx.tid # -1
    BY <2>1, Facts, Zenon
  <2>3. FTX_NOTRECOVERABLE.tid = -1
    BY DEF FTX_NOTRECOVERABLE
  <2> QED
    BY <2>2, <2>3, Zenon
<1>4. CASE ftx = Free
  <2>1. ftx' = [Free EXCEPT !.tid = t] /\ Goto(t, "add")
    BY <1>3, <1>4, Zenon DEF TimedLock
  <2>2. ftx' \in [tid : Threads \cup {0}, died : BOOLEAN, waiters : BOOLEAN] /\ ftx'.tid = t /\ ~ftx'.died
    BY <2>1, Zenon DEF Free
  <2>3. ftx.tid = 0 /\ 0 \notin Threads
    BY <1>4, TidsPositive DEF Free
  <2>4. /\ p' \in [Threads -> Calls] /\ \A u \in Threads : u # t => p'[u] = p[u]
        /\ p'[t].pc = "add" /\ p'[t].k = p[t].k /\ p'[t].u = p[t].u /\ p'[t].seq = p[t].seq
    BY <1>1, <2>1, Moved, Zenon DEF Labels
  <2>5. Shape(p'[t])
    BY <1>0, <1>1, <2>4, Zenon DEF Shape, Unlocking
  <2>6. TypeInv'
    BY <1>0, <1>1, <2>2, <2>4, <2>5, Types, TypeStep, Zenon
  <2>7. Good(t)'
    BY <1>0, <1>2, <2>2, <2>4, Zenon DEF Good, Inside, Settled, Pending, Listed
  <2>8. MutexInv'
    BY <1>0, <2>2, <2>3, <2>4, <2>7, MutexStep, Zenon
  <2>9. \A s \in Threads : s \notin dead => p[s].pc # "load"
    BY <1>0, <2>3, NobodyLoads, Zenon
  <2>10. WakeInv'
    BY <1>0, <2>4, <2>9, WakeStep, Zenon DEF Waker, Parking, Unlocking
  <2> QED
    BY <2>6, <2>8, <2>10 DEF LxInv
<1>5. CASE ftx # Free
  <2>1. ftx' = ftx /\ Goto(t, "lock_pi")
    BY <1>3, <1>5, Zenon DEF TimedLock
  <2>4. /\ p' \in [Threads -> Calls] /\ \A u \in Threads : u # t => p'[u] = p[u]
        /\ p'[t].pc = "lock_pi" /\ p'[t].k = p[t].k /\ p'[t].u = p[t].u /\ p'[t].seq = p[t].seq
    BY <1>1, <2>1, Moved, Zenon DEF Labels
  <2>5. Shape(p'[t])
    BY <1>0, <1>1, <2>4, Zenon DEF Shape, Unlocking
  <2>6. TypeInv'
    BY <1>0, <1>1, <2>1, <2>4, <2>5, Types, TypeStep, Zenon
  <2>7. Good(t)'
    BY <1>0, <1>2, <2>1, <2>4, Zenon DEF Good, Inside, Settled, Pending, Listed
  <2>8. MutexInv'
    BY <1>0, <2>1, <2>4, <2>7, MutexStep, Zenon
  <2>10. WakeInv'
    BY <1>0, <2>4, WakeStep, Zenon DEF Waker, Outside, Parking, Unlocking
  <2> QED
    BY <2>6, <2>8, <2>10 DEF LxInv
<1> QED
  BY <1>4, <1>5

LEMMA LockPiKeeps ==
  ASSUME LxInv, NEW t \in Threads, LockPi(t)
  PROVE  LxInv'
<1>0. /\ p[t].pc = "lock_pi" /\ t \notin dead /\ pend' = pend
      /\ cnd' = cnd /\ sleepers' = sleepers /\ listed' = listed
      /\ dead' = dead /\ quit' = quit /\ pred' = pred /\ lapse' = lapse
  BY Zenon DEF LockPi, At, robust, client
<1>1. /\ Good(t) /\ Shape(p[t]) /\ p \in [Threads -> Calls] /\ p[t].seq <= cnd
      /\ ftx \in [tid : Threads \cup {0}, died : BOOLEAN, waiters : BOOLEAN]
  BY <1>0, Facts, Zenon
<1>2. ftx.tid # t /\ t \notin queue /\ t \notin sleepers /\ t \in pend
  BY <1>0, <1>1, Zenon DEF Good, Inside, Pending
<1>4. CASE ftx.tid = 0
  <2>1. ftx' = [ftx EXCEPT !.tid = t] /\ Goto(t, "add") /\ queue' = queue
    BY <1>4, Zenon DEF LockPi
  <2>2. ftx' \in [tid : Threads \cup {0}, died : BOOLEAN, waiters : BOOLEAN] /\ ftx'.tid = t
    BY <1>1, <2>1, Zenon
  <2>3. 0 \notin Threads
    BY TidsPositive
  <2>4. /\ p' \in [Threads -> Calls] /\ \A u \in Threads : u # t => p'[u] = p[u]
        /\ p'[t].pc = "add" /\ p'[t].k = p[t].k /\ p'[t].u = p[t].u /\ p'[t].seq = p[t].seq
    BY <1>1, <2>1, Moved, Zenon DEF Labels
  <2>5. Shape(p'[t])
    BY <1>0, <1>1, <2>4, Zenon DEF Shape, Unlocking
  <2>6. TypeInv'
    BY <1>0, <1>1, <2>1, <2>2, <2>4, <2>5, Types, TypeStep, Zenon
  <2>7. Good(t)'
    BY <1>0, <1>2, <2>1, <2>2, <2>4, Zenon DEF Good, Inside, Settled, Pending, Listed
  <2>8. MutexInv'
    BY <1>0, <1>4, <2>1, <2>2, <2>3, <2>4, <2>7, MutexStep, Zenon
  <2>9. \A s \in Threads : s \notin dead => p[s].pc # "load"
    BY <1>0, <1>4, NobodyLoads, Zenon
  <2>10. WakeInv'
    BY <1>0, <2>4, <2>9, WakeStep, Zenon DEF Waker, Parking, Unlocking
  <2> QED
    BY <2>6, <2>8, <2>10 DEF LxInv
<1>5. CASE ftx.tid # 0
  <2>1. ftx' = [ftx EXCEPT !.waiters = TRUE] /\ Goto(t, "queued") /\ queue' = queue \cup {t}
    BY <1>5, Zenon DEF LockPi
  <2>2. /\ ftx' \in [tid : Threads \cup {0}, died : BOOLEAN, waiters : BOOLEAN]
        /\ ftx'.tid = ftx.tid /\ ftx'.died = ftx.died
    BY <1>1, <2>1, Zenon
  <2>4. /\ p' \in [Threads -> Calls] /\ \A u \in Threads : u # t => p'[u] = p[u]
        /\ p'[t].pc = "queued" /\ p'[t].k = p[t].k /\ p'[t].u = p[t].u /\ p'[t].seq = p[t].seq
    BY <1>1, <2>1, Moved, Zenon DEF Labels
  <2>5. Shape(p'[t])
    BY <1>0, <1>1, <2>4, Zenon DEF Shape, Unlocking
  <2>6. TypeInv'
    BY <1>0, <1>1, <2>1, <2>2, <2>4, <2>5, Types, TypeStep, Zenon
  <2>7. Good(t)'
    BY <1>0, <1>2, <2>2, <2>4, Zenon DEF Good, Inside, Settled, Pending, Listed
  <2>8. MutexInv'
    BY <1>0, <2>1, <2>2, <2>4, <2>7, MutexStep, Zenon
  <2>10. WakeInv'
    BY <1>0, <2>4, WakeStep, Zenon DEF Waker, Outside, Parking, Unlocking
  <2> QED
    BY <2>6, <2>8, <2>10 DEF LxInv
<1> QED
  BY <1>4, <1>5

LEMMA GrantedKeeps ==
  ASSUME LxInv, NEW t \in Threads, Granted(t)
  PROVE  LxInv'
<1>0. /\ p[t].pc \in {"queued", "asleep"} /\ t \notin dead /\ ftx.tid = t /\ ftx' = ftx /\ pend' = pend
      /\ cnd' = cnd /\ sleepers' = sleepers /\ queue' = queue /\ listed' = listed
      /\ dead' = dead /\ quit' = quit /\ pred' = pred /\ lapse' = lapse /\ Goto(t, "add")
  BY Zenon DEF Granted, kernel, robust, client
<1>1. Good(t) /\ Shape(p[t]) /\ p \in [Threads -> Calls] /\ p[t].seq <= cnd
  BY <1>0, Facts, Zenon
<1>2. t \notin queue /\ t \notin sleepers /\ t \in pend
  BY <1>0, <1>1, Zenon DEF Good, Pending
<1>4. /\ p' \in [Threads -> Calls] /\ \A u \in Threads : u # t => p'[u] = p[u]
      /\ p'[t].pc = "add" /\ p'[t].k = p[t].k /\ p'[t].u = p[t].u /\ p'[t].seq = p[t].seq
  BY <1>0, <1>1, Moved, Zenon DEF Labels
<1>5. Shape(p'[t])
  BY <1>0, <1>1, <1>4, Zenon DEF Shape, Unlocking
<1>6. TypeInv'
  BY <1>0, <1>1, <1>4, <1>5, Types, TypeStep, Zenon
<1>7. Good(t)'
  BY <1>0, <1>2, <1>4, Zenon DEF Good, Inside, Settled, Pending, Listed
<1>8. MutexInv'
  BY <1>0, <1>4, <1>7, MutexStep, Zenon
<1>9. \A s \in Threads : s \notin dead => p[s].pc # "load"
  BY <1>0, NobodyLoads, Zenon
<1>10. WakeInv'
  BY <1>0, <1>4, <1>9, WakeStep, Zenon DEF Waker, ToBump, Parking, Unlocking
<1> QED
  BY <1>6, <1>8, <1>10 DEF LxInv

LEMMA InterruptedKeeps ==
  ASSUME LxInv, NEW t \in Threads, Interrupted(t)
  PROVE  LxInv'
<1>0. /\ ftx.tid # t /\ t \notin dead /\ ftx' = ftx /\ pend' = pend
      /\ cnd' = cnd /\ sleepers' = sleepers \ {t} /\ queue' = queue \ {t} /\ listed' = listed
      /\ dead' = dead /\ quit' = quit /\ pred' = pred /\ lapse' = lapse
  BY Zenon DEF Interrupted, At, robust, client
<1>1. Good(t) /\ Shape(p[t]) /\ p \in [Threads -> Calls] /\ p[t].seq <= cnd
  BY <1>0, Facts, Zenon
<1>2. PICK l \in {"lock", "park"} : /\ Goto(t, l) /\ p[t].pc \in {"queued", "asleep"}
                                    /\ l = "park" => p[t].pc = "asleep"
                                    /\ l = "lock" => p[t].pc = "queued"
  BY Zenon DEF Interrupted, At
<1>4. /\ p' \in [Threads -> Calls] /\ \A u \in Threads : u # t => p'[u] = p[u]
      /\ p'[t].pc = l /\ p'[t].k = p[t].k /\ p'[t].u = p[t].u /\ p'[t].seq = p[t].seq
  BY <1>1, <1>2, Moved, Zenon DEF Labels
<1>5. Shape(p'[t])
  BY <1>1, <1>2, <1>4, Zenon DEF Shape, Unlocking
<1>6. TypeInv'
  BY <1>0, <1>1, <1>4, <1>5, Types, TypeStep, Zenon
<1>7. Good(t)'
  BY <1>0, <1>2, <1>4, Zenon DEF Good, Inside, Settled, Pending, Listed
<1>8. MutexInv'
  BY <1>0, <1>4, <1>7, MutexStep, Zenon
<1>9. Outside(t) => Outside(t)'
  BY <1>0, <1>1, <1>2, <1>4, Zenon DEF Waker, Outside, Shape
<1>10. WakeInv'
  BY <1>0, <1>2, <1>4, <1>9, WakeStep, Zenon DEF Waker, Parking, Unlocking
<1> QED
  BY <1>6, <1>8, <1>10 DEF LxInv

LEMMA TimedOutKeeps ==
  ASSUME LxInv, NEW t \in Threads, TimedOut(t)
  PROVE  LxInv'
<1>0. /\ ftx.tid # t /\ t \notin dead /\ ftx' = ftx
      /\ cnd' = cnd /\ sleepers' = sleepers \ {t} /\ queue' = queue \ {t} /\ listed' = listed
      /\ dead' = dead /\ quit' = quit /\ pred' = pred /\ lapse' = lapse
  BY Zenon DEF TimedOut, client
<1>1. Good(t) /\ Shape(p[t]) /\ p \in [Threads -> Calls] /\ p[t].seq <= cnd
  BY <1>0, Facts, Zenon
<1>2. CASE p[t].pc = "queued" /\ p[t].k = "crit" /\ p' = Return(t) /\ robust_op_end(t)
  <2>4. /\ p' \in [Threads -> Calls] /\ \A u \in Threads : u # t => p'[u] = p[u]
        /\ p'[t].pc = "idle" /\ p'[t].k = "idle" /\ p'[t].u = "idle" /\ p'[t].seq = 0
    BY <1>1, <1>2, Returned, Zenon
  <2>5. Shape(p'[t]) /\ p'[t].seq <= cnd
    <3>1. 0 <= cnd
      BY Facts
    <3> QED
      BY <3>1, <2>4, Zenon DEF Shape, Unlocking
  <2>6. TypeInv'
    BY <1>0, <1>1, <1>2, <2>4, <2>5, TypeStep, Zenon DEF LxInv, TypeInv, robust_op_end
  <2>7. Good(t)'
    BY <1>0, <2>4, Zenon DEF Good, Inside, Settled, Pending, Listed
  <2>8. MutexInv'
    BY <1>0, <1>2, <2>4, <2>7, MutexStep, Zenon DEF robust_op_end
  <2>10. WakeInv'
    BY <1>0, <1>2, <2>4, WakeStep, Zenon DEF Waker, ToBump, Outside, Parking, Unlocking
  <2> QED
    BY <2>6, <2>8, <2>10 DEF LxInv
<1>3. CASE /\ p[t].pc = "asleep" /\ p' = [p EXCEPT ![t].pc = "lock", ![t].k = "timeout"]
           /\ pend' = pend
  <2> DEFINE e == [p[t] EXCEPT !.pc = "lock", !.k = "timeout"]
  <2>1. p[t] \in Calls
    BY <1>1
  <2>2. e \in Calls /\ e.pc = "lock" /\ e.k = "timeout" /\ e.u = p[t].u /\ e.seq = p[t].seq
    BY <2>1, Zenon DEF Calls, Labels, Goals
  <2>3. p' = [p EXCEPT ![t] = e]
    BY <1>3, Zenon
  <2> HIDE DEF e
  <2>4. /\ p' \in [Threads -> Calls] /\ \A u \in Threads : u # t => p'[u] = p[u]
        /\ p'[t].pc = "lock" /\ p'[t].k = "timeout" /\ p'[t].u = p[t].u /\ p'[t].seq = p[t].seq
    BY <1>1, <2>2, <2>3, Updated, Zenon
  <2>5. Shape(p'[t])
    BY <2>4, Zenon DEF Shape, Unlocking, Goals
  <2>6. TypeInv'
    BY <1>0, <1>1, <1>3, <2>4, <2>5, Types, TypeStep, Zenon
  <2>7. Good(t)'
    BY <1>0, <2>4, Zenon DEF Good, Inside, Settled, Pending, Listed
  <2>8. MutexInv'
    BY <1>0, <1>3, <2>4, <2>7, MutexStep, Zenon
  <2>9. ~Waker(t)
    BY <1>1, <1>3, Zenon DEF Waker, Shape, Unlocking
  <2>10. WakeInv'
    BY <1>0, <2>4, <2>9, WakeStep, Zenon DEF ToBump, Outside, Parking, Unlocking
  <2> QED
    BY <2>6, <2>8, <2>10 DEF LxInv
<1> QED
  BY <1>2, <1>3, Zenon DEF TimedOut

LEMMA RobustOpAddKeeps ==
  ASSUME LxInv, NEW t \in Threads, RobustOpAdd(t)
  PROVE  LxInv'
<1>0. /\ p[t].pc = "add" /\ t \notin dead /\ ftx' = ftx /\ pend' = pend
      /\ cnd' = cnd /\ sleepers' = sleepers /\ queue' = queue /\ listed' = listed \cup {t}
      /\ dead' = dead /\ quit' = quit /\ pred' = pred /\ lapse' = lapse /\ Goto(t, "op_end")
  BY Zenon DEF RobustOpAdd, At, kernel, client
<1>1. Good(t) /\ Shape(p[t]) /\ p \in [Threads -> Calls] /\ p[t].seq <= cnd
  BY <1>0, Facts, Zenon
<1>2. ftx.tid = t /\ t \notin queue /\ t \notin sleepers /\ t \in pend
  BY <1>0, <1>1, Zenon DEF Good, Inside, Pending
<1>4. /\ p' \in [Threads -> Calls] /\ \A u \in Threads : u # t => p'[u] = p[u]
      /\ p'[t].pc = "op_end" /\ p'[t].k = p[t].k /\ p'[t].u = p[t].u /\ p'[t].seq = p[t].seq
  BY <1>0, <1>1, Moved, Zenon DEF Labels
<1>5. Shape(p'[t])
  BY <1>0, <1>1, <1>4, Zenon DEF Shape, Unlocking
<1>6. TypeInv'
  BY <1>0, <1>1, <1>4, <1>5, Types, TypeStep, Zenon
<1>7. Good(t)'
  BY <1>0, <1>2, <1>4, Zenon DEF Good, Inside, Settled, Pending, Listed
<1>8. MutexInv'
  BY <1>0, <1>4, <1>7, MutexStep, Zenon
<1>10. WakeInv'
  BY <1>0, <1>4, WakeStep, Zenon DEF Waker, ToBump, Outside, Parking, Unlocking
<1> QED
  BY <1>6, <1>8, <1>10 DEF LxInv

LEMMA LockDoneKeeps ==
  ASSUME LxInv, NEW t \in Threads, LockDone(t)
  PROVE  LxInv'
<1>0. /\ p[t].pc = "op_end" /\ t \notin dead /\ pend' = pend \ {t} /\ ftx' = [ftx EXCEPT !.died = FALSE]
      /\ cnd' = cnd /\ sleepers' = sleepers /\ queue' = queue /\ listed' = listed
      /\ dead' = dead /\ quit' = quit /\ pred' = pred /\ lapse' = lapse
  BY Zenon DEF LockDone, At, kernel, client, robust_op_end, mtx_consistent
<1>1. /\ Good(t) /\ Shape(p[t]) /\ p \in [Threads -> Calls] /\ p[t].seq <= cnd
      /\ ftx \in [tid : Threads \cup {0}, died : BOOLEAN, waiters : BOOLEAN]
  BY <1>0, Facts, Zenon
<1>2. ftx.tid = t /\ t \notin queue /\ t \notin sleepers /\ t \in listed /\ p[t].k \in Goals
  BY <1>0, <1>1, Zenon DEF Good, Inside, Listed, Shape
<1>3. /\ ftx' \in [tid : Threads \cup {0}, died : BOOLEAN, waiters : BOOLEAN]
      /\ ftx'.tid = t /\ ~ftx'.died
  BY <1>0, <1>1, <1>2, Zenon
\* With the mutex settled, where the call goes is all that is left to say.
<1>4. ASSUME p' \in [Threads -> Calls], \A u \in Threads : u # t => p'[u] = p[u],
             p'[t].k = p[t].k, p'[t].seq = p[t].seq,
             \/ p'[t].pc \in Goals /\ (p[t].k = "barrier" => p'[t].pc = "barrier")
             \/ p'[t].pc = "unlock" /\ p'[t].u = "lock"
      PROVE  LxInv'
  <2>1. Shape(p'[t])
    BY <1>2, <1>4, Zenon DEF Shape, Unlocking, Goals
  <2>2. TypeInv'
    BY <1>0, <1>1, <1>3, <1>4, <2>1, Types, TypeStep, Zenon
  <2>3. p'[t].pc \in {"pred", "barrier", "crit", "woken", "timeout", "unlock"}
    BY <1>4, Zenon DEF Goals
  <2>4. Good(t)'
    BY <1>0, <1>2, <1>3, <2>3, Zenon DEF Good, Inside, Settled, Pending, Listed
  <2>5. MutexInv'
    BY <1>0, <1>2, <1>3, <1>4, <2>4, MutexStep, Zenon
  <2>6. p'[t].pc # "load" /\ p'[t].pc # "requeue" /\ ~Parking(t)'
    BY <1>4, <2>3, Zenon DEF Parking, Unlocking, Goals
  <2>7. WakeInv'
    BY <1>0, <1>4, <2>6, WakeStep, Zenon DEF Waker, Outside
  <2> QED
    BY <2>2, <2>5, <2>7 DEF LxInv
<1>5. CASE ~ftx.died
  <2>1. Goto(t, p[t].k)
    BY <1>5, Zenon DEF LockDone, Goto
  <2>2. p[t].k \in Labels
    BY <1>2, Zenon DEF Goals, Labels
  <2>3. /\ p' \in [Threads -> Calls] /\ \A u \in Threads : u # t => p'[u] = p[u]
        /\ p'[t].pc = p[t].k /\ p'[t].k = p[t].k /\ p'[t].seq = p[t].seq
    BY <1>1, <2>1, <2>2, Moved, Zenon
  <2> QED
    BY <1>2, <1>4, <2>3, Zenon
<1>6. CASE ftx.died /\ p[t].k \in {"woken", "timeout"}
  <2>1. Goto(t, "woken")
    BY <1>6, Zenon DEF LockDone, Goto
  <2> QED
    BY <1>1, <1>4, <1>6, <2>1, Moved, Zenon DEF Goals, Labels
<1>7. CASE ftx.died /\ p[t].k \notin {"woken", "timeout"}
  <2>1. p' = [p EXCEPT ![t].pc = "unlock", ![t].u = "lock"]
    BY <1>7, Zenon DEF LockDone
  <2> QED
    BY <1>1, <1>4, <2>1, MovedToUnlock, Zenon
<1> QED
  BY <1>5, <1>6, <1>7, Zenon

-----------------------------------------------------------------------------
(* Unlocking.                                                              *)

LEMMA UnlockKeeps ==
  ASSUME LxInv, NEW t \in Threads, MtxUnlock(t)
  PROVE  LxInv'
<1>0. /\ p[t].pc = "unlock" /\ t \notin dead /\ ftx' = ftx
      /\ cnd' = cnd /\ sleepers' = sleepers /\ queue' = queue
      /\ dead' = dead /\ quit' = quit /\ pred' = pred /\ lapse' = lapse
  BY Zenon DEF MtxUnlock, At, kernel, client
<1>1. Good(t) /\ Shape(p[t]) /\ p \in [Threads -> Calls] /\ p[t].seq <= cnd /\ p[t] \in Calls
  BY <1>0, Facts, Zenon
<1>2. ftx.tid = t /\ t \notin queue /\ t \notin sleepers /\ ~ftx.died
  BY <1>0, <1>1, Zenon DEF Good, Inside, Settled
<1>3. /\ p' = [p EXCEPT ![t].pc = "release", ![t].left = Free]
      /\ pend' = pend \cup {t} /\ listed' = listed \ {t}
  BY <1>2, Zenon DEF MtxUnlock, robust_op_start, robust_op_del
<1> DEFINE e == [p[t] EXCEPT !.pc = "release", !.left = Free]
<1>4. /\ e \in Calls /\ e.pc = "release" /\ e.k = p[t].k /\ e.u = p[t].u /\ e.seq = p[t].seq
      /\ e.left = Free
  BY <1>1, Zenon DEF Calls, Labels
<1>5. p' = [p EXCEPT ![t] = e]
  BY <1>3, Zenon
<1> HIDE DEF e
<1>6. /\ p' \in [Threads -> Calls] /\ \A u \in Threads : u # t => p'[u] = p[u]
      /\ p'[t].pc = "release" /\ p'[t].k = p[t].k /\ p'[t].u = p[t].u /\ p'[t].seq = p[t].seq
      /\ p'[t].left = Free
  BY <1>1, <1>4, <1>5, Updated, Zenon
<1>7. Shape(p'[t])
  BY <1>0, <1>1, <1>6, Zenon DEF Shape, Unlocking
<1>7a. pend' \subseteq Threads /\ listed' \subseteq Threads
  BY <1>3, Types, Zenon
<1>8. TypeInv'
  BY <1>0, <1>1, <1>6, <1>7, <1>7a, Types, TypeStep, Zenon
<1>9. Good(t)'
  BY <1>0, <1>2, <1>3, <1>6, Zenon DEF Good, Inside, Settled, Pending, Listed
<1>10. MutexInv'
  BY <1>0, <1>3, <1>6, <1>9, MutexStep, Zenon
<1>11. WakeInv'
  BY <1>0, <1>6, WakeStep, Zenon DEF Waker, ToBump, Outside, Parking, Unlocking
<1> QED
  BY <1>8, <1>10, <1>11 DEF LxInv

LEMMA ReleaseKeeps ==
  ASSUME LxInv, NEW t \in Threads, Release(t)
  PROVE  LxInv'
<1>0. /\ p[t].pc = "release" /\ t \notin dead /\ queue' = queue \ {ftx'.tid}
      /\ cnd' = cnd /\ sleepers' = sleepers /\ pend' = pend /\ listed' = listed
      /\ dead' = dead /\ quit' = quit /\ pred' = pred /\ lapse' = lapse /\ Goto(t, "released")
  BY Zenon DEF Release, At, robust, client
<1>1. /\ Good(t) /\ Shape(p[t]) /\ p \in [Threads -> Calls] /\ p[t].seq <= cnd
      /\ queue \subseteq Threads /\ sleepers \subseteq Threads
  BY <1>0, Facts, Zenon DEF LxInv, TypeInv
<1>2. ftx.tid = t /\ t \notin queue /\ t \notin sleepers /\ p[t].left = Free
  BY <1>0, <1>1, Zenon DEF Good, Inside, Shape
\* Freed, or handed to a thread the kernel holds on the mutex.
<1>3. /\ ftx' \in [tid : Threads \cup {0}, died : BOOLEAN, waiters : BOOLEAN]
      /\ ~ftx'.died /\ ftx'.tid \in queue \cup {0}
  <2>1. /\ Free \in [tid : Threads \cup {0}, died : BOOLEAN, waiters : BOOLEAN]
        /\ Free.tid = 0 /\ ~Free.died
    BY Zenon DEF Free
  <2>2. CASE ftx' = Free
    BY <2>1, <2>2, Zenon
  <2>3. CASE ftx' \in HandOver(queue, FALSE)
    <3>1. CASE queue = {}
      <4>1. ftx' = [Free EXCEPT !.died = FALSE]
        BY <2>3, <3>1, Zenon DEF HandOver
      <4> QED
        BY <2>1, <4>1, Zenon
    <3>2. CASE queue # {}
      <4>1. PICK w \in queue : ftx' = [tid |-> w, died |-> FALSE, waiters |-> TRUE]
        BY <2>3, <3>2, Zenon DEF HandOver
      <4> QED
        BY <1>1, <4>1, Zenon
    <3> QED
      BY <3>1, <3>2
  <2> QED
    BY <1>2, <2>2, <2>3, Zenon DEF Release
<1>4. /\ p' \in [Threads -> Calls] /\ \A u \in Threads : u # t => p'[u] = p[u]
      /\ p'[t].pc = "released" /\ p'[t].k = p[t].k /\ p'[t].u = p[t].u /\ p'[t].seq = p[t].seq
  BY <1>0, <1>1, Moved, Zenon DEF Labels
<1>5. Shape(p'[t])
  BY <1>0, <1>1, <1>4, Zenon DEF Shape, Unlocking
<1>6. TypeInv'
  BY <1>0, <1>1, <1>3, <1>4, <1>5, Types, TypeStep, Zenon
<1>7. 0 \notin Threads
  BY TidsPositive
<1>8. Good(t)'
  BY <1>0, <1>2, <1>3, <1>4, <1>7, Zenon DEF Good, Inside, Settled, Pending, Listed
<1>9. ASSUME NEW u \in Threads, u # t, u \in dead PROVE Gone(u)'
  BY <1>0, <1>3, <1>7, <1>9, Facts, Zenon DEF Gone
<1>10. ASSUME NEW u \in Threads, u # t, u \notin dead PROVE Good(u)'
  <2>1. Good(u) /\ p'[u] = p[u]
    BY <1>4, <1>10, Facts, Zenon
  <2>2. p[u].pc \notin Inside /\ p[u].pc \notin Settled
    BY <1>2, <1>10, <2>1, Zenon DEF Good, Settled, Inside
  <2> QED
    BY <1>0, <1>3, <1>7, <1>10, <2>1, <2>2, Zenon DEF Good
<1>11. MutexInv'
  BY <1>0, <1>8, <1>9, <1>10, Zenon DEF MutexInv
<1>12. \A s \in Threads : s \notin dead => p[s].pc # "load"
  BY <1>0, <1>2, NobodyLoads, Zenon
<1>13. WakeInv'
  BY <1>0, <1>4, <1>12, WakeStep, Zenon DEF Waker, ToBump, Parking, Unlocking
<1> QED
  BY <1>6, <1>11, <1>13 DEF LxInv

LEMMA UnlockedKeeps ==
  ASSUME LxInv, NEW t \in Threads, Unlocked(t)
  PROVE  LxInv'
<1>0. /\ p[t].pc = "released" /\ t \notin dead /\ ftx' = ftx /\ pend' = pend \ {t}
      /\ cnd' = cnd /\ sleepers' = sleepers /\ queue' = queue /\ listed' = listed
      /\ dead' = dead /\ quit' = quit /\ pred' = pred /\ lapse' = lapse
  BY Zenon DEF Unlocked, At, kernel, client, robust_op_end
<1>1. Good(t) /\ Shape(p[t]) /\ p \in [Threads -> Calls] /\ p[t].seq <= cnd /\ 0 <= cnd
  BY <1>0, Facts
<1>2. ftx.tid # t /\ t \notin queue /\ t \notin sleepers
  BY <1>0, <1>1, Zenon DEF Good, Inside
<1>3. p[t].u \in {"idle", "lock", "park", "bump"}
  BY <1>1, Zenon DEF Calls
<1>4. /\ p' \in [Threads -> Calls] /\ \A u \in Threads : u # t => p'[u] = p[u]
      /\ p'[t].pc = p[t].u /\ p'[t].seq <= cnd
      /\ p[t].u # "idle" => p'[t].k = p[t].k /\ p'[t].seq = p[t].seq /\ p'[t].u = p[t].u
      /\ p[t].u = "idle" => p'[t].k = "idle"
  <2>1. CASE p[t].u = "idle"
    BY <1>1, <2>1, Returned, Zenon DEF Unlocked
  <2>2. CASE p[t].u # "idle"
    <3>0. p[t].u \in Labels
      BY <1>3, Zenon DEF Labels
    <3>1. Goto(t, p[t].u)
      BY <2>2, Zenon DEF Unlocked, Goto
    <3> QED
      BY <1>1, <2>2, <3>0, <3>1, Moved, Zenon
  <2> QED
    BY <2>1, <2>2
<1>5. Shape(p'[t])
  BY <1>0, <1>1, <1>3, <1>4, Zenon DEF Shape, Unlocking
<1>6. TypeInv'
  BY <1>0, <1>1, <1>4, <1>5, Types, TypeStep, Zenon
<1>7. Good(t)'
  BY <1>0, <1>2, <1>3, <1>4, Zenon DEF Good, Inside, Settled, Pending, Listed
<1>8. MutexInv'
  BY <1>0, <1>4, <1>7, MutexStep, Zenon
<1>9. Waker(t) => p[t].u \in {"lock", "bump"}
  BY <1>0, <1>1, Zenon DEF Waker, Shape, Unlocking
<1>10. Parking(t)' => p[t].u = "park"
  BY <1>3, <1>4, Zenon DEF Parking, Unlocking
<1>11. Parking(t)' => Parking(t) /\ p'[t].seq = p[t].seq
  BY <1>0, <1>4, <1>10, Zenon DEF Parking, Unlocking
<1>12. Outside(t) => Outside(t)'
  BY <1>0, <1>4, Zenon DEF Waker, Outside
<1>13. WakeInv'
  BY <1>0, <1>3, <1>4, <1>9, <1>11, <1>12, WakeStep, Zenon DEF Waker
<1> QED
  BY <1>6, <1>8, <1>13 DEF LxInv

LEMMA LeaveKeeps ==
  ASSUME LxInv, NEW t \in Threads, Leave(t)
  PROVE  LxInv'
<1>0. /\ p[t].pc \in {"crit", "barrier", "timeout"} /\ t \notin dead /\ ftx' = ftx /\ pend' = pend
      /\ cnd' = cnd /\ sleepers' = sleepers /\ queue' = queue /\ listed' = listed
      /\ dead' = dead /\ quit' = quit /\ pred' = pred /\ lapse' = lapse
  BY Zenon DEF Leave, kernel, robust, client
<1>1. Good(t) /\ Shape(p[t]) /\ p \in [Threads -> Calls] /\ p[t].seq <= cnd
  BY <1>0, Facts, Zenon
<1>2. ftx.tid = t /\ t \notin queue /\ t \notin sleepers /\ t \in listed /\ ~ftx.died
  BY <1>0, <1>1, Zenon DEF Good, Inside, Settled, Listed
<1> DEFINE v == IF p[t].pc = "barrier" THEN "bump" ELSE "idle"
<1>3. p' = [p EXCEPT ![t].pc = "unlock", ![t].u = v]
  BY Zenon DEF Leave
<1>4. v \in {"idle", "bump"} /\ (p[t].pc = "barrier" => v = "bump")
  OBVIOUS
<1> HIDE DEF v
<1>5. /\ p' \in [Threads -> Calls] /\ \A u \in Threads : u # t => p'[u] = p[u]
      /\ p'[t].pc = "unlock" /\ p'[t].k = p[t].k /\ p'[t].u = v /\ p'[t].seq = p[t].seq
  BY <1>1, <1>3, <1>4, MovedToUnlock, Zenon
<1>6. Shape(p'[t])
  BY <1>0, <1>1, <1>4, <1>5, Zenon DEF Shape, Unlocking
<1>7. TypeInv'
  BY <1>0, <1>1, <1>5, <1>6, Types, TypeStep, Zenon
<1>8. Good(t)'
  BY <1>0, <1>2, <1>5, Zenon DEF Good, Inside, Settled, Pending, Listed
<1>9. MutexInv'
  BY <1>0, <1>5, <1>8, MutexStep, Zenon
<1>10. ~Parking(t)' /\ ~Outside(t)
  BY <1>0, <1>4, <1>5, Zenon DEF Parking, Outside, Unlocking
<1>11. WakeInv'
  BY <1>0, <1>5, <1>10, WakeStep, Zenon DEF Waker
<1> QED
  BY <1>7, <1>9, <1>11 DEF LxInv

-----------------------------------------------------------------------------
(* Waiting and waking.                                                     *)

\* A step of a thread that is no waker leaves the others' wakers where they
\* are; only what it says of the thread itself is left to show.
LEMMA WaiterStep ==
  ASSUME LxInv, NEW t \in Threads, t \notin dead, ~Waker(t),
         dead' = dead, quit' = quit, lapse' = lapse, cnd' = cnd,
         \A u \in Threads : u # t => p'[u] = p[u] /\ pred'[u] = pred[u],
         sleepers' \subseteq sleepers \cup {t},
         Told(t)' => /\ p'[t].pc = "load" => \E u \in Threads : Outside(u)
                     /\ Parking(t)' /\ p'[t].seq = cnd => \E u \in Threads : ToBump(u)
                     /\ t \in sleepers' => \E u \in Threads : Waker(u)
  PROVE  WakeInv'
<1>1. \A u \in Threads : Waker(u) => Waker(u)'
  BY Zenon DEF Waker
<1>2. \A u \in Threads : ToBump(u) => ToBump(u)'
  BY <1>1, Zenon DEF ToBump, Waker
<1>3. \A u \in Threads : Outside(u) => Outside(u)'
  BY <1>1, Zenon DEF Outside, Waker
<1> SUFFICES ASSUME NEW s \in Threads, s \notin dead, Told(s)'
             PROVE  /\ p'[s].pc = "load" => \E u \in Threads : Outside(u)
                    /\ Parking(s)' /\ p'[s].seq = cnd => \E u \in Threads : ToBump(u)
                    /\ s \in sleepers' => \E u \in Threads : Waker(u)
  BY <1>1, <1>2, <1>3, Zenon DEF WakeInv
<1>4. CASE s = t
  BY <1>4, Zenon
<1>5. CASE s # t
  <2>1. Told(s) /\ (Parking(s)' <=> Parking(s)) /\ p'[s] = p[s]
    BY <1>5, Zenon DEF Told, Parking
  <2> QED
    BY <1>5, <2>1, Zenon DEF LxInv, WakeInv
<1> QED
  BY <1>4, <1>5

\* A waiter of wait_if is no waker.
LEMMA NoWaker ==
  ASSUME LxInv, NEW t \in Threads, p[t].pc \in {"idle", "pred", "woken", "load", "park"}
  PROVE  ~Waker(t)
BY Facts, Zenon DEF Shape, Unlocking, Waker

LEMMA CheckPredKeeps ==
  ASSUME LxInv, NEW t \in Threads, CheckPred(t)
  PROVE  LxInv'
<1>0. /\ p[t].pc \in {"pred", "woken"} /\ t \notin dead /\ ftx' = ftx /\ pend' = pend
      /\ cnd' = cnd /\ sleepers' = sleepers /\ queue' = queue /\ listed' = listed
      /\ dead' = dead /\ quit' = quit /\ lapse' = lapse
  BY Zenon DEF CheckPred, kernel, robust
<1>1. /\ Good(t) /\ Shape(p[t]) /\ p \in [Threads -> Calls] /\ p[t].seq <= cnd
      /\ pred \in [Threads -> BOOLEAN]
  BY <1>0, Facts, Zenon DEF LxInv, TypeInv
<1>2. ftx.tid = t /\ t \notin queue /\ t \notin sleepers /\ t \in listed /\ ~ftx.died
  BY <1>0, <1>1, Zenon DEF Good, Inside, Settled, Listed
<1>3. /\ p' \in [Threads -> Calls] /\ \A u \in Threads : u # t => p'[u] = p[u]
      /\ p'[t].k = p[t].k /\ p'[t].seq = p[t].seq
      /\ pred' \in [Threads -> BOOLEAN] /\ \A u \in Threads : u # t => pred'[u] = pred[u]
      /\ \/ p'[t].pc = "load" /\ ~Told(t)'
         \/ p'[t].pc = "unlock" /\ p'[t].u = "idle"
  <2>1. CASE pred[t] /\ ProcOf[t] \notin quit
    <3>1. Goto(t, "load") /\ pred' = pred
      BY <2>1, Zenon DEF CheckPred
    <3> QED
      BY <1>0, <1>1, <2>1, <3>1, Moved, Zenon DEF Labels, Told
  <2>2. CASE ~(pred[t] /\ ProcOf[t] \notin quit)
    <3>1. /\ p' = [p EXCEPT ![t].pc = "unlock", ![t].u = "idle"]
          /\ pred' = [pred EXCEPT ![t] = TRUE]
      BY <2>2, Zenon DEF CheckPred
    <3>2. /\ p' \in [Threads -> Calls] /\ \A u \in Threads : u # t => p'[u] = p[u]
          /\ p'[t].pc = "unlock" /\ p'[t].k = p[t].k /\ p'[t].u = "idle" /\ p'[t].seq = p[t].seq
      BY <1>1, <3>1, MovedToUnlock, Zenon
    <3>3. pred' \in [Threads -> BOOLEAN] /\ \A u \in Threads : u # t => pred'[u] = pred[u]
      BY <1>1, <3>1, Zenon
    <3> QED
      BY <3>2, <3>3, Zenon
  <2> QED
    BY <2>1, <2>2
<1>4. p[t].k # "barrier"
  BY <1>0, <1>1, Zenon DEF Shape, Unlocking
<1>5. Shape(p'[t])
  BY <1>3, <1>4, Zenon DEF Shape, Unlocking
<1>6. TypeInv'
  BY <1>0, <1>1, <1>3, <1>5, Types, TypeStep, Zenon
<1>7. Good(t)'
  BY <1>0, <1>2, <1>3, Zenon DEF Good, Inside, Settled, Pending, Listed
<1>8. MutexInv'
  BY <1>0, <1>3, <1>7, MutexStep, Zenon
<1>9. ~Parking(t)' /\ ~Waker(t)
  BY <1>3, <1>4, Zenon DEF Parking, Unlocking, Waker
<1>10. WakeInv'
  BY <1>0, <1>2, <1>3, <1>9, WaiterStep, Zenon
<1> QED
  BY <1>6, <1>8, <1>10 DEF LxInv

LEMMA LoadSeqKeeps ==
  ASSUME LxInv, NEW t \in Threads, LoadSeq(t)
  PROVE  LxInv'
<1>0. /\ p[t].pc = "load" /\ t \notin dead /\ ftx' = ftx /\ pend' = pend
      /\ cnd' = cnd /\ sleepers' = sleepers /\ queue' = queue /\ listed' = listed
      /\ dead' = dead /\ quit' = quit /\ pred' = pred /\ lapse' = lapse
      /\ p' = [p EXCEPT ![t].pc = "unlock", ![t].u = "park", ![t].k = "woken", ![t].seq = cnd]
  BY Zenon DEF LoadSeq, At, kernel, robust, client
<1>1. Good(t) /\ p \in [Threads -> Calls] /\ p[t] \in Calls /\ cnd \in Nat
  BY <1>0, Facts, Zenon
<1>2. ftx.tid = t /\ t \notin queue /\ t \notin sleepers /\ t \in listed /\ ~ftx.died
  BY <1>0, <1>1, Zenon DEF Good, Inside, Settled, Listed
<1> DEFINE e == [p[t] EXCEPT !.pc = "unlock", !.u = "park", !.k = "woken", !.seq = cnd]
<1>3. e \in Calls /\ e.pc = "unlock" /\ e.u = "park" /\ e.k = "woken" /\ e.seq = cnd
  BY <1>1, Zenon DEF Calls, Labels, Goals
<1>4. p' = [p EXCEPT ![t] = e]
  BY <1>0, Zenon
<1> HIDE DEF e
<1>5. /\ p' \in [Threads -> Calls] /\ \A u \in Threads : u # t => p'[u] = p[u]
      /\ p'[t].pc = "unlock" /\ p'[t].u = "park" /\ p'[t].k = "woken" /\ p'[t].seq = cnd
  BY <1>1, <1>3, <1>4, Updated, Zenon
<1>6. Shape(p'[t])
  BY <1>5, Zenon DEF Shape, Unlocking, Goals
<1>7. p'[t].seq <= cnd
  BY <1>1, <1>5
<1>8. TypeInv'
  BY <1>0, <1>5, <1>6, <1>7, Types, TypeStep, Zenon
<1>9. Good(t)'
  BY <1>0, <1>2, <1>5, Zenon DEF Good, Inside, Settled, Pending, Listed
<1>10. MutexInv'
  BY <1>0, <1>5, <1>9, MutexStep, Zenon
\* Told before the load, it has a waker that cannot have passed its barrier.
<1>11. Told(t)' => \E u \in Threads : Outside(u)
  BY <1>0, Zenon DEF Told, LxInv, WakeInv
<1>12. \A u \in Threads : Outside(u) => ToBump(u)
  BY Zenon DEF Outside, ToBump
<1>13. WakeInv'
  BY <1>0, <1>2, <1>5, <1>11, <1>12, NoWaker, WaiterStep, Zenon
<1> QED
  BY <1>8, <1>10, <1>13 DEF LxInv

LEMMA ParkKeeps ==
  ASSUME LxInv, NEW t \in Threads, Park(t)
  PROVE  LxInv'
<1>0. /\ p[t].pc = "park" /\ t \notin dead /\ ftx' = ftx /\ pend' = pend \cup {t}
      /\ cnd' = cnd /\ queue' = queue /\ listed' = listed
      /\ dead' = dead /\ quit' = quit /\ pred' = pred /\ lapse' = lapse
  BY Zenon DEF Park, At, client, robust_op_start
<1>1. Good(t) /\ Shape(p[t]) /\ p \in [Threads -> Calls] /\ p[t].seq <= cnd
  BY <1>0, Facts, Zenon
<1>2. ftx.tid # t /\ t \notin queue /\ t \notin sleepers
  BY <1>0, <1>1, Zenon DEF Good, Inside
<1>3. /\ p' \in [Threads -> Calls] /\ \A u \in Threads : u # t => p'[u] = p[u]
      /\ p'[t].k = p[t].k /\ p'[t].seq = p[t].seq
      /\ \/ p[t].seq = cnd /\ sleepers' = sleepers \cup {t} /\ p'[t].pc = "asleep"
         \/ sleepers' = sleepers /\ p'[t].pc = "lock"
  <2>1. CASE cnd = p[t].seq
    <3>1. Goto(t, "asleep") /\ sleepers' = sleepers \cup {t}
      BY <2>1, Zenon DEF Park
    <3> QED
      BY <1>1, <2>1, <3>1, Moved, Zenon DEF Labels
  <2>2. CASE cnd # p[t].seq
    <3>1. Goto(t, "lock") /\ sleepers' = sleepers
      BY <2>2, Zenon DEF Park
    <3> QED
      BY <1>1, <3>1, Moved, Zenon DEF Labels
  <2> QED
    BY <2>1, <2>2
<1>4. p[t].k \in Goals /\ p[t].k # "barrier"
  BY <1>0, <1>1, Zenon DEF Shape, Unlocking
<1>5. Shape(p'[t])
  BY <1>3, <1>4, Zenon DEF Shape, Unlocking
<1>6. pend' \subseteq Threads /\ sleepers' \subseteq Threads
  BY <1>0, <1>3, Zenon DEF LxInv, TypeInv
<1>7. TypeInv'
  BY <1>0, <1>1, <1>3, <1>5, <1>6, Types, TypeStep, Zenon
<1>8. Good(t)'
  BY <1>0, <1>2, <1>3, Zenon DEF Good, Inside, Settled, Pending, Listed
<1>9. MutexInv'
  BY <1>0, <1>3, <1>8, MutexStep, Zenon
\* Told while the number it loaded is the current one: the bump is to come.
<1>10. Told(t)' /\ p[t].seq = cnd => \E u \in Threads : ToBump(u)
  BY <1>0, Zenon DEF Told, Parking, LxInv, WakeInv
<1>11. WakeInv'
  <2>1. \A u \in Threads : ToBump(u) => Waker(u)
    BY Zenon DEF ToBump
  <2>2. ~Waker(t) /\ p'[t].pc # "load" /\ sleepers' \subseteq sleepers \cup {t}
    BY <1>0, <1>3, NoWaker, Zenon
  <2>3. t \in sleepers' => p[t].seq = cnd
    BY <1>2, <1>3, Zenon
  <2> QED
    BY <1>0, <1>3, <1>10, <2>1, <2>2, <2>3, WaiterStep, Zenon
<1> QED
  BY <1>7, <1>9, <1>11 DEF LxInv

LEMMA BumpKeeps ==
  ASSUME LxInv, NEW t \in Threads, Bump(t)
  PROVE  LxInv'
<1>0. /\ p[t].pc = "bump" /\ t \notin dead /\ ftx' = ftx /\ pend' = pend /\ cnd' = cnd + 1
      /\ sleepers' = sleepers /\ queue' = queue /\ listed' = listed
      /\ dead' = dead /\ quit' = quit /\ pred' = pred /\ lapse' = lapse
      /\ p' = [p EXCEPT ![t].pc = "requeue", ![t].seq = cnd + 1]
  BY Zenon DEF Bump, At, kernel, robust, client
<1>1. Good(t) /\ Shape(p[t]) /\ p \in [Threads -> Calls] /\ p[t] \in Calls /\ cnd \in Nat
  BY <1>0, Facts, Zenon
<1>2. cnd + 1 \in Nat /\ cnd + 1 <= cnd + 1
  BY <1>1
<1> DEFINE e == [p[t] EXCEPT !.pc = "requeue", !.seq = cnd + 1]
<1>3. e \in Calls /\ e.pc = "requeue" /\ e.k = p[t].k /\ e.seq = cnd + 1
  BY <1>1, <1>2, Zenon DEF Calls, Labels
<1>4. p' = [p EXCEPT ![t] = e]
  BY <1>0, Zenon
<1> HIDE DEF e
<1>5. /\ p' \in [Threads -> Calls] /\ \A u \in Threads : u # t => p'[u] = p[u]
      /\ p'[t].pc = "requeue" /\ p'[t].k = p[t].k /\ p'[t].seq = cnd + 1
  BY <1>1, <1>3, <1>4, Updated, Zenon
<1>6. Shape(p'[t])
  BY <1>0, <1>1, <1>5, Zenon DEF Shape, Unlocking
<1>7. \A u \in Threads : p[u].seq <= cnd + 1 /\ p[u].seq # cnd + 1
  <2> SUFFICES ASSUME NEW u \in Threads PROVE p[u].seq <= cnd + 1 /\ p[u].seq # cnd + 1
    OBVIOUS
  <2>1. p[u].seq \in Nat /\ p[u].seq <= cnd /\ cnd \in Nat
    BY Facts, Zenon
  <2> QED
    BY <2>1
<1>8. TypeInv'
  <2>1. \A u \in Threads : Shape(p'[u]) /\ p'[u].seq <= cnd'
    BY <1>0, <1>2, <1>5, <1>6, <1>7, Facts, Zenon
  <2>2. cnd' \in Nat
    BY <1>0, <1>2, Zenon
  <2> QED
    BY <1>0, <1>5, <2>1, <2>2, Zenon DEF LxInv, TypeInv, Shape
<1>9. Good(t)'
  BY <1>0, <1>1, <1>5, Zenon DEF Good, Inside, Settled, Pending, Listed
<1>10. MutexInv'
  BY <1>0, <1>5, <1>9, MutexStep, Zenon
<1>11. WakeInv'
  <2>1. \A u \in Threads : /\ Outside(u) => Outside(u)'
                           /\ Waker(u) => Waker(u)'
    BY <1>0, <1>5, Zenon DEF Outside, Waker
  <2> SUFFICES ASSUME NEW s \in Threads, s \notin dead, Told(s)
               PROVE  /\ p'[s].pc = "load" => \E u \in Threads : Outside(u)
                      /\ ~(Parking(s)' /\ p'[s].seq = cnd')
                      /\ s \in sleepers => \E u \in Threads : Waker(u)
    BY <1>0, <2>1, Zenon DEF WakeInv, Told
  <2>2. Parking(s)' => s # t
    BY <1>5, Zenon DEF Parking, Unlocking
  <2>3. ~(Parking(s)' /\ p'[s].seq = cnd')
    BY <1>0, <1>5, <1>7, <2>2, Zenon
  <2>4. p'[s].pc = "load" => p[s].pc = "load"
    BY <1>5, Zenon
  <2> QED
    BY <2>3, <2>4, Zenon DEF LxInv, WakeInv
<1> QED
  BY <1>8, <1>10, <1>11 DEF LxInv

\* FUTEX_CMP_REQUEUE_PI: what it does to the word and to who is held where.
LEMMA RequeueFacts ==
  ASSUME LxInv, NEW S \in SUBSET sleepers, Requeue(S)
  PROVE  /\ ftx' \in [tid : Threads \cup {0}, died : BOOLEAN, waiters : BOOLEAN]
         /\ sleepers' = sleepers \ S /\ queue' \subseteq queue \cup S
         /\ ftx'.died = ftx.died
         /\ \A u \in Threads : /\ ftx.tid = u => ftx'.tid = u
                               /\ ftx'.tid = u => \/ ftx.tid = u
                                                  \/ u \in S /\ u \notin queue' \ queue
                               /\ u \in queue' \ queue => ftx'.tid # u \/ ftx.tid = u
<1>1. /\ ftx \in [tid : Threads \cup {0}, died : BOOLEAN, waiters : BOOLEAN]
      /\ S \subseteq Threads /\ sleepers' = sleepers \ S
  BY Facts, Zenon DEF Requeue, LxInv, TypeInv
<1>2. 0 \notin Threads
  BY TidsPositive
<1>3. CASE ftx.tid = 0 /\ S # {}
  <2>1. PICK w \in S : /\ ftx' = [ftx EXCEPT !.tid = w, !.waiters = TRUE]
                       /\ queue' = queue \cup (S \ {w})
    BY <1>3, Zenon DEF Requeue
  <2>2. /\ ftx' \in [tid : Threads \cup {0}, died : BOOLEAN, waiters : BOOLEAN]
        /\ ftx'.tid = w /\ ftx'.died = ftx.died
    BY <1>1, <2>1, Zenon
  <2> QED
    BY <1>1, <1>2, <1>3, <2>1, <2>2, Zenon
<1>4. CASE ~(ftx.tid = 0 /\ S # {})
  <2>1. queue' = queue \cup S /\ ftx' = [ftx EXCEPT !.waiters = @ \/ S # {}]
    BY <1>4, Zenon DEF Requeue
  <2> DEFINE b == ftx.waiters \/ S # {}
  <2>2. b \in BOOLEAN /\ ftx' = [ftx EXCEPT !.waiters = b]
    BY <2>1, Zenon
  <2> HIDE DEF b
  <2>3. /\ ftx' \in [tid : Threads \cup {0}, died : BOOLEAN, waiters : BOOLEAN]
        /\ ftx'.tid = ftx.tid /\ ftx'.died = ftx.died
    BY <1>1, <2>2, Zenon
  <2> QED
    BY <1>1, <2>1, <2>3, Zenon
<1> QED
  BY <1>3, <1>4

LEMMA CmpRequeueKeeps ==
  ASSUME LxInv, NEW t \in Threads, CmpRequeue(t)
  PROVE  LxInv'
<1>0. /\ p[t].pc = "requeue" /\ t \notin dead /\ pend' = pend /\ listed' = listed
      /\ cnd' = cnd /\ dead' = dead /\ quit' = quit /\ pred' = pred
  BY Zenon DEF CmpRequeue, At, robust
<1>1. /\ Good(t) /\ Shape(p[t]) /\ p \in [Threads -> Calls] /\ p[t] \in Calls /\ cnd \in Nat
      /\ sleepers \subseteq Threads /\ queue \subseteq Threads
  BY <1>0, Facts, Zenon DEF LxInv, TypeInv
<1>2. ftx.tid # t /\ t \notin queue /\ t \notin sleepers
  BY <1>0, <1>1, Zenon DEF Good, Inside
<1>3. CASE cnd # p[t].seq
  <2>1. /\ ftx' = ftx /\ sleepers' = sleepers /\ queue' = queue /\ lapse' = lapse
        /\ p' = [p EXCEPT ![t].seq = cnd]
    BY <1>3, Zenon DEF CmpRequeue, kernel
  <2> DEFINE e == [p[t] EXCEPT !.seq = cnd]
  <2>2. /\ e \in Calls /\ e.pc = p[t].pc /\ e.k = p[t].k /\ e.u = p[t].u /\ e.left = p[t].left
        /\ e.seq = cnd
    BY <1>1, Zenon DEF Calls
  <2>3. p' = [p EXCEPT ![t] = e]
    BY <2>1, Zenon
  <2> HIDE DEF e
  <2>4. /\ p' \in [Threads -> Calls] /\ \A u \in Threads : u # t => p'[u] = p[u]
        /\ p'[t].pc = "requeue" /\ p'[t].k = p[t].k /\ p'[t].seq = cnd
    BY <1>0, <1>1, <2>2, <2>3, Updated, Zenon
  <2>5. Shape(p'[t])
    BY <2>4, Zenon DEF Shape, Unlocking
  <2>6. p'[t].seq <= cnd
    BY <1>1, <2>4
  <2>7. TypeInv'
    BY <1>0, <2>1, <2>4, <2>5, <2>6, Types, TypeStep, Zenon
  <2>8. Good(t)'
    BY <1>0, <1>2, <2>1, <2>4, Zenon DEF Good, Inside, Settled, Pending, Listed
  <2>9. MutexInv'
    BY <1>0, <2>1, <2>4, <2>8, MutexStep, Zenon
  <2>10. ~Parking(t)' /\ ~ToBump(t) /\ ~Outside(t)
    BY <1>0, <2>4, Zenon DEF Parking, Unlocking, ToBump, Outside
  <2>11. WakeInv'
    BY <1>0, <2>1, <2>4, <2>10, WakeStep, Zenon DEF Waker
  <2> QED
    BY <2>7, <2>9, <2>11 DEF LxInv
<1>4. CASE cnd = p[t].seq
  <2>1. PICK S \in SUBSET sleepers :
          Requeue(S) /\ p' = Return(t) /\ lapse' = (lapse \/ S # sleepers)
    BY <1>4, Zenon DEF CmpRequeue
  <2>2. /\ ftx' \in [tid : Threads \cup {0}, died : BOOLEAN, waiters : BOOLEAN]
        /\ sleepers' = sleepers \ S /\ queue' \subseteq queue \cup S
        /\ ftx'.died = ftx.died
        /\ \A u \in Threads : /\ ftx.tid = u => ftx'.tid = u
                              /\ ftx'.tid = u => \/ ftx.tid = u
                                                 \/ u \in S /\ u \notin queue' \ queue
                              /\ u \in queue' \ queue => ftx'.tid # u \/ ftx.tid = u
    BY <2>1, RequeueFacts, Zenon
  <2>3. /\ p' \in [Threads -> Calls] /\ \A u \in Threads : u # t => p'[u] = p[u]
        /\ p'[t].pc = "idle" /\ p'[t].k = "idle" /\ p'[t].u = "idle" /\ p'[t].seq = 0
    BY <1>1, <2>1, Returned, Zenon
  <2>4. Shape(p'[t])
    BY <2>3, Zenon DEF Shape, Unlocking
  <2>5. p'[t].seq <= cnd
    BY <1>1, <2>3
  <2>6. sleepers' \subseteq Threads /\ queue' \subseteq Threads
    BY <1>1, <2>2, Zenon
  <2>7. TypeInv'
    BY <1>0, <2>2, <2>3, <2>4, <2>5, <2>6, Types, TypeStep, Zenon
  <2>8. Good(t)'
    BY <1>0, <1>2, <2>2, <2>3, Zenon DEF Good, Inside, Settled, Pending, Listed
  <2>9. ASSUME NEW u \in Threads, u # t, u \in dead PROVE Gone(u)'
    BY <1>0, <2>2, <2>9, Facts, Zenon DEF Gone
  <2>10. ASSUME NEW u \in Threads, u # t, u \notin dead PROVE Good(u)'
    <3>1. Good(u) /\ p'[u] = p[u]
      BY <2>3, <2>10, Facts, Zenon
    <3>2. u \in S => p[u].pc = "asleep" /\ ftx.tid # u /\ u \notin queue
      BY <2>1, <3>1, Zenon DEF Good
    <3>3. u \in queue => u \notin S
      BY <2>1, <3>1, Zenon DEF Good
    <3>4. /\ ftx'.tid = u => p'[u].pc \in Inside \cup {"queued", "asleep"}
          /\ p'[u].pc \in Inside => ftx'.tid = u
          /\ p'[u].pc \in Settled => ~ftx'.died
      BY <2>2, <3>1, <3>2, Zenon DEF Good
    <3>5. u \in queue' => p'[u].pc \in {"queued", "asleep"} /\ ftx'.tid # u /\ u \notin sleepers'
      <4>1. CASE u \in queue
        BY <2>2, <3>1, <3>3, <4>1, Zenon DEF Good
      <4>2. CASE u \notin queue /\ u \in queue'
        BY <2>2, <3>1, <3>2, <4>2, Zenon
      <4> QED
        BY <4>1, <4>2
    <3>6. u \in sleepers' => p'[u].pc = "asleep" /\ ftx'.tid # u
      BY <2>2, <3>1, Zenon DEF Good
    <3> QED
      BY <1>0, <3>1, <3>4, <3>5, <3>6, Zenon DEF Good
  <2>11. MutexInv'
    BY <1>0, <2>8, <2>9, <2>10, Zenon DEF MutexInv
  <2>12. WakeInv'
    <3> SUFFICES ASSUME NEW s \in Threads, s \notin dead, Told(s)'
                 PROVE  /\ p'[s].pc = "load" => \E u \in Threads : Outside(u)'
                        /\ Parking(s)' /\ p'[s].seq = cnd => \E u \in Threads : ToBump(u)'
                        /\ s \in sleepers' => \E u \in Threads : Waker(u)'
      BY <1>0, Zenon DEF WakeInv
    <3>1. ~lapse' /\ ~lapse /\ Told(s) /\ S = sleepers
      BY <1>0, <2>1, Zenon DEF Told
    <3>2. s \notin sleepers'
      BY <2>2, <3>1, Zenon
    <3>3. \A u \in Threads : Outside(u) => Outside(u)'
      BY <1>0, <2>3, Zenon DEF Outside, Waker
    <3>4. \A u \in Threads : ToBump(u) => ToBump(u)'
      BY <1>0, <2>3, Zenon DEF ToBump, Waker
    <3>5. /\ p'[s].pc = "load" => p[s].pc = "load"
          /\ Parking(s)' /\ p'[s].seq = cnd => Parking(s) /\ p[s].seq = cnd
      BY <2>3, Zenon DEF Parking, Unlocking
    <3> QED
      BY <3>1, <3>2, <3>3, <3>4, <3>5, Zenon DEF LxInv, WakeInv
  <2> QED
    BY <2>7, <2>11, <2>12 DEF LxInv
<1> QED
  BY <1>3, <1>4

-----------------------------------------------------------------------------
(* The calls a client makes.                                               *)

LEMMA Called ==
  ASSUME LxInv, NEW t \in Threads, NEW k \in Goals, NEW timed \in BOOLEAN,
         NEW cnt \in {0, 1, Cardinality(Threads)}, Call(t, k, timed, cnt),
         pred' \in [Threads -> BOOLEAN]
  PROVE  /\ TypeInv' /\ MutexInv' /\ t \notin dead /\ ~Waker(t) /\ t \notin sleepers
         /\ dead' = dead /\ lapse' = lapse /\ cnd' = cnd /\ sleepers' = sleepers
         /\ \A u \in Threads : u # t => p'[u] = p[u]
         /\ p'[t].pc = "lock" /\ p'[t].k = k
<1>0. /\ p[t].pc = "idle" /\ t \notin dead /\ ftx' = ftx /\ pend' = pend
      /\ cnd' = cnd /\ sleepers' = sleepers /\ queue' = queue /\ listed' = listed
      /\ dead' = dead /\ lapse' = lapse
      /\ p' = [p EXCEPT ![t] = [Idle EXCEPT !.pc = "lock", !.k = k, !.timed = timed,
                                            !.cnt = cnt, !.ops = p[t].ops + 1]]
  BY Zenon DEF Call, At, kernel, robust
<1>1. Good(t) /\ p \in [Threads -> Calls] /\ p[t] \in Calls /\ cnd \in Nat
  BY <1>0, Facts, Zenon
<1>2. ftx.tid # t /\ t \notin queue /\ t \notin sleepers
  BY <1>0, <1>1, Zenon DEF Good, Inside
<1>3. p[t].ops \in Nat
  BY <1>1, Zenon DEF Calls
<1>4. p[t].ops + 1 \in Nat
  BY <1>3
<1> DEFINE e == [Idle EXCEPT !.pc = "lock", !.k = k, !.timed = timed,
                             !.cnt = cnt, !.ops = p[t].ops + 1]
<1>5. Idle \in Calls /\ Idle.seq = 0
  BY DEF Idle, Calls, Labels
<1>6. "lock" \in Labels
  BY Zenon DEF Labels
<1>6a. e \in Calls
  BY <1>4, <1>5, <1>6, Zenon DEF Calls
<1>6b. e.pc = "lock" /\ e.k = k /\ e.seq = 0
  BY <1>5, Zenon DEF Calls
<1>7. p' = [p EXCEPT ![t] = e]
  BY <1>0, Zenon
<1> HIDE DEF e
<1>8. /\ p' \in [Threads -> Calls] /\ \A u \in Threads : u # t => p'[u] = p[u]
      /\ p'[t].pc = "lock" /\ p'[t].k = k /\ p'[t].seq = 0
  BY <1>1, <1>6a, <1>6b, <1>7, Updated, Zenon
<1>9. Shape(p'[t])
  BY <1>8, Zenon DEF Shape, Unlocking
<1>10. p'[t].seq <= cnd
  BY <1>1, <1>8
<1>11. TypeInv'
  BY <1>0, <1>8, <1>9, <1>10, Types, TypeStep, Zenon
<1>12. Good(t)'
  BY <1>0, <1>2, <1>8, Zenon DEF Good, Inside, Settled, Pending, Listed
<1>13. MutexInv'
  BY <1>0, <1>8, <1>12, MutexStep, Zenon
<1> QED
  BY <1>0, <1>2, <1>8, <1>11, <1>13, NoWaker, Zenon

\* A wait or a lock of its own: no waker, and nobody is told.
LEMMA OwnCallKeeps ==
  ASSUME LxInv, NEW t \in Threads, WaitIf(t) \/ LockFor(t)
  PROVE  LxInv'
<1>1. /\ pred' = pred /\ quit' = quit
      /\ \E k \in {"pred", "crit"}, timed \in BOOLEAN : Call(t, k, timed, 0)
  BY Zenon DEF WaitIf, LockFor
<1>2. \E k \in Goals, timed \in BOOLEAN, cnt \in {0, 1, Cardinality(Threads)} :
        Call(t, k, timed, cnt)
  BY <1>1, Zenon DEF Goals
<1>3. PICK k \in Goals, timed \in BOOLEAN, cnt \in {0, 1, Cardinality(Threads)} :
        Call(t, k, timed, cnt)
  BY <1>2, Zenon
<1>3a. pred' \in [Threads -> BOOLEAN]
  BY <1>1, Types, Zenon
<1>4. /\ TypeInv' /\ MutexInv' /\ t \notin dead /\ ~Waker(t) /\ t \notin sleepers
      /\ dead' = dead /\ lapse' = lapse /\ cnd' = cnd /\ sleepers' = sleepers
      /\ \A u \in Threads : u # t => p'[u] = p[u]
      /\ p'[t].pc = "lock" /\ p'[t].k = k
  BY ONLY <1>3, <1>3a, LxInv, t \in Threads, Called, ZenonT(30)
<1>5. ~Parking(t)'
  BY <1>4, Zenon DEF Parking, Unlocking
<1>6. WakeInv'
  BY <1>1, <1>4, <1>5, WaiterStep, Zenon
<1> QED
  BY <1>4, <1>6 DEF LxInv

\* A waker tells everyone it tells before it takes the mutex.
LEMMA WakeKeeps ==
  ASSUME LxInv, NEW t \in Threads, Wake(t) \/ QuitWaiting(t)
  PROVE  LxInv'
<1>1. \E cnt \in {1, Cardinality(Threads)} : Call(t, "barrier", FALSE, cnt)
  BY Zenon DEF Wake, QuitWaiting
<1>2. PICK timed \in BOOLEAN, cnt \in {0, 1, Cardinality(Threads)} :
        Call(t, "barrier", timed, cnt)
  BY <1>1, Zenon
<1>3. pred' \in [Threads -> BOOLEAN]
  <2>1. CASE Wake(t)
    BY <2>1, Zenon DEF Wake
  <2>2. CASE QuitWaiting(t)
    BY <2>2, Zenon DEF QuitWaiting, LxInv, TypeInv
  <2> QED
    BY <2>1, <2>2
<1>4. "barrier" \in Goals
  BY Zenon DEF Goals
<1>5. /\ TypeInv' /\ MutexInv' /\ t \notin dead /\ dead' = dead
      /\ p'[t].pc = "lock" /\ p'[t].k = "barrier"
  BY ONLY <1>2, <1>3, <1>4, LxInv, t \in Threads, Called, ZenonT(30)
<1>6. Outside(t)' /\ ToBump(t)' /\ Waker(t)'
  BY <1>5, Zenon DEF Outside, ToBump, Waker
<1>7. WakeInv'
  BY <1>6, Zenon DEF WakeInv
<1> QED
  BY <1>5, <1>7 DEF LxInv

-----------------------------------------------------------------------------
(* The death of a process.                                                 *)

\* Wherever a live thread may own the mutex, the kernel finds it there.
LEMMA OwnerFound ==
  ASSUME LxInv, NEW t \in Threads, t \notin dead, ftx.tid = t
  PROVE  t \in pend \cup listed
<1>1. Good(t)
  BY Facts, Zenon
<1>2. p[t].pc \in Inside \cup {"queued", "asleep"}
  BY <1>1, Zenon DEF Good
<1>3. p[t].pc \in Pending \cup Listed
  BY <1>2, Zenon DEF Inside, Pending, Listed
<1> QED
  BY <1>1, <1>3, Zenon DEF Good

LEMMA DieKeeps ==
  ASSUME LxInv, NEW x \in MayDie, Die(x)
  PROVE  LxInv'
<1> DEFINE D == {t \in Threads : ProcOf[t] = x}
<1>0. /\ D \cap dead = {}
      /\ IF ftx.tid \in D /\ (ftx.tid \in pend \cup listed \/ queue \ D # {})
         THEN ftx' \in HandOver(queue \ D, TRUE) ELSE UNCHANGED ftx
      /\ queue' = (queue \ D) \ {ftx'.tid} /\ sleepers' = sleepers \ D
      /\ pend' = pend \ D /\ listed' = listed \ D /\ dead' = dead \cup D
      /\ lapse' = (lapse \/ \E t \in D : p[t].k = "barrier")
      /\ p' = [t \in Threads |-> IF t \in D THEN Idle ELSE p[t]]
      /\ cnd' = cnd /\ quit' = quit /\ pred' = pred
  BY Zenon DEF Die
<1>1. D \subseteq Threads
  OBVIOUS
<1> HIDE DEF D
<1>2. /\ p \in [Threads -> Calls] /\ cnd \in Nat
      /\ ftx \in [tid : Threads \cup {0}, died : BOOLEAN, waiters : BOOLEAN]
      /\ queue \subseteq Threads /\ dead \subseteq Threads
  BY Facts, Zenon DEF LxInv, TypeInv
<1>3. Idle \in Calls /\ Idle.pc = "idle" /\ Idle.k = "idle" /\ Idle.seq = 0
  BY DEF Idle, Calls, Labels
<1>4. /\ \A u \in Threads : u \in D => p'[u] = Idle
      /\ \A u \in Threads : u \notin D => p'[u] = p[u]
  BY <1>0, Zenon
<1>5. 0 \notin Threads
  BY TidsPositive
\* The word is handed to a survivor or to nobody, or its owner is no victim.
<1>6. /\ ftx' \in [tid : Threads \cup {0}, died : BOOLEAN, waiters : BOOLEAN]
      /\ \/ ftx' = ftx /\ ftx.tid \notin D
         \/ ftx.tid \in D /\ ftx'.tid \in (queue \ D) \cup {0}
  <2>1. CASE ftx.tid \in D
    <3>1. ftx.tid \in pend \cup listed
      BY <1>0, <1>1, <2>1, OwnerFound, Zenon
    <3>2. ftx' \in HandOver(queue \ D, TRUE)
      BY <1>0, <2>1, <3>1, Zenon
    <3>3. CASE queue \ D = {}
      <4>1. ftx' = [Free EXCEPT !.died = TRUE]
        BY <3>2, <3>3, Zenon DEF HandOver
      <4>2. /\ Free \in [tid : Threads \cup {0}, died : BOOLEAN, waiters : BOOLEAN]
            /\ Free.tid = 0
        BY Zenon DEF Free
      <4> QED
        BY <2>1, <4>1, <4>2, Zenon
    <3>4. CASE queue \ D # {}
      <4>1. PICK w \in queue \ D : ftx' = [tid |-> w, died |-> TRUE, waiters |-> TRUE]
        BY <3>2, <3>4, Zenon DEF HandOver
      <4> QED
        BY <1>2, <2>1, <4>1, Zenon
    <3> QED
      BY <3>3, <3>4
  <2>2. CASE ftx.tid \notin D
    BY <1>0, <1>2, <2>2, Zenon
  <2> QED
    BY <2>1, <2>2
<1>7. TypeInv'
  <2>1. p' \in [Threads -> Calls]
    BY <1>0, <1>2, <1>3, Zenon
  <2>2. 0 <= cnd
    BY <1>2
  <2>3. Shape(Idle)
    BY <1>3, Zenon DEF Shape, Unlocking
  <2>4. \A u \in Threads : Shape(p'[u]) /\ p'[u].seq <= cnd
    <3> SUFFICES ASSUME NEW u \in Threads PROVE Shape(p'[u]) /\ p'[u].seq <= cnd
      OBVIOUS
    <3>1. CASE u \in D
      BY <1>3, <1>4, <2>2, <2>3, <3>1, Zenon
    <3>2. CASE u \notin D
      BY <1>4, <3>2, Facts, Zenon
    <3> QED
      BY <3>1, <3>2
  <2>5. /\ sleepers' \subseteq Threads /\ queue' \subseteq Threads /\ pend' \subseteq Threads
        /\ listed' \subseteq Threads /\ dead' \subseteq Threads
    BY <1>0, <1>1, Zenon DEF LxInv, TypeInv
  <2> QED
    BY <1>0, <1>6, <2>1, <2>4, <2>5, Zenon DEF LxInv, TypeInv, Shape
<1>8. ASSUME NEW u \in Threads, u \in dead' PROVE Gone(u)'
  <2>1. u \notin queue' /\ u \notin sleepers' /\ (u \notin D => u \notin queue /\ ftx.tid # u)
    BY <1>0, <1>8, Facts, Zenon DEF Gone
  <2>2. ftx'.tid # u
    BY <1>5, <1>6, <2>1, Zenon
  <2> QED
    BY <2>1, <2>2, Zenon DEF Gone
<1>9. ASSUME NEW u \in Threads, u \notin dead' PROVE Good(u)'
  <2>1. Good(u) /\ p'[u] = p[u] /\ u \notin D
    BY <1>0, <1>4, <1>9, Facts, Zenon
  <2>2. CASE ftx' = ftx
    BY <1>0, <2>1, <2>2, Zenon DEF Good
  <2>3. CASE ftx.tid \in D /\ ftx'.tid \in (queue \ D) \cup {0}
    <3>1. p[u].pc \notin Inside /\ p[u].pc \notin Settled
      BY <2>1, <2>3, Zenon DEF Good, Settled, Inside
    <3>2. ftx'.tid = u => u \in queue
      BY <1>5, <2>3, Zenon
    <3> QED
      BY <1>0, <2>1, <3>1, <3>2, Zenon DEF Good
  <2> QED
    BY <1>6, <2>2, <2>3, Zenon
<1>10. MutexInv'
  BY <1>8, <1>9, Zenon DEF MutexInv
<1>11. WakeInv'
  <2> SUFFICES ASSUME NEW s \in Threads, s \notin dead', Told(s)'
               PROVE  /\ p'[s].pc = "load" => \E u \in Threads : Outside(u)'
                      /\ Parking(s)' /\ p'[s].seq = cnd => \E u \in Threads : ToBump(u)'
                      /\ s \in sleepers' => \E u \in Threads : Waker(u)'
    BY <1>0, Zenon DEF WakeInv
  <2>1. Told(s) /\ \A u \in D : p[u].k # "barrier"
    BY <1>0, Zenon DEF Told
  <2>2. \A u \in Threads : Waker(u) => u \notin D /\ Waker(u)'
    BY <1>0, <1>4, <2>1, Zenon DEF Waker
  <2>3. \A u \in Threads : Outside(u) => Outside(u)'
    BY <1>4, <2>2, Zenon DEF Outside
  <2>4. \A u \in Threads : ToBump(u) => ToBump(u)'
    BY <1>4, <2>2, Zenon DEF ToBump
  <2>5. p'[s] = p[s] /\ s \notin dead /\ (s \in sleepers' => s \in sleepers)
    BY <1>0, <1>4, Zenon
  <2>6. Parking(s)' => Parking(s)
    BY <2>5, Zenon DEF Parking
  <2> QED
    BY <2>1, <2>2, <2>3, <2>4, <2>5, <2>6, Zenon DEF LxInv, WakeInv
<1> QED
  BY <1>7, <1>10, <1>11 DEF LxInv

-----------------------------------------------------------------------------
LEMMA LxInvInit ==
  LxInit => LxInv
<1> SUFFICES ASSUME LxInit PROVE LxInv
  OBVIOUS
<1>1. Idle \in Calls /\ Idle.pc = "idle" /\ Idle.k = "idle" /\ Idle.seq = 0
  BY DEF Idle, Calls, Labels
<1>2. \A t \in Threads : p[t] = Idle /\ t \notin dead
  BY Zenon DEF LxInit
<1>3. TypeInv
  <2>1. Shape(Idle)
    BY <1>1, Zenon DEF Shape, Unlocking
  <2>2. Free \in [tid : Threads \cup {0}, died : BOOLEAN, waiters : BOOLEAN]
    BY Zenon DEF Free
  <2>3. cnd = 0 /\ cnd \in Nat /\ 0 <= cnd
    BY DEF LxInit
  <2>4. \A t \in Threads : Shape(p[t]) /\ p[t].seq <= cnd
    BY <1>1, <1>2, <2>1, <2>3, Zenon
  <2> QED
    BY <1>1, <2>2, <2>3, <2>4, Zenon DEF LxInit, TypeInv
<1>4. MutexInv
  <2>1. 0 \notin Threads
    BY TidsPositive
  <2>2. ftx.tid = 0 /\ queue = {} /\ sleepers = {}
    BY Zenon DEF LxInit, Free
  <2>3. \A t \in Threads : Good(t)
    BY <1>1, <1>2, <2>1, <2>2, Zenon DEF Good, Inside, Settled, Pending, Listed
  <2> QED
    BY <1>2, <2>3, Zenon DEF MutexInv
<1>5. WakeInv
  BY Zenon DEF LxInit, WakeInv, Told
<1> QED
  BY <1>3, <1>4, <1>5 DEF LxInv

LEMMA LxInvStep ==
  LxInv /\ [LxNext]_lx_vars => LxInv'
<1> SUFFICES ASSUME LxInv, [LxNext]_lx_vars PROVE LxInv'
  OBVIOUS
<1>1. ASSUME NEW t \in Threads, LxStep(t) PROVE LxInv'
  BY <1>1, TimedLockKeeps, LockPiKeeps, GrantedKeeps, RobustOpAddKeeps, LockDoneKeeps,
     UnlockKeeps, ReleaseKeeps, UnlockedKeeps, LeaveKeeps, CheckPredKeeps, LoadSeqKeeps,
     ParkKeeps, BumpKeeps, CmpRequeueKeeps, Zenon DEF LxStep
<1>2. ASSUME NEW t \in Threads, WaitIf(t) \/ Wake(t) \/ QuitWaiting(t) \/ LockFor(t)
      PROVE  LxInv'
  BY <1>2, OwnCallKeeps, WakeKeeps, Zenon
<1>3. ASSUME NEW t \in Threads, Interrupted(t) \/ TimedOut(t) PROVE LxInv'
  BY <1>3, InterruptedKeeps, TimedOutKeeps, Zenon
<1>4. CASE UNCHANGED lx_vars
  <2>1. TypeInv'
    BY <1>4, Zenon DEF lx_vars, LxInv, TypeInv, Shape
  <2>2. MutexInv'
    BY <1>4, Zenon DEF lx_vars, LxInv, MutexInv, Good, Gone
  <2>3. WakeInv'
    BY <1>4, Zenon DEF lx_vars, LxInv, WakeInv, Told, Outside, ToBump, Waker, Parking
  <2> QED
    BY <2>1, <2>2, <2>3, Zenon DEF LxInv
<1>5. CASE LxDone
  BY <1>4, <1>5, Zenon DEF LxDone
<1> QED
  BY <1>1, <1>2, <1>3, <1>4, <1>5, DieKeeps, Zenon DEF LxNext

\* The inductive invariant: where the word, the kernel's queues, the robust
\* lists and the calls agree, and which waker a told waiter still has.
THEOREM LxInvariance == LxSpec => []LxInv
BY LxInvInit, LxInvStep, PTL DEF LxSpec

\* mtx_timedlock, cnd_timedwait and mtx_unlock: whoever is past its lock and
\* before its release is the owner the word names, so two are never inside.
THEOREM OwnerHoldsAlways == LxSpec => []OwnerHolds
<1>1. LxInv => OwnerHolds
  BY Facts, Zenon DEF OwnerHolds, Good, Inside
<1> QED
  BY <1>1, LxInvariance, PTL

\* The robust list: no death leaves the word to a thread that is dead, and no
\* call fails with EPERM or ENOTRECOVERABLE.
THEOREM NotOrphanedAlways == LxSpec => []NotOrphaned
<1>1. LxInv => ftx.tid \notin dead
  <2> SUFFICES ASSUME LxInv, ftx.tid \in dead PROVE FALSE
    OBVIOUS
  <2>1. ftx.tid \in Threads
    BY Zenon DEF LxInv, TypeInv
  <2> QED
    BY <2>1, Facts, Zenon DEF Gone
<1>2. LxInv => LxTypeOK
  <2> SUFFICES ASSUME LxInv PROVE LxTypeOK
    OBVIOUS
  <2>1. \A t \in Threads : p[t].pc # "error"
    <3> SUFFICES ASSUME NEW t \in Threads PROVE p[t].pc # "error"
      OBVIOUS
    <3>1. p[t].pc \in Labels
      BY Facts, Zenon DEF Calls
    <3> QED
      BY <3>1, Zenon DEF Labels
  <2> QED
    BY <2>1, Zenon DEF LxInv, TypeInv, LxTypeOK
<1>3. LxInv => NotOrphaned
  BY <1>1, <1>2 DEF NotOrphaned
<1> QED
  BY <1>3, LxInvariance, PTL

\* Waiter::broadcast and quit_waiting: a sleeper that has been told has a
\* waker on the way, for any number of threads and calls.
THEOREM NoLostWakeupAlways == LxSpec => []NoLostWakeup
<1>1. LxInv => NoLostWakeup
  <2> SUFFICES ASSUME LxInv, NEW t \in sleepers, Told(t)
               PROVE  \E u \in Threads \ dead : p[u].k = "barrier"
    BY Zenon DEF NoLostWakeup, Told
  <2>1. t \in Threads
    BY Zenon DEF LxInv, TypeInv
  <2>2. t \notin dead
    BY <2>1, Facts, Zenon DEF Gone
  <2>3. \E u \in Threads : Waker(u)
    BY <2>1, <2>2, Zenon DEF LxInv, WakeInv
  <2> QED
    BY <2>3, Zenon DEF Waker
<1> QED
  BY <1>1, LxInvariance, PTL

-----------------------------------------------------------------------------
(* ConnHead *)

HeadLabels == {"new", "lock", "check", "zero", "publish", "unlock", "open", "cas", "in", "dead", "stuck", "gone"}
HeadEnds == [pc : HeadLabels, curr : SUBSET Bits, bit : Bits \cup {0}, ops : Nat]
HeadTypes == /\ lc \in {0, 1} /\ constructed \in BOOLEAN /\ cc \in SUBSET Bits
             /\ ends \in [HeadThreads -> HeadEnds]

\* The spin lock has one holder, dead or alive.
HeadHolds(t) == ends[t].pc \in {"check", "zero", "publish", "unlock", "stuck"}
HeadOneHolder == \A t \in HeadThreads : HeadHolds(t) => lc = 1 /\ \A u \in HeadThreads : HeadHolds(u) => u = t

\* Only a header that is not constructed is set up, and until it is constructed
\* no endpoint is past init.
HeadOnce == /\ \A t \in HeadThreads : ends[t].pc \in {"zero", "publish"} => ~constructed
            /\ \A t \in HeadThreads : ends[t].pc \in {"unlock", "open", "cas", "in", "gone"} => constructed

\* A CAS is tried while a bit is free in the word it expects.
HeadRoom == \A t \in HeadThreads : ends[t].pc = "cas" => ends[t].curr \in SUBSET Bits /\ ends[t].curr # Bits

HeadInv == HeadTypes /\ HeadOneHolder /\ HeadOnce /\ HeadRoom /\ BitsAreOwned

-----------------------------------------------------------------------------
\* A step that leaves the bits and who has them alone.
LEMMA SameHolders ==
  ASSUME BitsAreOwned, UNCHANGED cc,
         \A u \in HeadThreads : u \in Holders' <=> u \in Holders,
         \A u \in Holders : ends'[u].bit = ends[u].bit
  PROVE  BitsAreOwned'
<1>1. Holders' = Holders
  BY Zenon DEF Holders
<1>2. {ends'[u].bit : u \in Holders'} = {ends[u].bit : u \in Holders}
  BY <1>1, SMT
<1>3. cc' = {ends'[u].bit : u \in Holders'}
  BY <1>2, Zenon DEF BitsAreOwned
<1>4. ASSUME NEW u \in Holders', NEW v \in Holders', ends'[u].bit = ends'[v].bit PROVE u = v
  <2>1. u \in Holders /\ v \in Holders /\ ends[u].bit = ends[v].bit
    BY <1>1, <1>4, Zenon
  <2> QED
    BY <2>1, Zenon DEF BitsAreOwned
<1> QED
  BY <1>3, <1>4, Zenon DEF BitsAreOwned

\* A step of an endpoint that has no bit before or after it.
LEMMA SameBits ==
  ASSUME BitsAreOwned, UNCHANGED cc, NEW t \in HeadThreads,
         ends[t].pc \notin {"in", "gone"}, ends'[t].pc \notin {"in", "gone"},
         \A u \in HeadThreads : u # t => ends'[u] = ends[u]
  PROVE  BitsAreOwned'
<1>1. \A u \in HeadThreads : u \in Holders' <=> u \in Holders
  BY Zenon DEF Holders
<1>2. \A u \in Holders : ends'[u].bit = ends[u].bit
  BY Zenon DEF Holders
<1> QED
  BY <1>1, <1>2, SameHolders, Zenon

LEMMA HeadUpdated ==
  ASSUME ends \in [HeadThreads -> HeadEnds], NEW t \in HeadThreads, NEW e \in HeadEnds,
         ends' = [ends EXCEPT ![t] = e]
  PROVE  /\ ends' \in [HeadThreads -> HeadEnds] /\ ends'[t] = e
         /\ \A u \in HeadThreads : u # t => ends'[u] = ends[u]
BY Zenon

LEMMA HeadMoves ==
  ASSUME HeadTypes, NEW t \in HeadThreads, NEW l \in HeadLabels, HeadGoto(t, l)
  PROVE  /\ ends' \in [HeadThreads -> HeadEnds]
         /\ ends'[t].pc = l /\ ends'[t].curr = ends[t].curr /\ ends'[t].bit = ends[t].bit
         /\ \A u \in HeadThreads : u # t => ends'[u] = ends[u]
<1> DEFINE e == [ends[t] EXCEPT !.pc = l]
<1>1. e \in HeadEnds /\ e.pc = l /\ e.curr = ends[t].curr /\ e.bit = ends[t].bit
  BY SMT DEF HeadTypes, HeadEnds
<1>2. ends' = [ends EXCEPT ![t] = e] /\ ends \in [HeadThreads -> HeadEnds]
  BY Zenon DEF HeadGoto, HeadTypes
<1> HIDE DEF e
<1>3. /\ ends' \in [HeadThreads -> HeadEnds] /\ ends'[t] = e
      /\ \A u \in HeadThreads : u # t => ends'[u] = ends[u]
  BY <1>1, <1>2, HeadUpdated, Zenon
<1> QED
  BY <1>1, <1>3, Zenon

LEMMA HeadInvInit ==
  ASSUME HeadInit PROVE HeadInv
<1>1. HeadTypes
  BY Zenon DEF HeadInit, HeadTypes, HeadEnds, HeadLabels
<1>2. HeadOneHolder /\ HeadOnce /\ HeadRoom
  BY Zenon DEF HeadInit, HeadOneHolder, HeadHolds, HeadOnce, HeadRoom
<1>3. BitsAreOwned
  BY Zenon DEF HeadInit, BitsAreOwned, Holders
<1> QED
  BY <1>1, <1>2, <1>3, Zenon DEF HeadInv

LEMMA HeadInvStep ==
  ASSUME HeadInv, [HeadNext]_head_vars PROVE HeadInv'
<1>0. HeadTypes /\ HeadOneHolder /\ HeadOnce /\ HeadRoom /\ BitsAreOwned
  BY Zenon DEF HeadInv
<1>1. ASSUME NEW t \in HeadThreads, InitFast(t) PROVE HeadInv'
  <2>1. PICK l \in {"open", "lock"} : HeadGoto(t, l) /\ (l = "open" => constructed)
    BY <1>1, Zenon DEF InitFast
  <2>2. ends[t].pc = "new" /\ UNCHANGED <<lc, constructed, cc>>
    BY <1>1, Zenon DEF InitFast, HeadAt
  <2>3. /\ ends'[t].pc = l /\ ends'[t].curr = ends[t].curr
        /\ \A u \in HeadThreads : u # t => ends'[u] = ends[u]
    BY <1>0, <2>1, HeadMoves, Zenon DEF HeadLabels
  <2>4. ends' \in [HeadThreads -> HeadEnds]
    BY <1>0, <2>1, HeadMoves, Zenon DEF HeadLabels
  <2>5. HeadTypes'
    BY <1>0, <2>2, <2>4, Zenon DEF HeadTypes
  <2>6. HeadOneHolder'
    BY <1>0, <2>2, <2>3, Zenon DEF HeadOneHolder, HeadHolds
  <2>7. HeadOnce'
    BY <1>0, <2>2, <2>3, <2>1, Zenon DEF HeadOnce
  <2>8. HeadRoom'
    BY <1>0, <2>2, <2>3, Zenon DEF HeadRoom
  <2>9. BitsAreOwned'
    BY <1>0, <2>2, <2>3, SameBits, Zenon
  <2> QED
    BY <2>5, <2>6, <2>7, <2>8, <2>9, Zenon DEF HeadInv
<1>2. ASSUME NEW t \in HeadThreads, SpinLock(t) PROVE HeadInv'
  <2>1. PICK l \in {"check"} : HeadGoto(t, l)
    BY <1>2, Zenon DEF SpinLock
  <2>2. ends[t].pc = "lock" /\ UNCHANGED <<constructed, cc>> /\ lc = 0 /\ lc' = 1
    BY <1>2, Zenon DEF SpinLock, HeadAt
  <2>3. /\ ends'[t].pc = l /\ ends'[t].curr = ends[t].curr
        /\ \A u \in HeadThreads : u # t => ends'[u] = ends[u]
    BY <1>0, <2>1, HeadMoves, Zenon DEF HeadLabels
  <2>4. ends' \in [HeadThreads -> HeadEnds]
    BY <1>0, <2>1, HeadMoves, Zenon DEF HeadLabels
  <2>5. HeadTypes'
    BY <1>0, <2>2, <2>4, Zenon DEF HeadTypes
  <2>6. HeadOneHolder'
    BY <1>0, <2>2, <2>3 DEF HeadOneHolder, HeadHolds
  <2>7. HeadOnce'
    BY <1>0, <2>2, <2>3, <2>1, Zenon DEF HeadOnce
  <2>8. HeadRoom'
    BY <1>0, <2>2, <2>3, Zenon DEF HeadRoom
  <2>9. BitsAreOwned'
    BY <1>0, <2>2, <2>3, SameBits, Zenon
  <2> QED
    BY <2>5, <2>6, <2>7, <2>8, <2>9, Zenon DEF HeadInv
<1>3. ASSUME NEW t \in HeadThreads, InitCheck(t) PROVE HeadInv'
  <2>1. PICK l \in {"unlock", "zero"} : HeadGoto(t, l) /\ (constructed <=> l = "unlock")
    BY <1>3, Zenon DEF InitCheck
  <2>2. ends[t].pc = "check" /\ UNCHANGED <<lc, constructed, cc>>
    BY <1>3, Zenon DEF InitCheck, HeadAt
  <2>3. /\ ends'[t].pc = l /\ ends'[t].curr = ends[t].curr
        /\ \A u \in HeadThreads : u # t => ends'[u] = ends[u]
    BY <1>0, <2>1, HeadMoves, Zenon DEF HeadLabels
  <2>4. ends' \in [HeadThreads -> HeadEnds]
    BY <1>0, <2>1, HeadMoves, Zenon DEF HeadLabels
  <2>5. HeadTypes'
    BY <1>0, <2>2, <2>4, Zenon DEF HeadTypes
  <2>6. HeadOneHolder'
    BY <1>0, <2>2, <2>3, Zenon DEF HeadOneHolder, HeadHolds
  <2>7. HeadOnce'
    BY <1>0, <2>2, <2>3, <2>1, Zenon DEF HeadOnce
  <2>8. HeadRoom'
    BY <1>0, <2>2, <2>3, Zenon DEF HeadRoom
  <2>9. BitsAreOwned'
    BY <1>0, <2>2, <2>3, SameBits, Zenon
  <2> QED
    BY <2>5, <2>6, <2>7, <2>8, <2>9, Zenon DEF HeadInv
<1>4. ASSUME NEW t \in HeadThreads, InitPublish(t) PROVE HeadInv'
  <2>1. PICK l \in {"unlock"} : HeadGoto(t, l)
    BY <1>4, Zenon DEF InitPublish
  <2>2. ends[t].pc = "publish" /\ UNCHANGED <<lc, cc>> /\ constructed' = TRUE
    BY <1>4, Zenon DEF InitPublish, HeadAt
  <2>3. /\ ends'[t].pc = l /\ ends'[t].curr = ends[t].curr
        /\ \A u \in HeadThreads : u # t => ends'[u] = ends[u]
    BY <1>0, <2>1, HeadMoves, Zenon DEF HeadLabels
  <2>4. ends' \in [HeadThreads -> HeadEnds]
    BY <1>0, <2>1, HeadMoves, Zenon DEF HeadLabels
  <2>5. HeadTypes'
    BY <1>0, <2>2, <2>4, Zenon DEF HeadTypes
  <2>6. HeadOneHolder'
    BY <1>0, <2>2, <2>3, Zenon DEF HeadOneHolder, HeadHolds
  <2>7. HeadOnce'
    BY <1>0, <2>2, <2>3, <2>1, Zenon DEF HeadOnce, HeadOneHolder, HeadHolds
  <2>8. HeadRoom'
    BY <1>0, <2>2, <2>3, Zenon DEF HeadRoom
  <2>9. BitsAreOwned'
    BY <1>0, <2>2, <2>3, SameBits, Zenon
  <2> QED
    BY <2>5, <2>6, <2>7, <2>8, <2>9, Zenon DEF HeadInv
<1>5. ASSUME NEW t \in HeadThreads, SpinUnlock(t) PROVE HeadInv'
  <2>1. PICK l \in {"open"} : HeadGoto(t, l)
    BY <1>5, Zenon DEF SpinUnlock
  <2>2. ends[t].pc = "unlock" /\ UNCHANGED <<constructed, cc>> /\ lc' = 0
    BY <1>5, Zenon DEF SpinUnlock, HeadAt
  <2>3. /\ ends'[t].pc = l /\ ends'[t].curr = ends[t].curr
        /\ \A u \in HeadThreads : u # t => ends'[u] = ends[u]
    BY <1>0, <2>1, HeadMoves, Zenon DEF HeadLabels
  <2>4. ends' \in [HeadThreads -> HeadEnds]
    BY <1>0, <2>1, HeadMoves, Zenon DEF HeadLabels
  <2>5. HeadTypes'
    BY <1>0, <2>2, <2>4, Zenon DEF HeadTypes
  <2>6. HeadOneHolder'
    BY <1>0, <2>2, <2>3, Zenon DEF HeadOneHolder, HeadHolds
  <2>7. HeadOnce'
    BY <1>0, <2>2, <2>3, <2>1, Zenon DEF HeadOnce
  <2>8. HeadRoom'
    BY <1>0, <2>2, <2>3, Zenon DEF HeadRoom
  <2>9. BitsAreOwned'
    BY <1>0, <2>2, <2>3, SameBits, Zenon
  <2> QED
    BY <2>5, <2>6, <2>7, <2>8, <2>9, Zenon DEF HeadInv
<1>6. ASSUME NEW t \in HeadThreads, HeadDie(t) PROVE HeadInv'
  <2>1. PICK l \in {"stuck", "gone", "dead"} :
          /\ HeadGoto(t, l)
          /\ l = "stuck" <=> ends[t].pc \in HeadLocked
          /\ l = "gone" <=> ends[t].pc = "in"
    BY <1>6, Zenon DEF HeadDie, HeadLocked
  <2>2. ends[t].pc \notin {"dead", "stuck", "gone"} /\ UNCHANGED <<lc, constructed, cc>>
    BY <1>6, Zenon DEF HeadDie, Killed
  <2>3. /\ ends'[t].pc = l /\ ends'[t].curr = ends[t].curr /\ ends'[t].bit = ends[t].bit
        /\ \A u \in HeadThreads : u # t => ends'[u] = ends[u]
    BY <1>0, <2>1, HeadMoves, Zenon DEF HeadLabels
  <2>4. ends' \in [HeadThreads -> HeadEnds]
    BY <1>0, <2>1, HeadMoves, Zenon DEF HeadLabels
  <2>5. HeadTypes'
    BY <1>0, <2>2, <2>4, Zenon DEF HeadTypes
  <2>6. HeadOneHolder'
    BY <1>0, <2>1, <2>2, <2>3, Zenon DEF HeadOneHolder, HeadHolds, HeadLocked
  <2>7. HeadOnce'
    BY <1>0, <2>2, <2>3, <2>1, Zenon DEF HeadOnce
  <2>8. HeadRoom'
    BY <1>0, <2>2, <2>3, Zenon DEF HeadRoom
  <2>9. BitsAreOwned'
    <3>1. \A u \in HeadThreads : u \in Holders' <=> u \in Holders
      BY <2>1, <2>2, <2>3, Zenon DEF Holders
    <3>2. \A u \in Holders : ends'[u].bit = ends[u].bit
      BY <2>3, Zenon DEF Holders
    <3> QED
      BY <1>0, <2>2, <3>1, <3>2, SameHolders, Zenon
  <2> QED
    BY <2>5, <2>6, <2>7, <2>8, <2>9, Zenon DEF HeadInv
<1>7. ASSUME NEW t \in HeadThreads, InitZero(t) PROVE HeadInv'
  <2>1. HeadGoto(t, "publish") /\ ends[t].pc = "zero" /\ cc' = {} /\ UNCHANGED <<lc, constructed>>
    BY <1>7, Zenon DEF InitZero, HeadAt
  <2>2. cc = {}
    <3>1. \A u \in HeadThreads : ends[u].pc \notin {"in", "gone"}
      BY <1>0, <2>1, Zenon DEF HeadOnce
    <3>2. Holders = {}
      BY <3>1, Zenon DEF Holders
    <3> QED
      BY <1>0, <3>2, Zenon DEF BitsAreOwned
  <2>3. /\ ends'[t].pc = "publish" /\ ends'[t].curr = ends[t].curr
        /\ \A u \in HeadThreads : u # t => ends'[u] = ends[u]
    BY <1>0, <2>1, HeadMoves, Zenon DEF HeadLabels
  <2>4. ends' \in [HeadThreads -> HeadEnds]
    BY <1>0, <2>1, HeadMoves, Zenon DEF HeadLabels
  <2>5. HeadTypes'
    BY <1>0, <2>1, <2>4, Zenon DEF HeadTypes
  <2>6. HeadOneHolder'
    BY <1>0, <2>1, <2>3, Zenon DEF HeadOneHolder, HeadHolds
  <2>7. HeadOnce'
    BY <1>0, <2>1, <2>3, Zenon DEF HeadOnce
  <2>8. HeadRoom'
    BY <1>0, <2>1, <2>3, Zenon DEF HeadRoom
  <2>9. BitsAreOwned'
    BY <1>0, <2>1, <2>2, <2>3, SameBits, Zenon
  <2> QED
    BY <2>5, <2>6, <2>7, <2>8, <2>9, Zenon DEF HeadInv
<1>8. ASSUME NEW t \in HeadThreads, ends[t].pc \in {"open", "cas"}, UNCHANGED <<lc, constructed, cc>>,
             NEW n \in Nat, Expect(t, n)
      PROVE  HeadInv'
  <2>1. PICK l \in {"open", "cas"} :
          /\ l = "cas" => cc # Bits
          /\ ends' = [ends EXCEPT ![t] = [@ EXCEPT !.curr = cc, !.ops = n, !.pc = l]]
    BY <1>8, Zenon DEF Expect
  <2> DEFINE e == [ends[t] EXCEPT !.curr = cc, !.ops = n, !.pc = l]
  <2>w. ends[t] \in HeadEnds /\ cc \in SUBSET Bits /\ l \in HeadLabels /\ n \in Nat
    BY <1>0, <1>8, Zenon DEF HeadTypes, HeadLabels
  <2>x. e \in HeadEnds /\ e.pc = l /\ e.curr = cc
    BY <2>w, Zenon DEF HeadEnds
  <2>y. ends' = [ends EXCEPT ![t] = e] /\ ends \in [HeadThreads -> HeadEnds]
    BY <1>0, <2>1, Zenon DEF HeadTypes
  <2> HIDE DEF e
  <2>2. /\ ends' \in [HeadThreads -> HeadEnds] /\ ends'[t] = e
        /\ \A u \in HeadThreads : u # t => ends'[u] = ends[u]
    BY <2>x, <2>y, HeadUpdated, Zenon
  <2>3. ends'[t].pc = l /\ ends'[t].curr = cc
    BY <2>x, <2>2, Zenon
  <2>4. \A u \in HeadThreads : u # t => ends'[u] = ends[u]
    BY <2>2, Zenon
  <2>5. HeadTypes'
    BY <1>0, <1>8, <2>2, Zenon DEF HeadTypes
  <2>6. HeadOneHolder'
    BY <1>0, <1>8, <2>3, <2>4, Zenon DEF HeadOneHolder, HeadHolds
  <2>7. HeadOnce'
    BY <1>0, <1>8, <2>3, <2>4, Zenon DEF HeadOnce
  <2>8. HeadRoom'
    <3>1. cc \in SUBSET Bits
      BY <1>0, Zenon DEF HeadTypes
    <3> QED
      BY <1>0, <2>1, <2>3, <2>4, <3>1, Zenon DEF HeadRoom
  <2>9. BitsAreOwned'
    BY <1>0, <1>8, <2>3, <2>4, SameBits, Zenon
  <2> QED
    BY <2>5, <2>6, <2>7, <2>8, <2>9, Zenon DEF HeadInv
<1>9. ASSUME NEW t \in HeadThreads, ConnectLoad(t) PROVE HeadInv'
  <2>1. ends[t].ops + 1 \in Nat
    <3>1. ends[t] \in HeadEnds
      BY <1>0, Zenon DEF HeadTypes
    <3> QED
      BY <3>1, SMT DEF HeadEnds
  <2>2. ends[t].pc = "open" /\ UNCHANGED <<lc, constructed, cc>> /\ Expect(t, ends[t].ops + 1)
    BY <1>9, Zenon DEF ConnectLoad, HeadAt
  <2> QED
    BY <1>8, <2>1, <2>2, Zenon
<1>10. ASSUME NEW t \in HeadThreads, ConnectCas(t) PROVE HeadInv'
  <2>0. ends[t].pc = "cas" /\ UNCHANGED <<lc, constructed>> /\ ends[t].ops \in Nat
    BY <1>0, <1>10, Zenon DEF ConnectCas, HeadAt, HeadTypes, HeadEnds
  <2>1. CASE cc # ends[t].curr
    <3>1. Expect(t, ends[t].ops) /\ UNCHANGED cc
      BY <1>10, <2>1, Zenon DEF ConnectCas
    <3> QED
      BY <1>8, <2>0, <3>1, Zenon
  <2>2. CASE cc = ends[t].curr
    <3>1. PICK b \in Lowest(Bits \ cc) :
            /\ cc' = cc \cup {b}
            /\ ends' = [ends EXCEPT ![t] = [@ EXCEPT !.pc = "in", !.curr = {}, !.bit = b]]
      BY <1>10, <2>2, Zenon DEF ConnectCas
    <3>2. b \in Bits /\ b \notin cc
      BY Zenon DEF Lowest
    <3> DEFINE e == [ends[t] EXCEPT !.pc = "in", !.curr = {}, !.bit = b]
    <3>w. /\ ends[t] \in HeadEnds /\ {} \in SUBSET Bits /\ b \in Bits \cup {0}
          /\ "in" \in HeadLabels
      BY <1>0, <3>2, Zenon DEF HeadTypes, HeadLabels
    <3>x. e \in HeadEnds /\ e.pc = "in" /\ e.bit = b
      BY <3>w, Zenon DEF HeadEnds
    <3>y. ends' = [ends EXCEPT ![t] = e] /\ ends \in [HeadThreads -> HeadEnds]
      BY <1>0, <3>1, Zenon DEF HeadTypes
    <3> HIDE DEF e
    <3>3. /\ ends' \in [HeadThreads -> HeadEnds] /\ ends'[t] = e
          /\ \A u \in HeadThreads : u # t => ends'[u] = ends[u]
      BY <3>x, <3>y, HeadUpdated, Zenon
    <3>4. ends'[t].pc = "in" /\ ends'[t].bit = b
      BY <3>x, <3>3, Zenon
    <3>5. \A u \in HeadThreads : u # t => ends'[u] = ends[u]
      BY <3>3, Zenon
    <3>6. HeadTypes'
      BY <1>0, <2>0, <3>1, <3>2, <3>3, Zenon DEF HeadTypes
    <3>7. HeadOneHolder'
      BY <1>0, <2>0, <3>4, <3>5, Zenon DEF HeadOneHolder, HeadHolds
    <3>8. HeadOnce'
      BY <1>0, <2>0, <3>4, <3>5, Zenon DEF HeadOnce
    <3>9. HeadRoom'
      BY <1>0, <2>0, <3>4, <3>5, Zenon DEF HeadRoom
    <3>10. /\ Holders' = Holders \cup {t} /\ t \notin Holders
           /\ \A u \in Holders : ends'[u] = ends[u]
      BY <2>0, <3>4, <3>5, Zenon DEF Holders
    <3>11. cc = {ends[u].bit : u \in Holders}
      BY <1>0, Zenon DEF BitsAreOwned
    <3>12. cc' = {ends'[u].bit : u \in Holders'}
      BY <3>1, <3>4, <3>10, <3>11, SMT
    <3>13. ASSUME NEW u \in Holders', NEW v \in Holders', ends'[u].bit = ends'[v].bit PROVE u = v
      <4>1. \A x \in Holders : ends'[x].bit \in cc
        BY <3>10, <3>11, Zenon
      <4>2. CASE u = t \/ v = t
        BY <3>2, <3>4, <3>10, <3>13, <4>1, <4>2, Zenon
      <4>3. CASE u \in Holders /\ v \in Holders
        BY <1>0, <3>10, <3>13, <4>3, Zenon DEF BitsAreOwned
      <4> QED
        BY <3>10, <4>2, <4>3, Zenon
    <3>14. BitsAreOwned'
      BY <3>12, <3>13, Zenon DEF BitsAreOwned
    <3> QED
      BY <3>6, <3>7, <3>8, <3>9, <3>14, Zenon DEF HeadInv
  <2> QED
    BY <2>1, <2>2, Zenon
<1>11. ASSUME NEW t \in HeadThreads, Disconnect(t) PROVE HeadInv'
  <2>1. /\ ends[t].pc = "in" /\ cc' = cc \ {ends[t].bit} /\ UNCHANGED <<lc, constructed>>
        /\ ends' = [ends EXCEPT ![t] = [@ EXCEPT !.pc = "open", !.bit = 0]]
    BY <1>11, Zenon DEF Disconnect, HeadAt
  <2> DEFINE e == [ends[t] EXCEPT !.pc = "open", !.bit = 0]
  <2>w. ends[t] \in HeadEnds /\ 0 \in Bits \cup {0} /\ "open" \in HeadLabels
    BY <1>0, Zenon DEF HeadTypes, HeadLabels
  <2>x. e \in HeadEnds /\ e.pc = "open"
    BY <2>w, Zenon DEF HeadEnds
  <2>y. ends' = [ends EXCEPT ![t] = e] /\ ends \in [HeadThreads -> HeadEnds]
    BY <1>0, <2>1, Zenon DEF HeadTypes
  <2> HIDE DEF e
  <2>2. /\ ends' \in [HeadThreads -> HeadEnds] /\ ends'[t] = e
        /\ \A u \in HeadThreads : u # t => ends'[u] = ends[u]
    BY <2>x, <2>y, HeadUpdated, Zenon
  <2>3. ends'[t].pc = "open"
    BY <2>x, <2>2, Zenon
  <2>4. \A u \in HeadThreads : u # t => ends'[u] = ends[u]
    BY <2>2, Zenon
  <2>5. HeadTypes'
    BY <1>0, <2>1, <2>2, Zenon DEF HeadTypes
  <2>6. HeadOneHolder'
    BY <1>0, <2>1, <2>3, <2>4, Zenon DEF HeadOneHolder, HeadHolds
  <2>7. HeadOnce' /\ HeadRoom'
    BY <1>0, <2>1, <2>3, <2>4, Zenon DEF HeadOnce, HeadRoom
  <2>8. /\ Holders' = Holders \ {t} /\ t \in Holders
        /\ \A u \in Holders' : ends'[u] = ends[u]
    BY <2>1, <2>3, <2>4, Zenon DEF Holders
  <2>9. /\ cc = {ends[u].bit : u \in Holders}
        /\ \A u, v \in Holders : ends[u].bit = ends[v].bit => u = v
    BY <1>0, Zenon DEF BitsAreOwned
  <2>10. cc' = {ends'[u].bit : u \in Holders'}
    BY <2>1, <2>8, <2>9, SMT
  <2>11. ASSUME NEW u \in Holders', NEW v \in Holders', ends'[u].bit = ends'[v].bit PROVE u = v
    BY <2>8, <2>9, <2>11, Zenon
  <2>12. BitsAreOwned'
    BY <2>10, <2>11, Zenon DEF BitsAreOwned
  <2> QED
    BY <2>5, <2>6, <2>7, <2>12, Zenon DEF HeadInv
<1>12. CASE UNCHANGED head_vars
  <2>1. HeadTypes' /\ HeadOneHolder' /\ HeadOnce' /\ HeadRoom'
    BY <1>0, <1>12, Zenon DEF head_vars, HeadTypes, HeadOneHolder, HeadHolds, HeadOnce, HeadRoom
  <2>2. BitsAreOwned'
    BY <1>0, <1>12, Zenon DEF head_vars, BitsAreOwned, Holders
  <2> QED
    BY <2>1, <2>2, Zenon DEF HeadInv
<1> QED
  BY <1>1, <1>2, <1>3, <1>4, <1>5, <1>6, <1>7, <1>9, <1>10, <1>11, <1>12, Zenon
     DEF HeadNext, Construct, HeadDone

-----------------------------------------------------------------------------
\* RingHeader::init never wipes the bit of a connected receiver, and connect
\* never gives two receivers one bit, whatever the number of endpoints and
\* bits and wherever an endpoint is killed.
THEOREM HeadBits == HeadSpec => []BitsAreOwned
<1>1. HeadInit => HeadInv
  BY HeadInvInit, Zenon
<1>2. HeadInv /\ [HeadNext]_head_vars => HeadInv'
  BY HeadInvStep, Zenon
<1>3. HeadInv => BitsAreOwned
  BY Zenon DEF HeadInv
<1> QED
  BY <1>1, <1>2, <1>3, PTL DEF HeadSpec
=============================================================================
