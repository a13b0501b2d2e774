----------------------------- MODULE AppleProof -----------------------------
(***************************************************************************)
(* The macOS mutex and condition, for every number of threads and calls:   *)
(* one thread at a time has the mutex, through the recovery of a dead      *)
(* holder's, and nobody is left asleep on the word or on the condition.    *)
(***************************************************************************)
EXTENDS AppleSync, TLAPS

Labels == {"idle", "cas", "hold", "mark", "sleep", "queued", "rec_load", "rec_check", "rec_swap",
           "rec_clear", "rec_wake", "unlock", "swap", "ulock_wake", "crit", "barrier", "timeout",
           "pred", "load", "count", "park", "asleep", "uncount", "bump", "wake"}
Calls == [pc : Labels, k : {"idle", "crit", "barrier", "pred", "timeout"},
          u : {"idle", "bump", "park"}, m : {"lock", "timed", "try"}, timed : BOOLEAN,
          contended : BOOLEAN, tried : BOOLEAN, all : BOOLEAN, seq : Nat, old : 0..2,
          h : ApThreads \cup {0}, ops : Nat]

Recovering == {"rec_load", "rec_check", "rec_swap", "rec_clear", "rec_wake"}
Releasing == {"unlock", "swap", "ulock_wake"}

\* What a call wants the mutex for fits where it is: only a timed or a try
\* lock recovers, a waker comes by its barrier and its bump.
Shape(c) ==
  /\ c.pc = "idle" <=> c.k = "idle"
  /\ c.m # "lock" => c.k = "crit"
  /\ c.m = "try" => ~c.contended /\ c.pc \notin {"mark", "sleep", "queued"}
  /\ c.pc \in Recovering => c.k = "crit"
  /\ c.pc \in {"crit", "barrier", "pred", "timeout"} => c.k = c.pc
  /\ c.pc \in {"load", "count", "park", "asleep"} => c.k = "pred"
  /\ c.pc = "uncount" => c.k \in {"pred", "timeout"}
  /\ c.pc \in {"bump", "wake"} => c.k = "barrier"
  /\ c.pc \in Releasing => (c.u = "bump" <=> c.k = "barrier") /\ (c.u = "park" => c.k = "pred")

Shaped == \A t \in ApThreads : Shape(ap_p[t])

TypeInv ==
  /\ ap_state \in 0..2 /\ ap_holder \in ApThreads \cup {0}
  /\ ap_queue \subseteq ApThreads /\ ap_sleepers \subseteq ApThreads /\ ap_dead \subseteq ApThreads
  /\ ap_cnd \in Nat
  /\ ap_pred \in [ApThreads -> BOOLEAN] /\ ap_overlap \in BOOLEAN
  /\ ap_p \in [ApThreads -> Calls]
  /\ Shaped
  /\ \A t \in ApThreads : /\ ap_p[t].seq <= ap_cnd
                          /\ t \in ap_dead => ap_p[t].pc = "idle"
                          /\ t \in ap_queue => ap_p[t].pc = "queued"
                          /\ t \in ap_sleepers => ap_p[t].pc = "asleep"

-----------------------------------------------------------------------------
HeldPcs == {"crit", "barrier", "pred", "load", "count", "timeout", "unlock"}
In(t) == ap_p[t].pc \in HeldPcs \cup {"hold", "swap"}
Rec(t) == ap_p[t].pc \in {"rec_swap", "rec_clear"}
Busy == HeldPcs \cup {"hold", "swap", "rec_swap", "rec_clear"}

\* One thread is inside, and none while the word is 0; one recovers; the one
\* it recovers from is dead and left the word set with nobody inside; and the
\* holder on record, if it lives, is inside.
ExclInv ==
  ~ap_overlap =>
    /\ \A t, u \in ApThreads : In(t) /\ In(u) => t = u
    /\ ap_state = 0 => \A t \in ApThreads : ~In(t)
    /\ \A t, u \in ApThreads : Rec(t) /\ Rec(u) => t = u
    /\ \A t \in ApThreads : ap_p[t].pc = "rec_swap" => ap_holder \in ap_dead
    /\ ap_holder \in ap_dead /\ (\A t \in ApThreads : ap_p[t].pc # "rec_clear") =>
         ap_state # 0 /\ \A t \in ApThreads : ~In(t)
    /\ \A t \in ApThreads : ap_holder = t /\ t \notin ap_dead => ap_p[t].pc \in HeldPcs

\* A thread that will wake the sleepers of the word, or say again that there
\* are some.
Cover(u) == \/ ap_p[u].pc \in {"ulock_wake", "rec_clear", "rec_wake"} /\ ap_p[u].old = 2
            \/ ap_p[u].pc = "queued" /\ u \notin ap_queue
            \/ ap_p[u].pc \in {"cas", "mark"} /\ ap_p[u].contended
CoverInv == ap_queue # {} /\ ~ap_broken => ap_state = 2 \/ \E u \in ApThreads : Cover(u)

Waker(u) == ap_p[u].k = "barrier"
ToBump(u) == Waker(u) /\ ap_p[u].pc # "wake"
\* A waker that has still to get the mutex.
Outside(u) == Waker(u) /\ ap_p[u].pc \in {"cas", "mark", "sleep", "queued"}
\* A waiter with the mutex, and without it, on its way to sleep.
Parking(t) == ap_p[t].pc \in {"load", "count"} \/ (ap_p[t].pc \in {"unlock", "swap"} /\ ap_p[t].u = "park")
Parked(t) == ap_p[t].pc \in {"park", "asleep"} \/ (ap_p[t].pc = "ulock_wake" /\ ap_p[t].u = "park")

\* A waiter that has been told: as long as it has the mutex the waker has
\* still to get it; while the number it loaded is the current one the waker
\* has still to bump it; and a sleeper has a waker on the way.
WakeInv ==
  ~ap_overlap /\ ~ap_lapse => \A t \in ApThreads : ~ap_pred[t] =>
    /\ Parking(t) => \E v \in ApThreads : Outside(v)
    /\ Parked(t) /\ ap_p[t].seq = ap_cnd => \E v \in ApThreads : ToBump(v)
    /\ t \in ap_sleepers => \E v \in ApThreads : Waker(v)

Counts(c) == c.pc \in {"park", "asleep", "uncount"} \/ (c.pc \in Releasing /\ c.u = "park")
Counted == {t \in ApThreads : Counts(ap_p[t])}

\* The count is no less than the waiters on their way: each has a number of
\* its own in it.  Some numbers may be those of waiters that died.
CountInv ==
  /\ ap_waiters \in Nat
  /\ \E f \in [Counted -> 1..ap_waiters] : \A a, b \in Counted : f[a] = f[b] => a = b

ApInv == TypeInv /\ ExclInv /\ CoverInv /\ WakeInv /\ CountInv

\* No thread has the id that stands for no holder.
ApSetting == 0 \notin ApThreads

-----------------------------------------------------------------------------
(* The records of calls.                                                   *)

Others(t) == /\ ap_p' \in [ApThreads -> Calls]
             /\ \A u \in ApThreads : u # t => ap_p'[u] = ap_p[u]

LEMMA Updated ==
  ASSUME ap_p \in [ApThreads -> Calls], NEW t \in ApThreads, NEW e \in Calls,
         ap_p' = [ap_p EXCEPT ![t] = e]
  PROVE  Others(t) /\ ap_p'[t] = e
BY Zenon DEF Others

\* A call that goes to another label.
LEMMA Moved ==
  ASSUME ap_p \in [ApThreads -> Calls], NEW t \in ApThreads, NEW l \in Labels, ApGoto(t, l)
  PROVE  /\ Others(t) /\ ap_p'[t].pc = l /\ ap_p'[t].k = ap_p[t].k /\ ap_p'[t].u = ap_p[t].u
         /\ ap_p'[t].m = ap_p[t].m /\ ap_p'[t].contended = ap_p[t].contended
         /\ ap_p'[t].seq = ap_p[t].seq /\ ap_p'[t].old = ap_p[t].old
<1> DEFINE e == [ap_p[t] EXCEPT !.pc = l]
<1>1. ap_p[t] \in Calls
  OBVIOUS
<1>2. /\ e \in Calls /\ e.pc = l /\ e.k = ap_p[t].k /\ e.u = ap_p[t].u /\ e.m = ap_p[t].m
      /\ e.contended = ap_p[t].contended /\ e.seq = ap_p[t].seq /\ e.old = ap_p[t].old
  BY <1>1, Zenon DEF Calls
<1>3. ap_p' = [ap_p EXCEPT ![t] = e]
  BY Zenon DEF ApGoto
<1> HIDE DEF e
<1> QED
  BY <1>2, <1>3, Updated, Zenon

\* One that is about to unlock.
LEMMA MovedToUnlock ==
  ASSUME ap_p \in [ApThreads -> Calls], NEW t \in ApThreads, NEW v \in {"idle", "bump", "park"},
         ap_p' = [ap_p EXCEPT ![t].pc = "unlock", ![t].u = v]
  PROVE  /\ Others(t) /\ ap_p'[t].pc = "unlock" /\ ap_p'[t].k = ap_p[t].k /\ ap_p'[t].u = v
         /\ ap_p'[t].m = ap_p[t].m /\ ap_p'[t].contended = ap_p[t].contended
         /\ ap_p'[t].seq = ap_p[t].seq /\ ap_p'[t].old = ap_p[t].old
<1> DEFINE e == [ap_p[t] EXCEPT !.pc = "unlock", !.u = v]
<1>1. ap_p[t] \in Calls /\ "unlock" \in Labels
  BY DEF Labels
<1>2. /\ e \in Calls /\ e.pc = "unlock" /\ e.k = ap_p[t].k /\ e.u = v /\ e.m = ap_p[t].m
      /\ e.contended = ap_p[t].contended /\ e.seq = ap_p[t].seq /\ e.old = ap_p[t].old
  BY <1>1, Zenon DEF Calls
<1>3. ap_p' = [ap_p EXCEPT ![t] = e]
  BY Zenon
<1> HIDE DEF e
<1> QED
  BY <1>2, <1>3, Updated, Zenon

\* The call of a thread that makes none.
LEMMA IdleCall ==
  /\ ApIdle \in Calls /\ ApIdle.pc = "idle" /\ ApIdle.k = "idle" /\ ApIdle.u = "idle"
  /\ ApIdle.m = "lock" /\ ApIdle.contended = FALSE /\ ApIdle.seq = 0
BY DEF ApIdle, Calls, Labels

\* One that returns.
LEMMA Returned ==
  ASSUME ap_p \in [ApThreads -> Calls], NEW t \in ApThreads, ap_p' = ApReturn(t)
  PROVE  /\ Others(t) /\ ap_p'[t].pc = "idle" /\ ap_p'[t].k = "idle" /\ ap_p'[t].u = "idle"
         /\ ap_p'[t].m = "lock" /\ ap_p'[t].seq = 0
<1> DEFINE e == [ApIdle EXCEPT !.ops = ap_p[t].ops]
<1>1. ap_p[t].ops \in Nat
  BY Zenon DEF Calls
<1>3. e \in Calls /\ e.pc = "idle" /\ e.k = "idle" /\ e.u = "idle" /\ e.m = "lock" /\ e.seq = 0
  BY <1>1, IdleCall, Zenon DEF Calls
<1>4. ap_p' = [ap_p EXCEPT ![t] = e]
  BY Zenon DEF ApReturn
<1> HIDE DEF e
<1> QED
  BY <1>3, <1>4, Updated, Zenon

-----------------------------------------------------------------------------
(* What a step must do to keep the invariants.                             *)

LEMMA Facts ==
  ASSUME ApInv
  PROVE  /\ ap_p \in [ApThreads -> Calls] /\ ap_cnd \in Nat
         /\ ap_state \in 0..2 /\ ap_holder \in ApThreads \cup {0}
         /\ ap_queue \subseteq ApThreads /\ ap_sleepers \subseteq ApThreads /\ ap_dead \subseteq ApThreads
         /\ ap_pred \in [ApThreads -> BOOLEAN] /\ ap_overlap \in BOOLEAN
         /\ \A t \in ApThreads : /\ ap_p[t] \in Calls /\ Shape(ap_p[t])
                                 /\ ap_p[t].seq \in Nat /\ ap_p[t].seq <= ap_cnd
                                 /\ t \in ap_dead => ap_p[t].pc = "idle"
                                 /\ t \in ap_queue => ap_p[t].pc = "queued"
                                 /\ t \in ap_sleepers => ap_p[t].pc = "asleep"
<1>1. ap_p \in [ApThreads -> Calls]
  BY Zenon DEF ApInv, TypeInv
<1>2. \A t \in ApThreads : ap_p[t] \in Calls /\ ap_p[t].seq \in Nat
  BY <1>1, Zenon DEF Calls
<1> QED
  BY <1>1, <1>2, Zenon DEF ApInv, TypeInv, Shaped

LEMMA ShapedNext ==
  ASSUME \A u \in ApThreads : Shape(ap_p'[u])
  PROVE  Shaped'
BY Zenon DEF Shaped, Shape

\* One thread's call changed, and nobody new but it is held by the kernel.
LEMMA TypeStep ==
  ASSUME ApInv, NEW t \in ApThreads, t \notin ap_dead, Others(t), ap_dead' = ap_dead,
         ap_state' \in 0..2, ap_holder' \in ApThreads \cup {0},
         ap_cnd' = ap_cnd, ap_pred' \in [ApThreads -> BOOLEAN],
         ap_overlap' \in BOOLEAN,
         ap_queue' \subseteq ap_queue \cup {t}, ap_sleepers' \subseteq ap_sleepers \cup {t},
         Shape(ap_p'[t]), ap_p'[t].seq <= ap_cnd,
         t \in ap_queue' => ap_p'[t].pc = "queued", t \in ap_sleepers' => ap_p'[t].pc = "asleep"
  PROVE  TypeInv'
<1>1. ASSUME NEW u \in ApThreads
      PROVE  /\ Shape(ap_p'[u]) /\ ap_p'[u].seq <= ap_cnd
             /\ u \in ap_dead => ap_p'[u].pc = "idle"
             /\ u \in ap_queue' => ap_p'[u].pc = "queued"
             /\ u \in ap_sleepers' => ap_p'[u].pc = "asleep"
  <2>1. CASE u = t
    BY <2>1, Zenon
  <2>2. CASE u # t
    BY <2>2, Facts, Zenon DEF Others
  <2> QED
    BY <2>1, <2>2, Zenon
<1>2. /\ ap_cnd' \in Nat /\ ap_dead' \subseteq ApThreads
      /\ ap_queue' \subseteq ApThreads /\ ap_sleepers' \subseteq ApThreads
  BY Facts, Zenon
<1>3. ap_p' \in [ApThreads -> Calls]
  BY Zenon DEF Others
<1> QED
  BY <1>1, <1>2, <1>3, ShapedNext, Zenon DEF TypeInv

\* A thread that stays outside the mutex and the recovery, or inside it.
LEMMA ExclStep ==
  ASSUME ApInv, NEW t \in ApThreads, Others(t), ap_dead' = ap_dead, ap_overlap' = ap_overlap,
         ap_holder' = ap_holder, ap_state' = 0 <=> ap_state = 0,
         \/ ap_p[t].pc \notin Busy /\ ap_p'[t].pc \notin Busy
         \/ ap_p[t].pc \in HeldPcs /\ ap_p'[t].pc \in HeldPcs
  PROVE  ExclInv'
<1>1. \A u \in ApThreads : /\ In(u)' <=> In(u)
                           /\ Rec(u)' <=> Rec(u)
                           /\ ap_p'[u].pc = "rec_swap" <=> ap_p[u].pc = "rec_swap"
                           /\ ap_p'[u].pc = "rec_clear" <=> ap_p[u].pc = "rec_clear"
                           /\ ap_p'[u].pc \in HeldPcs <=> ap_p[u].pc \in HeldPcs
  <2> SUFFICES ASSUME NEW u \in ApThreads
               PROVE  /\ In(u)' <=> In(u)
                      /\ Rec(u)' <=> Rec(u)
                      /\ ap_p'[u].pc = "rec_swap" <=> ap_p[u].pc = "rec_swap"
                      /\ ap_p'[u].pc = "rec_clear" <=> ap_p[u].pc = "rec_clear"
                      /\ ap_p'[u].pc \in HeldPcs <=> ap_p[u].pc \in HeldPcs
    OBVIOUS
  <2>1. CASE u # t
    BY <2>1, Zenon DEF Others, In, Rec
  <2>2. CASE ap_p[t].pc \notin Busy /\ ap_p'[t].pc \notin Busy /\ u = t
    BY <2>2, Zenon DEF Busy, In, Rec
  <2>3. CASE ap_p[t].pc \in HeldPcs /\ ap_p'[t].pc \in HeldPcs /\ u = t
    <3>1. HeldPcs \cap {"rec_swap", "rec_clear"} = {}
      BY DEF HeldPcs
    <3> QED
      BY <2>3, <3>1, Zenon DEF In, Rec
  <2> QED
    BY <2>1, <2>2, <2>3, Zenon
<1>2. ExclInv
  BY Zenon DEF ApInv
<1> QED
  BY <1>1, <1>2, Zenon DEF ExclInv

\* Who covers the sleepers of the word hands the duty on.
LEMMA CoverStep ==
  ASSUME ApInv, NEW t \in ApThreads, Others(t), ap_queue' \subseteq ap_queue,
         ap_broken => ap_broken',
         ap_broken' \/ (ap_state = 2 => ap_state' = 2 \/ \E u \in ApThreads : Cover(u)'),
         ap_broken' \/ (Cover(t) => ap_state' = 2 \/ ap_queue' = {} \/ \E u \in ApThreads : Cover(u)')
  PROVE  CoverInv'
<1>1. \A u \in ApThreads : u # t /\ Cover(u) => Cover(u)'
  BY Zenon DEF Cover, Others
<1>2. CoverInv
  BY Zenon DEF ApInv
<1> QED
  BY <1>1, <1>2, Zenon DEF CoverInv

\* The same for the wake-ups: a waker goes on towards its bump, gets the mutex
\* only when no waiter has it, and a waiter was told before, if it was told.
LEMMA WakeStep ==
  ASSUME ApInv, NEW t \in ApThreads, Others(t), ap_cnd' = ap_cnd,
         ap_overlap => ap_overlap', ap_lapse => ap_lapse',
         \A u \in ApThreads : u # t => ap_pred'[u] = ap_pred[u],
         ap_sleepers' \subseteq ap_sleepers \cup {t},
         Waker(t) => Waker(t)', ToBump(t) => ToBump(t)',
         Outside(t) => Outside(t)' \/ ap_overlap \/ \A s \in ApThreads : ~Parking(s),
         ~ap_pred'[t] =>
           /\ ~ap_pred[t]
           /\ Parking(t)' => Parking(t)
           /\ Parked(t)' /\ ap_p'[t].seq = ap_cnd => Parking(t) \/ (Parked(t) /\ ap_p[t].seq = ap_cnd)
           /\ t \in ap_sleepers' => t \in ap_sleepers \/ (Parked(t) /\ ap_p[t].seq = ap_cnd)
  PROVE  WakeInv'
<1> SUFFICES ASSUME ~ap_overlap, ~ap_lapse, NEW s \in ApThreads, ~ap_pred'[s]
             PROVE  /\ Parking(s)' => \E v \in ApThreads : Outside(v)'
                    /\ Parked(s)' /\ ap_p'[s].seq = ap_cnd => \E v \in ApThreads : ToBump(v)'
                    /\ s \in ap_sleepers' => \E v \in ApThreads : Waker(v)'
  BY Zenon DEF WakeInv
<1>0. ~ap_pred[s]
  BY Zenon
<1>1. /\ Parking(s) => \E v \in ApThreads : Outside(v)
      /\ Parked(s) /\ ap_p[s].seq = ap_cnd => \E v \in ApThreads : ToBump(v)
      /\ s \in ap_sleepers => \E v \in ApThreads : Waker(v)
  BY <1>0, Zenon DEF ApInv, WakeInv
<1>2. \A v \in ApThreads : Waker(v) => Waker(v)'
  BY Zenon DEF Waker, Others
<1>3. \A v \in ApThreads : ToBump(v) => ToBump(v)'
  BY Zenon DEF ToBump, Waker, Others
<1>4. Parking(s) => \A v \in ApThreads : Outside(v) => Outside(v)'
  BY Zenon DEF Outside, Waker, Others
<1>5. \A v \in ApThreads : Outside(v) => ToBump(v)
  BY Zenon DEF Outside, ToBump
<1>6. Parking(s)' => Parking(s)
  BY Zenon DEF Parking, Others
<1>7. Parked(s)' /\ ap_p'[s].seq = ap_cnd => Parking(s) \/ (Parked(s) /\ ap_p[s].seq = ap_cnd)
  BY Zenon DEF Parked, Others
<1>8. s \in ap_sleepers' => s \in ap_sleepers \/ (Parked(s) /\ ap_p[s].seq = ap_cnd)
  BY Zenon
<1>9. \A v \in ApThreads : ToBump(v) => Waker(v)
  BY Zenon DEF ToBump
<1>10. Parking(s)' => \E v \in ApThreads : Outside(v)'
  BY <1>1, <1>4, <1>6, Zenon
<1>11. Parked(s)' /\ ap_p'[s].seq = ap_cnd => \E v \in ApThreads : ToBump(v)'
  BY <1>1, <1>3, <1>5, <1>7, Zenon
<1>12. s \in ap_sleepers' => \E v \in ApThreads : Waker(v)'
  BY <1>1, <1>2, <1>8, <1>9, Zenon
<1> QED
  BY <1>10, <1>11, <1>12

\* Nobody new is counted, and the count does not fall.
LEMMA CountStep ==
  ASSUME ApInv, NEW t \in ApThreads, Others(t), ap_waiters' = ap_waiters,
         Counts(ap_p'[t]) => Counts(ap_p[t])
  PROVE  CountInv'
<1>1. Counted' \subseteq Counted
  BY Zenon DEF Counted, Others
<1>2. PICK f \in [Counted -> 1..ap_waiters] : \A a, b \in Counted : f[a] = f[b] => a = b
  BY Zenon DEF ApInv, CountInv
<1> DEFINE g == [x \in Counted' |-> f[x]]
<1>3. g \in [Counted' -> 1..ap_waiters]
  BY <1>1, Zenon
<1>4. \A a, b \in Counted' : g[a] = g[b] => a = b
  BY <1>1, <1>2, Zenon
<1> HIDE DEF g
<1>5. ap_waiters \in Nat
  BY Zenon DEF ApInv, CountInv
<1> QED
  BY <1>3, <1>4, <1>5, Zenon DEF CountInv

\* A step that changes one thread's call alone.
LEMMA PlainStep ==
  ASSUME ApSetting, ApInv, NEW t \in ApThreads, t \notin ap_dead, Others(t),
         UNCHANGED <<ap_mutex, ap_cond, ap_client>>,
         Shape(ap_p'[t]), ap_p'[t].seq <= ap_cnd, t \notin ap_queue, t \notin ap_sleepers,
         \/ ap_p[t].pc \notin Busy /\ ap_p'[t].pc \notin Busy
         \/ ap_p[t].pc \in HeldPcs /\ ap_p'[t].pc \in HeldPcs,
         Cover(t) => Cover(t)',
         Waker(t) => Waker(t)', ToBump(t) => ToBump(t)', Outside(t) => Outside(t)',
         Parking(t)' => Parking(t), ~Parked(t)',
         Counts(ap_p'[t]) => Counts(ap_p[t])
  PROVE  ApInv'
<1>0. /\ ap_state' = ap_state /\ ap_holder' = ap_holder /\ ap_queue' = ap_queue
      /\ ap_cnd' = ap_cnd /\ ap_waiters' = ap_waiters /\ ap_sleepers' = ap_sleepers
      /\ ap_pred' = ap_pred /\ ap_dead' = ap_dead /\ ap_lapse' = ap_lapse
      /\ ap_broken' = ap_broken /\ ap_overlap' = ap_overlap
  BY Zenon DEF ap_mutex, ap_cond, ap_client
<1>1. TypeInv'
  BY <1>0, Facts, TypeStep, Zenon
<1>2. ExclInv'
  BY <1>0, ExclStep, Zenon
<1>3. CoverInv'
  BY <1>0, CoverStep, Zenon
<1>4. WakeInv'
  BY <1>0, WakeStep, Zenon
<1>5. CountInv'
  BY <1>0, CountStep, Zenon
<1> QED
  BY <1>1, <1>2, <1>3, <1>4, <1>5, Zenon DEF ApInv

\* A call that returns from outside, and was nobody's hope.
LEMMA ReturnStep ==
  ASSUME ApSetting, ApInv, NEW t \in ApThreads, t \notin ap_dead,
         UNCHANGED <<ap_mutex, ap_cond, ap_client>>, ap_p' = ApReturn(t),
         ap_p[t].pc \notin Busy, t \notin ap_queue, t \notin ap_sleepers, ~Cover(t), ~Waker(t)
  PROVE  ApInv'
<1>1. ap_p \in [ApThreads -> Calls] /\ 0 <= ap_cnd
  BY Facts
<1>2. /\ Others(t) /\ ap_p'[t].pc = "idle" /\ ap_p'[t].k = "idle" /\ ap_p'[t].u = "idle"
      /\ ap_p'[t].m = "lock" /\ ap_p'[t].seq = 0
  BY <1>1, Returned, Zenon
<1>3. Shape(ap_p'[t])
  BY <1>2 DEF Shape, Recovering, Releasing
<1>4. "idle" \notin Busy
  BY Zenon DEF Busy, HeldPcs
<1>5. ~Parking(t)' /\ ~Parked(t)' /\ ~Counts(ap_p'[t])
  BY <1>2, Zenon DEF Parking, Parked, Counts, Releasing
<1> QED
  BY <1>1, <1>2, <1>3, <1>4, <1>5, PlainStep, Zenon DEF ToBump, Outside

-----------------------------------------------------------------------------
(* Locking.                                                                *)

LEMMA NobodyParks ==
  ASSUME ApInv, ~ap_overlap, NEW t \in ApThreads, ap_state = 0 \/ (In(t) /\ ~Parking(t))
  PROVE  \A s \in ApThreads : ~Parking(s)
<1>1. \A s \in ApThreads : Parking(s) => In(s)
  BY Zenon DEF Parking, In, HeldPcs
<1>2. \A s, u \in ApThreads : In(s) /\ In(u) => s = u
  BY Zenon DEF ApInv, ExclInv
<1>3. ap_state = 0 => \A s \in ApThreads : ~In(s)
  BY Zenon DEF ApInv, ExclInv
<1> QED
  BY <1>1, <1>2, <1>3, Zenon

LEMMA CasKeeps ==
  ASSUME ApSetting, ApInv, NEW t \in ApThreads, ApCas(t)
  PROVE  ApInv'
<1>0. /\ ap_p[t].pc = "cas" /\ t \notin ap_dead /\ ap_state = 0 /\ ApGoto(t, "hold")
      /\ ap_state' = IF ap_p[t].contended THEN 2 ELSE 1
      /\ ap_holder' = ap_holder /\ ap_queue' = ap_queue
      /\ ap_cnd' = ap_cnd /\ ap_waiters' = ap_waiters /\ ap_sleepers' = ap_sleepers
      /\ ap_pred' = ap_pred /\ ap_dead' = ap_dead /\ ap_lapse' = ap_lapse
      /\ ap_broken' = ap_broken /\ ap_overlap' = ap_overlap
  BY Zenon DEF ApCas, ApAt, ap_cond, ap_client
<1>1. /\ Shape(ap_p[t]) /\ ap_p \in [ApThreads -> Calls] /\ ap_p[t].seq <= ap_cnd
      /\ t \notin ap_queue /\ t \notin ap_sleepers
  BY <1>0, Facts, Zenon
<1>2. /\ Others(t) /\ ap_p'[t].pc = "hold" /\ ap_p'[t].k = ap_p[t].k /\ ap_p'[t].u = ap_p[t].u
      /\ ap_p'[t].m = ap_p[t].m /\ ap_p'[t].contended = ap_p[t].contended
      /\ ap_p'[t].seq = ap_p[t].seq
  BY <1>0, <1>1, Moved, Zenon DEF Labels
<1>3. Shape(ap_p'[t])
  BY <1>0, <1>1, <1>2 DEF Shape, Recovering, Releasing
<1>4. ap_state' \in 0..2 /\ ap_state' # 0
  BY <1>0
<1>5. TypeInv'
  BY <1>0, <1>1, <1>2, <1>3, <1>4, Facts, TypeStep, Zenon
<1>6. ExclInv'
  <2> SUFFICES ASSUME ~ap_overlap
               PROVE  ExclInv'
    BY <1>0, Zenon DEF ExclInv
  <2>1. \A u \in ApThreads : ~In(u)
    BY <1>0, Zenon DEF ApInv, ExclInv
  <2>2. \A u \in ApThreads : In(u)' => u = t
    BY <1>2, <2>1, Zenon DEF In, Others
  <2>3. \A u \in ApThreads : (Rec(u)' => Rec(u)) /\ (ap_p'[u].pc = "rec_swap" => ap_p[u].pc = "rec_swap")
    BY <1>2, Zenon DEF Rec, Others
  <2>4. \A u \in ApThreads : ap_p[u].pc = "rec_clear" => ap_p'[u].pc = "rec_clear"
    BY <1>0, <1>2, Zenon DEF Others
  <2>5. \A u \in ApThreads : ap_holder = u => u \in ap_dead
    <3>1. \A u \in ApThreads : ap_holder = u /\ u \notin ap_dead => In(u)
      BY Zenon DEF ApInv, ExclInv, In
    <3> QED
      BY <2>1, <3>1, Zenon
  <2>6. ~(ap_holder \in ap_dead /\ \A u \in ApThreads : ap_p[u].pc # "rec_clear")
    BY <1>0, Zenon DEF ApInv, ExclInv
  <2>7. /\ \A u, v \in ApThreads : Rec(u) /\ Rec(v) => u = v
        /\ \A u \in ApThreads : ap_p[u].pc = "rec_swap" => ap_holder \in ap_dead
    BY Zenon DEF ApInv, ExclInv
  <2> QED
    BY <1>0, <1>4, <2>2, <2>3, <2>4, <2>5, <2>6, <2>7, Zenon DEF ExclInv
<1>7. CoverInv'
  <2>1. Cover(t) => ap_state' = 2
    BY <1>0, Zenon DEF Cover
  <2>2. ap_state # 2
    BY <1>0
  <2> QED
    BY <1>0, <1>2, <2>1, <2>2, CoverStep, Zenon
<1>8. WakeInv'
  <2>1. ap_overlap \/ \A s \in ApThreads : ~Parking(s)
    BY <1>0, NobodyParks, Zenon
  <2>2. Waker(t) => Waker(t)' /\ ToBump(t)'
    BY <1>2, Zenon DEF ToBump, Waker
  <2>3. ~Parking(t)' /\ ~Parked(t)'
    BY <1>2, Zenon DEF Parking, Parked
  <2> QED
    BY <1>0, <1>1, <1>2, <2>1, <2>2, <2>3, WakeStep, Zenon DEF ToBump
<1>9. CountInv'
  BY <1>0, <1>2, CountStep, Zenon DEF Counts, Releasing
<1> QED
  BY <1>5, <1>6, <1>7, <1>8, <1>9, Zenon DEF ApInv

LEMMA CasFailsKeeps ==
  ASSUME ApSetting, ApInv, NEW t \in ApThreads, ApCasFails(t)
  PROVE  ApInv'
<1>0. /\ ap_p[t].pc = "cas" /\ t \notin ap_dead /\ UNCHANGED <<ap_mutex, ap_cond, ap_client>>
      /\ ap_p' = IF ap_p[t].m # "try" THEN [ap_p EXCEPT ![t].pc = "mark"]
                 ELSE IF ap_p[t].tried THEN ApReturn(t) ELSE [ap_p EXCEPT ![t].pc = "rec_load"]
  BY Zenon DEF ApCasFails, ApAt
<1>1. /\ Shape(ap_p[t]) /\ ap_p \in [ApThreads -> Calls] /\ ap_p[t].seq <= ap_cnd
      /\ t \notin ap_queue /\ t \notin ap_sleepers
  BY <1>0, Facts, Zenon
<1>2. {"cas", "mark", "rec_load"} \cap Busy = {}
  BY DEF Busy, HeldPcs
<1>3. CASE ap_p[t].m # "try"
  <2>1. ApGoto(t, "mark")
    BY <1>0, <1>3, Zenon DEF ApGoto
  <2>2. /\ Others(t) /\ ap_p'[t].pc = "mark" /\ ap_p'[t].k = ap_p[t].k /\ ap_p'[t].u = ap_p[t].u
        /\ ap_p'[t].m = ap_p[t].m /\ ap_p'[t].contended = ap_p[t].contended
        /\ ap_p'[t].seq = ap_p[t].seq
    BY <1>1, <2>1, Moved, Zenon DEF Labels
  <2>3. Shape(ap_p'[t])
    BY <1>0, <1>1, <1>3, <2>2 DEF Shape, Recovering, Releasing
  <2>4. (Cover(t) => Cover(t)') /\ (Waker(t) => Outside(t)' /\ ToBump(t)' /\ Waker(t)')
    BY <1>0, <2>2, Zenon DEF Cover, Outside, ToBump, Waker
  <2>5. ~Parking(t)' /\ ~Parked(t)' /\ ~Counts(ap_p'[t])
    BY <2>2, Zenon DEF Parking, Parked, Counts, Releasing
  <2> QED
    BY <1>0, <1>1, <1>2, <2>2, <2>3, <2>4, <2>5, PlainStep, Zenon DEF Outside, ToBump
<1>4. CASE ap_p[t].m = "try"
  <2>1. ~Cover(t) /\ ~Waker(t)
    BY <1>0, <1>1, <1>4, Zenon DEF Shape, Cover, Waker
  <2>2. CASE ap_p[t].tried
    BY <1>0, <1>1, <1>2, <1>4, <2>1, <2>2, ReturnStep, Zenon
  <2>3. CASE ~ap_p[t].tried
    <3>1. ApGoto(t, "rec_load")
      BY <1>0, <1>4, <2>3, Zenon DEF ApGoto
    <3>2. /\ Others(t) /\ ap_p'[t].pc = "rec_load" /\ ap_p'[t].k = ap_p[t].k /\ ap_p'[t].u = ap_p[t].u
          /\ ap_p'[t].m = ap_p[t].m /\ ap_p'[t].contended = ap_p[t].contended
          /\ ap_p'[t].seq = ap_p[t].seq
      BY <1>1, <3>1, Moved, Zenon DEF Labels
    <3>3. Shape(ap_p'[t])
      BY <1>0, <1>1, <1>4, <3>2 DEF Shape, Recovering, Releasing
    <3>4. ~Parking(t)' /\ ~Parked(t)' /\ ~Counts(ap_p'[t])
      BY <3>2, Zenon DEF Parking, Parked, Counts, Releasing
    <3> QED
      BY <1>0, <1>1, <1>2, <2>1, <3>2, <3>3, <3>4, PlainStep, Zenon DEF Outside, ToBump
  <2> QED
    BY <2>2, <2>3
<1> QED
  BY <1>3, <1>4

LEMMA HoldKeeps ==
  ASSUME ApSetting, ApInv, NEW t \in ApThreads, ApHold(t)
  PROVE  ApInv'
<1>0. /\ ap_p[t].pc = "hold" /\ t \notin ap_dead /\ ApGoto(t, ap_p[t].k) /\ ap_holder' = t
      /\ ap_state' = ap_state /\ ap_queue' = ap_queue
      /\ ap_cnd' = ap_cnd /\ ap_waiters' = ap_waiters /\ ap_sleepers' = ap_sleepers
      /\ ap_pred' = ap_pred /\ ap_dead' = ap_dead /\ ap_lapse' = ap_lapse
      /\ ap_broken' = ap_broken /\ ap_overlap' = ap_overlap
  BY Zenon DEF ApHold, ApAt, ap_cond, ap_client
<1>1. /\ Shape(ap_p[t]) /\ ap_p \in [ApThreads -> Calls] /\ ap_p[t].seq <= ap_cnd
      /\ t \notin ap_queue /\ t \notin ap_sleepers /\ ap_p[t] \in Calls
  BY <1>0, Facts, Zenon
<1>2. ap_p[t].k \in {"crit", "barrier", "pred", "timeout"}
  BY <1>0, <1>1, Zenon DEF Shape, Calls
<1>3. /\ Others(t) /\ ap_p'[t].pc = ap_p[t].k /\ ap_p'[t].k = ap_p[t].k /\ ap_p'[t].u = ap_p[t].u
      /\ ap_p'[t].m = ap_p[t].m /\ ap_p'[t].contended = ap_p[t].contended
      /\ ap_p'[t].seq = ap_p[t].seq
  BY <1>0, <1>1, <1>2, Moved, Zenon DEF Labels
<1>4. Shape(ap_p'[t])
  BY <1>0, <1>1, <1>2, <1>3 DEF Shape, Recovering, Releasing
<1>5. TypeInv'
  BY <1>0, <1>1, <1>3, <1>4, Facts, TypeStep, Zenon
<1>6. ExclInv'
  <2> SUFFICES ASSUME ~ap_overlap
               PROVE  ExclInv'
    BY <1>0, Zenon DEF ExclInv
  <2>0. In(t) /\ ap_p'[t].pc \in HeldPcs /\ ap_p'[t].pc \notin {"rec_swap", "rec_clear"}
    BY <1>0, <1>2, <1>3, Zenon DEF In, HeldPcs
  <2>1. \A u \in ApThreads : In(u) => u = t
    BY <2>0, Zenon DEF ApInv, ExclInv
  <2>2. \A u \in ApThreads : In(u)' => u = t
    BY <1>3, <2>1, Zenon DEF In, Others
  <2>3. \A u \in ApThreads : (Rec(u)' => Rec(u)) /\ (ap_p'[u].pc = "rec_swap" => ap_p[u].pc = "rec_swap")
    BY <1>3, <2>0, Zenon DEF Rec, Others
  <2>4. /\ \A u, v \in ApThreads : Rec(u) /\ Rec(v) => u = v
        /\ \A u \in ApThreads : ap_p[u].pc = "rec_swap" => ap_holder \in ap_dead
        /\ ap_holder \in ap_dead => \E u \in ApThreads : ap_p[u].pc = "rec_clear"
        /\ ap_state # 0
    BY <2>0, Zenon DEF ApInv, ExclInv
  <2>5. \A u \in ApThreads : ap_p[u].pc # "rec_swap"
    <3> SUFFICES ASSUME NEW u \in ApThreads, ap_p[u].pc = "rec_swap"
                 PROVE  FALSE
      BY Zenon
    <3>1. PICK v \in ApThreads : ap_p[v].pc = "rec_clear"
      BY <2>4, Zenon
    <3>2. u = v
      BY <2>4, <3>1, Zenon DEF Rec
    <3> QED
      BY <3>1, <3>2
  <2> QED
    BY <1>0, <2>0, <2>2, <2>3, <2>4, <2>5, Zenon DEF ExclInv
<1>7. CoverInv'
  BY <1>0, <1>3, CoverStep, Zenon DEF Cover
<1>8. WakeInv'
  <2>1. Waker(t) => Waker(t)' /\ ToBump(t)'
    BY <1>2, <1>3, Zenon DEF ToBump, Waker
  <2>2. ~Parking(t)' /\ ~Parked(t)' /\ ~Outside(t)
    BY <1>0, <1>2, <1>3, Zenon DEF Parking, Parked, Outside
  <2> QED
    BY <1>0, <1>1, <1>3, <2>1, <2>2, WakeStep, Zenon DEF ToBump
<1>9. CountInv'
  BY <1>0, <1>2, <1>3, CountStep, Zenon DEF Counts, Releasing
<1> QED
  BY <1>5, <1>6, <1>7, <1>8, <1>9, Zenon DEF ApInv

LEMMA MarkKeeps ==
  ASSUME ApSetting, ApInv, NEW t \in ApThreads, ApMark(t)
  PROVE  ApInv'
<1>0. /\ ap_p[t].pc = "mark" /\ t \notin ap_dead
      /\ ap_state' = IF ap_state = 1 THEN 2 ELSE ap_state
      /\ ApGoto(t, IF ap_state = 0 THEN "cas" ELSE "sleep")
      /\ ap_holder' = ap_holder /\ ap_queue' = ap_queue
      /\ ap_cnd' = ap_cnd /\ ap_waiters' = ap_waiters /\ ap_sleepers' = ap_sleepers
      /\ ap_pred' = ap_pred /\ ap_dead' = ap_dead /\ ap_lapse' = ap_lapse
      /\ ap_broken' = ap_broken /\ ap_overlap' = ap_overlap
  BY Zenon DEF ApMark, ApAt, ap_cond, ap_client
<1>1. /\ Shape(ap_p[t]) /\ ap_p \in [ApThreads -> Calls] /\ ap_p[t].seq <= ap_cnd
      /\ t \notin ap_queue /\ t \notin ap_sleepers /\ ap_state \in 0..2
  BY <1>0, Facts, Zenon
<1> DEFINE l == IF ap_state = 0 THEN "cas" ELSE "sleep"
<1>2. /\ Others(t) /\ ap_p'[t].pc = l /\ ap_p'[t].k = ap_p[t].k /\ ap_p'[t].u = ap_p[t].u
      /\ ap_p'[t].m = ap_p[t].m /\ ap_p'[t].contended = ap_p[t].contended
      /\ ap_p'[t].seq = ap_p[t].seq
  <2>1. l \in Labels
    BY Zenon DEF Labels
  <2> QED
    BY <1>0, <1>1, <2>1, Moved, Zenon
<1>3. l \in {"cas", "sleep"} /\ (ap_state = 0 => l = "cas")
  OBVIOUS
<1>4. ap_state' \in 0..2 /\ (ap_state' = 0 <=> ap_state = 0) /\ (ap_state # 0 => ap_state' = 2)
  BY <1>0, <1>1
<1> HIDE DEF l
<1>5. Shape(ap_p'[t])
  BY <1>0, <1>1, <1>2, <1>3 DEF Shape, Recovering, Releasing
<1>6. TypeInv'
  BY <1>0, <1>1, <1>2, <1>4, <1>5, Facts, TypeStep, Zenon
<1>7. ExclInv'
  <2>1. {"cas", "mark", "sleep"} \cap Busy = {}
    BY DEF Busy, HeldPcs
  <2> QED
    BY <1>0, <1>2, <1>3, <1>4, <2>1, ExclStep, Zenon
<1>8. CoverInv'
  <2>1. Cover(t) => ap_state' = 2 \/ Cover(t)'
    BY <1>0, <1>2, <1>3, <1>4, Zenon DEF Cover
  <2>2. ap_state = 2 => ap_state' = 2
    BY <1>4
  <2> QED
    BY <1>0, <1>2, <2>1, <2>2, CoverStep, Zenon
<1>9. WakeInv'
  <2>1. Waker(t) => Waker(t)' /\ ToBump(t)' /\ Outside(t)'
    BY <1>2, <1>3, Zenon DEF ToBump, Waker, Outside
  <2>2. ~Parking(t)' /\ ~Parked(t)'
    BY <1>2, <1>3, Zenon DEF Parking, Parked
  <2> QED
    BY <1>0, <1>1, <1>2, <2>1, <2>2, WakeStep, Zenon DEF ToBump, Outside
<1>10. CountInv'
  BY <1>0, <1>2, <1>3, CountStep, Zenon DEF Counts, Releasing
<1> QED
  BY <1>6, <1>7, <1>8, <1>9, <1>10, Zenon DEF ApInv

\* Back to the word after a sleep.
LEMMA Contends ==
  ASSUME ApSetting, ApInv, NEW t \in ApThreads, t \notin ap_dead, ap_p[t].pc \in {"sleep", "queued"},
         t \notin ap_queue, UNCHANGED <<ap_mutex, ap_cond, ap_client>>,
         ap_p' = [ap_p EXCEPT ![t].pc = "cas", ![t].contended = TRUE]
  PROVE  ApInv'
<1>1. /\ Shape(ap_p[t]) /\ ap_p \in [ApThreads -> Calls] /\ ap_p[t].seq <= ap_cnd
      /\ t \notin ap_sleepers /\ ap_p[t] \in Calls /\ ap_p[t].m # "try"
  <2>1. /\ Shape(ap_p[t]) /\ ap_p \in [ApThreads -> Calls] /\ ap_p[t].seq <= ap_cnd
        /\ t \notin ap_sleepers /\ ap_p[t] \in Calls
    BY Facts, Zenon
  <2>2. ap_p[t].m # "try"
    BY Facts, Zenon DEF Shape
  <2> QED
    BY <2>1, <2>2
<1> DEFINE e == [ap_p[t] EXCEPT !.pc = "cas", !.contended = TRUE]
<1>2. /\ e \in Calls /\ e.pc = "cas" /\ e.k = ap_p[t].k /\ e.u = ap_p[t].u /\ e.m = ap_p[t].m
      /\ e.contended = TRUE /\ e.seq = ap_p[t].seq
  BY <1>1, Zenon DEF Calls, Labels
<1>3. ap_p' = [ap_p EXCEPT ![t] = e]
  BY Zenon
<1> HIDE DEF e
<1>4. Others(t) /\ ap_p'[t] = e
  BY <1>1, <1>2, <1>3, Updated, Zenon
<1>5. Shape(ap_p'[t])
  BY <1>1, <1>2, <1>4 DEF Shape, Recovering, Releasing
<1>6. {"cas", "sleep", "queued"} \cap Busy = {}
  BY DEF Busy, HeldPcs
<1>7. Cover(t)' /\ (Waker(t) => Outside(t)' /\ ToBump(t)' /\ Waker(t)')
  BY <1>2, <1>4, Zenon DEF Cover, Outside, ToBump, Waker
<1>8. ~Parking(t)' /\ ~Parked(t)' /\ ~Counts(ap_p'[t])
  BY <1>2, <1>4, Zenon DEF Parking, Parked, Counts, Releasing
<1> QED
  BY <1>1, <1>2, <1>4, <1>5, <1>6, <1>7, <1>8, PlainStep, Zenon DEF Outside, ToBump

LEMMA AwakeKeeps ==
  ASSUME ApSetting, ApInv, NEW t \in ApThreads, ApAwake(t)
  PROVE  ApInv'
BY Contends, Zenon DEF ApAwake, ApAt

LEMMA SleepKeeps ==
  ASSUME ApSetting, ApInv, NEW t \in ApThreads, ApSleep(t)
  PROVE  ApInv'
<1>0. /\ ap_p[t].pc = "sleep" /\ t \notin ap_dead
      /\ ap_state' = ap_state /\ ap_holder' = ap_holder
      /\ ap_cnd' = ap_cnd /\ ap_waiters' = ap_waiters /\ ap_sleepers' = ap_sleepers
      /\ ap_pred' = ap_pred /\ ap_dead' = ap_dead /\ ap_lapse' = ap_lapse
      /\ ap_broken' = ap_broken /\ ap_overlap' = ap_overlap
  BY Zenon DEF ApSleep, ApAt, ap_cond, ap_client
<1>1. /\ Shape(ap_p[t]) /\ ap_p \in [ApThreads -> Calls] /\ ap_p[t].seq <= ap_cnd
      /\ t \notin ap_queue /\ t \notin ap_sleepers
  BY <1>0, Facts, Zenon
<1>2. CASE ap_state # 2
  <2>1. ap_p' = [ap_p EXCEPT ![t].pc = "cas", ![t].contended = TRUE] /\ ap_queue' = ap_queue
    BY <1>2, Zenon DEF ApSleep
  <2>2. UNCHANGED <<ap_mutex, ap_cond, ap_client>>
    BY <1>0, <2>1, Zenon DEF ap_mutex, ap_cond, ap_client
  <2> QED
    BY <1>0, <1>1, <2>1, <2>2, Contends, Zenon
<1>3. CASE ap_state = 2
  <2>1. ap_queue' = ap_queue \cup {t} /\ ApGoto(t, "queued")
    BY <1>3, Zenon DEF ApSleep
  <2>2. /\ Others(t) /\ ap_p'[t].pc = "queued" /\ ap_p'[t].k = ap_p[t].k /\ ap_p'[t].u = ap_p[t].u
        /\ ap_p'[t].m = ap_p[t].m /\ ap_p'[t].contended = ap_p[t].contended
        /\ ap_p'[t].seq = ap_p[t].seq
    BY <1>1, <2>1, Moved, Zenon DEF Labels
  <2>3. Shape(ap_p'[t])
    BY <1>0, <1>1, <2>2 DEF Shape, Recovering, Releasing
  <2>4. TypeInv'
    BY <1>0, <1>1, <2>1, <2>2, <2>3, Facts, TypeStep, Zenon
  <2>5. ExclInv'
    <3>1. {"sleep", "queued"} \cap Busy = {}
      BY DEF Busy, HeldPcs
    <3> QED
      BY <1>0, <2>2, <3>1, ExclStep, Zenon
  <2>6. CoverInv'
    BY <1>0, <1>3, Zenon DEF CoverInv
  <2>7. WakeInv'
    <3>1. Waker(t) => Waker(t)' /\ ToBump(t)' /\ Outside(t)'
      BY <2>2, Zenon DEF ToBump, Waker, Outside
    <3>2. ~Parking(t)' /\ ~Parked(t)'
      BY <2>2, Zenon DEF Parking, Parked
    <3> QED
      BY <1>0, <1>1, <2>2, <3>1, <3>2, WakeStep, Zenon DEF ToBump, Outside
  <2>8. CountInv'
    BY <1>0, <2>2, CountStep, Zenon DEF Counts, Releasing
  <2> QED
    BY <2>4, <2>5, <2>6, <2>7, <2>8, Zenon DEF ApInv
<1> QED
  BY <1>2, <1>3

LEMMA DeadlineKeeps ==
  ASSUME ApSetting, ApInv, NEW t \in ApThreads, ApDeadline(t)
  PROVE  ApInv'
<1>0. /\ ap_p[t].pc \in {"sleep", "queued"} /\ ap_p[t].m = "timed" /\ t \notin ap_dead
      /\ ap_p[t].pc = "queued" => t \in ap_queue
      /\ ap_queue' = ap_queue \ {t}
      /\ ap_state' = ap_state /\ ap_holder' = ap_holder
      /\ ap_cnd' = ap_cnd /\ ap_waiters' = ap_waiters /\ ap_sleepers' = ap_sleepers
      /\ ap_pred' = ap_pred /\ ap_dead' = ap_dead /\ ap_lapse' = ap_lapse
      /\ ap_broken' = ap_broken /\ ap_overlap' = ap_overlap
  BY Zenon DEF ApDeadline, ap_cond, ap_client
<1>1. /\ Shape(ap_p[t]) /\ ap_p \in [ApThreads -> Calls] /\ ap_p[t].seq <= ap_cnd
      /\ t \notin ap_sleepers /\ ap_p[t] \in Calls
  BY <1>0, Facts, Zenon
<1>2. ap_p[t].k = "crit"
  BY <1>0, <1>1, Zenon DEF Shape
<1>3. /\ Others(t) /\ ap_p'[t].pc \in {"idle", "rec_load"}
      /\ ap_p'[t].k = IF ap_p'[t].pc = "idle" THEN "idle" ELSE "crit"
      /\ ap_p'[t].m = IF ap_p'[t].pc = "idle" THEN "lock" ELSE "timed"
      /\ ap_p'[t].seq <= ap_cnd
  <2>1. CASE ap_p[t].tried
    <3>1. ap_p' = ApReturn(t)
      BY <2>1, Zenon DEF ApDeadline
    <3>2. 0 <= ap_cnd
      BY Facts
    <3> QED
      BY <1>1, <3>1, <3>2, Returned, Zenon
  <2>2. CASE ~ap_p[t].tried
    <3> DEFINE c == ap_p[t].contended \/ ap_p[t].pc = "queued"
               e == [ap_p[t] EXCEPT !.pc = "rec_load", !.contended = c]
    <3>1. c \in BOOLEAN /\ "rec_load" \in Labels
      BY DEF Labels
    <3>2. ap_p' = [ap_p EXCEPT ![t] = e]
      BY <2>2, Zenon DEF ApDeadline
    <3> HIDE DEF c
    <3>3. /\ e \in Calls /\ e.pc = "rec_load" /\ e.k = ap_p[t].k /\ e.m = ap_p[t].m
          /\ e.seq = ap_p[t].seq
      BY <1>1, <3>1, Zenon DEF Calls
    <3> HIDE DEF e
    <3>4. Others(t) /\ ap_p'[t] = e
      BY <1>1, <3>2, <3>3, Updated, Zenon
    <3> QED
      BY <1>0, <1>1, <1>2, <3>3, <3>4, Zenon
  <2> QED
    BY <2>1, <2>2
<1>4. Shape(ap_p'[t])
  BY <1>3 DEF Shape, Recovering, Releasing
<1>5. TypeInv'
  BY <1>0, <1>1, <1>3, <1>4, Facts, TypeStep, Zenon
<1>6. ExclInv'
  <2>1. {"sleep", "queued", "idle", "rec_load"} \cap Busy = {}
    BY DEF Busy, HeldPcs
  <2> QED
    BY <1>0, <1>3, <2>1, ExclStep, Zenon
<1>7. CoverInv'
  <2>1. ~Cover(t)
    BY <1>0, Zenon DEF Cover
  <2> QED
    BY <1>0, <1>3, <2>1, CoverStep, Zenon
<1>8. WakeInv'
  <2>1. ~Waker(t) /\ ~Parking(t)' /\ ~Parked(t)'
    BY <1>2, <1>3, Zenon DEF Waker, Parking, Parked
  <2> QED
    BY <1>0, <1>1, <1>3, <2>1, WakeStep, Zenon DEF ToBump, Outside
<1>9. CountInv'
  BY <1>0, <1>3, CountStep, Zenon DEF Counts, Releasing
<1> QED
  BY <1>5, <1>6, <1>7, <1>8, <1>9, Zenon DEF ApInv

LEMMA RecLoadKeeps ==
  ASSUME ApSetting, ApInv, NEW t \in ApThreads, ApRecLoad(t)
  PROVE  ApInv'
<1>0. /\ ap_p[t].pc = "rec_load" /\ t \notin ap_dead /\ UNCHANGED <<ap_mutex, ap_cond, ap_client>>
      /\ ap_p' = IF ap_holder = 0 THEN ApReturn(t)
                 ELSE [ap_p EXCEPT ![t].pc = "rec_check", ![t].h = ap_holder]
  BY Zenon DEF ApRecLoad, ApAt
<1>1. /\ Shape(ap_p[t]) /\ ap_p \in [ApThreads -> Calls] /\ ap_p[t].seq <= ap_cnd
      /\ t \notin ap_queue /\ t \notin ap_sleepers /\ ap_p[t] \in Calls
      /\ ap_holder \in ApThreads \cup {0}
  BY <1>0, Facts, Zenon
<1>2. ap_p[t].k = "crit" /\ ~Cover(t) /\ ~Waker(t)
  BY <1>0, <1>1, Zenon DEF Shape, Recovering, Cover, Waker
<1>3. {"rec_load", "rec_check"} \cap Busy = {}
  BY DEF Busy, HeldPcs
<1>4. CASE ap_holder = 0
  BY <1>0, <1>1, <1>2, <1>3, <1>4, ReturnStep, Zenon
<1>5. CASE ap_holder # 0
  <2> DEFINE e == [ap_p[t] EXCEPT !.pc = "rec_check", !.h = ap_holder]
  <2>1. /\ e \in Calls /\ e.pc = "rec_check" /\ e.k = ap_p[t].k /\ e.m = ap_p[t].m
        /\ e.contended = ap_p[t].contended /\ e.seq = ap_p[t].seq
    BY <1>1, Zenon DEF Calls, Labels
  <2>2. ap_p' = [ap_p EXCEPT ![t] = e]
    BY <1>0, <1>5, Zenon
  <2> HIDE DEF e
  <2>3. Others(t) /\ ap_p'[t] = e
    BY <1>1, <2>1, <2>2, Updated, Zenon
  <2>4. Shape(ap_p'[t])
    BY <1>1, <1>2, <2>1, <2>3 DEF Shape, Recovering, Releasing
  <2>5. ~Parking(t)' /\ ~Parked(t)' /\ ~Counts(ap_p'[t])
    BY <2>1, <2>3, Zenon DEF Parking, Parked, Counts, Releasing
  <2> QED
    BY <1>0, <1>1, <1>2, <1>3, <2>1, <2>3, <2>4, <2>5, PlainStep, Zenon DEF Outside, ToBump
<1> QED
  BY <1>4, <1>5

\* The recovering thread goes on; it is no waiter and no waker.
LEMMA RecoverStep ==
  ASSUME ApSetting, ApInv, NEW t \in ApThreads, t \notin ap_dead, Others(t),
         ap_p[t].pc \in Recovering, ap_p'[t].pc \in Recovering \cup {"cas"},
         ap_p'[t].k = "crit", ap_p'[t].m = ap_p[t].m, ap_p'[t].seq = ap_p[t].seq,
         ap_p'[t].contended = ap_p[t].contended,
         ap_state' \in 0..2, ap_holder' \in ApThreads \cup {0}, ap_queue' \subseteq ap_queue,
         UNCHANGED ap_cond, ap_pred' = ap_pred, ap_dead' = ap_dead, ap_lapse' = ap_lapse,
         ap_overlap' \in BOOLEAN, ap_overlap => ap_overlap'
  PROVE  TypeInv' /\ WakeInv' /\ CountInv'
<1>0. ap_cnd' = ap_cnd /\ ap_waiters' = ap_waiters /\ ap_sleepers' = ap_sleepers
  BY Zenon DEF ap_cond
<1>1. /\ Shape(ap_p[t]) /\ ap_p[t].seq <= ap_cnd /\ t \notin ap_queue /\ t \notin ap_sleepers
  BY Facts, Zenon DEF Recovering
<1>2. ap_p[t].k = "crit"
  BY <1>1, Zenon DEF Shape
<1>3. Shape(ap_p'[t])
  BY <1>1 DEF Shape, Recovering, Releasing
<1>4. TypeInv'
  BY <1>0, <1>1, <1>3, Facts, TypeStep, Zenon
<1>5. ~Waker(t) /\ ~Parking(t)' /\ ~Parked(t)' /\ ~Counts(ap_p'[t])
  BY <1>2, Zenon DEF Waker, Parking, Parked, Counts, Recovering, Releasing
<1>6. WakeInv'
  BY <1>0, <1>1, <1>5, WakeStep, Zenon DEF ToBump, Outside
<1>7. CountInv'
  BY <1>0, <1>5, CountStep, Zenon
<1> QED
  BY <1>4, <1>6, <1>7

LEMMA RecCheckKeeps ==
  ASSUME ApSetting, ApInv, NEW t \in ApThreads, ApRecCheck(t)
  PROVE  ApInv'
<1>0. /\ ap_p[t].pc = "rec_check" /\ t \notin ap_dead
      /\ ap_state' = ap_state /\ ap_holder' = ap_holder /\ ap_queue' = ap_queue
      /\ ap_cnd' = ap_cnd /\ ap_waiters' = ap_waiters /\ ap_sleepers' = ap_sleepers
      /\ ap_pred' = ap_pred /\ ap_dead' = ap_dead /\ ap_lapse' = ap_lapse
      /\ ap_broken' = ap_broken
  BY Zenon DEF ApRecCheck, ApAt, ap_mutex, ap_cond
<1>1. /\ Shape(ap_p[t]) /\ ap_p \in [ApThreads -> Calls] /\ ap_p[t].seq <= ap_cnd
      /\ t \notin ap_queue /\ t \notin ap_sleepers /\ ap_p[t] \in Calls
  BY <1>0, Facts, Zenon
<1>2. ap_p[t].k = "crit" /\ ~Cover(t) /\ ~Waker(t) /\ ap_p[t].pc \notin Busy
  BY <1>0, <1>1, Zenon DEF Shape, Recovering, Cover, Waker, Busy, HeldPcs
<1>3. CASE ap_p[t].h \notin ap_dead
  <2>1. ap_p' = ApReturn(t) /\ ap_overlap' = ap_overlap
    BY <1>3, Facts, Zenon DEF ApRecCheck
  <2>2. UNCHANGED <<ap_mutex, ap_cond, ap_client>>
    BY <1>0, <2>1, Zenon DEF ap_mutex, ap_cond, ap_client
  <2> QED
    BY <1>0, <1>1, <1>2, <2>1, <2>2, ReturnStep, Zenon
<1>4. CASE ap_p[t].h \in ap_dead
  <2> DEFINE e == [ap_p[t] EXCEPT !.pc = "rec_swap", !.tried = TRUE]
  <2>1. /\ e \in Calls /\ e.pc = "rec_swap" /\ e.k = ap_p[t].k /\ e.m = ap_p[t].m
        /\ e.contended = ap_p[t].contended /\ e.seq = ap_p[t].seq
    BY <1>1, Zenon DEF Calls, Labels
  <2>2. ap_p' = [ap_p EXCEPT ![t] = e]
    BY <1>4, Zenon DEF ApRecCheck
  <2> HIDE DEF e
  <2>3. Others(t) /\ ap_p'[t] = e
    BY <1>1, <2>1, <2>2, Updated, Zenon
  <2>4. /\ ap_overlap' \in BOOLEAN /\ (ap_overlap => ap_overlap')
        /\ ~ap_overlap' => ap_holder = ap_p[t].h /\ \A u \in ApThreads : ~Rec(u)
    BY <1>4, Zenon DEF ApRecCheck, Rec
  <2>5. TypeInv' /\ WakeInv' /\ CountInv'
    <3>1. "rec_check" \in Recovering /\ "rec_swap" \in Recovering
      BY DEF Recovering
    <3>2. UNCHANGED ap_cond
      BY <1>0, Zenon DEF ap_cond
    <3> QED
      BY <1>0, <1>2, <2>1, <2>3, <2>4, <3>1, <3>2, Facts, RecoverStep, Zenon
  <2>6. ExclInv'
    <3> SUFFICES ASSUME ~ap_overlap'
                 PROVE  ExclInv'
      BY Zenon DEF ExclInv
    <3>1. ExclInv /\ ~ap_overlap /\ ap_holder \in ap_dead /\ \A u \in ApThreads : ~Rec(u)
      BY <1>4, <2>4, Zenon DEF ApInv
    <3>2. \A u \in ApThreads : (Rec(u)' => u = t) /\ (ap_p'[u].pc = "rec_swap" => u = t)
      BY <2>3, <3>1, Zenon DEF Rec, Others
    <3>3. \A u \in ApThreads : In(u)' <=> In(u)
      <4>1. "rec_swap" \notin HeldPcs \cup {"hold", "swap"} /\ "rec_check" \notin HeldPcs \cup {"hold", "swap"}
        BY DEF HeldPcs
      <4> QED
        BY <1>0, <2>1, <2>3, <4>1, Zenon DEF In, Others
    <3>4. \A u \in ApThreads : ap_p[u].pc # "rec_clear"
      BY <3>1, Zenon DEF Rec
    <3>5. \A u \in ApThreads : ap_holder # u \/ u \in ap_dead
      BY <3>1, Zenon
    <3> QED
      BY <1>0, <3>1, <3>2, <3>3, <3>4, <3>5, Zenon DEF ExclInv
  <2>7. CoverInv'
    BY <1>0, <1>2, <2>3, CoverStep, Zenon
  <2> QED
    BY <2>5, <2>6, <2>7, Zenon DEF ApInv
<1> QED
  BY <1>3, <1>4

LEMMA RecSwapKeeps ==
  ASSUME ApSetting, ApInv, NEW t \in ApThreads, ApRecSwap(t)
  PROVE  ApInv'
<1>0. /\ ap_p[t].pc = "rec_swap" /\ t \notin ap_dead
      /\ ap_p' = [ap_p EXCEPT ![t].pc = "rec_clear", ![t].old = ap_state]
      /\ ap_state' = 0 /\ ap_holder' = ap_holder /\ ap_queue' = ap_queue /\ UNCHANGED ap_cond
      /\ ap_pred' = ap_pred /\ ap_dead' = ap_dead /\ ap_lapse' = ap_lapse
      /\ ap_broken' = ap_broken /\ ap_overlap' = ap_overlap
  BY Zenon DEF ApRecSwap, ApAt, ap_client
<1>1. /\ Shape(ap_p[t]) /\ ap_p \in [ApThreads -> Calls] /\ ap_p[t] \in Calls
      /\ ap_state \in 0..2 /\ ap_holder \in ApThreads \cup {0} /\ t \notin ap_queue
      /\ ap_overlap \in BOOLEAN
  BY <1>0, Facts, Zenon
<1> DEFINE e == [ap_p[t] EXCEPT !.pc = "rec_clear", !.old = ap_state]
<1>2. /\ e \in Calls /\ e.pc = "rec_clear" /\ e.k = ap_p[t].k /\ e.m = ap_p[t].m
      /\ e.contended = ap_p[t].contended /\ e.seq = ap_p[t].seq /\ e.old = ap_state
  BY <1>1, Zenon DEF Calls, Labels
<1>3. ap_p' = [ap_p EXCEPT ![t] = e]
  BY <1>0, Zenon
<1> HIDE DEF e
<1>4. Others(t) /\ ap_p'[t] = e
  BY <1>1, <1>2, <1>3, Updated, Zenon
<1>5. TypeInv' /\ WakeInv' /\ CountInv'
  <2>1. "rec_clear" \in Recovering /\ "rec_swap" \in Recovering /\ ap_state' \in 0..2
    BY <1>0 DEF Recovering
  <2>2. ap_p[t].k = "crit"
    BY <1>0, <1>1, <2>1, Zenon DEF Shape
  <2> QED
    BY <1>0, <1>1, <1>2, <1>4, <2>1, <2>2, RecoverStep, Zenon
<1>6. ExclInv'
  <2> SUFFICES ASSUME ~ap_overlap
               PROVE  ExclInv'
    BY <1>0, Zenon DEF ExclInv
  <2>1. /\ \A u \in ApThreads : Rec(u) => u = t
        /\ ap_holder \in ap_dead
    BY <1>0, Zenon DEF ApInv, ExclInv, Rec
  <2>2. \A u \in ApThreads : ap_p[u].pc # "rec_clear"
    BY <1>0, <2>1, Zenon DEF Rec
  <2>3. \A u \in ApThreads : ~In(u)
    BY <2>1, <2>2, Zenon DEF ApInv, ExclInv
  <2>4. \A u \in ApThreads : (Rec(u)' => u = t) /\ ap_p'[u].pc # "rec_swap"
    BY <1>2, <1>4, <2>1, Zenon DEF Rec, Others
  <2>5. \A u \in ApThreads : ~In(u)'
    <3>1. "rec_clear" \notin HeldPcs \cup {"hold", "swap"}
      BY DEF HeldPcs
    <3> QED
      BY <1>2, <1>4, <2>3, <3>1, Zenon DEF In, Others
  <2>6. ap_p'[t].pc = "rec_clear"
    BY <1>2, <1>4
  <2> QED
    BY <1>0, <2>1, <2>4, <2>5, <2>6, Zenon DEF ExclInv
<1>7. CoverInv'
  <2>1. ~Cover(t)
    BY <1>0, Zenon DEF Cover
  <2>2. ap_state = 2 => Cover(t)'
    BY <1>2, <1>4, Zenon DEF Cover
  <2> QED
    BY <1>0, <1>4, <2>1, <2>2, CoverStep, Zenon
<1> QED
  BY <1>5, <1>6, <1>7, Zenon DEF ApInv

LEMMA RecClearKeeps ==
  ASSUME ApSetting, ApInv, NEW t \in ApThreads, ApRecClear(t)
  PROVE  ApInv'
<1>0. /\ ap_p[t].pc = "rec_clear" /\ t \notin ap_dead /\ ApGoto(t, "rec_wake")
      /\ ap_holder' = 0 /\ ap_state' = ap_state /\ ap_queue' = ap_queue /\ UNCHANGED ap_cond
      /\ ap_pred' = ap_pred /\ ap_dead' = ap_dead /\ ap_lapse' = ap_lapse
      /\ ap_broken' = ap_broken /\ ap_overlap' = ap_overlap
  BY Zenon DEF ApRecClear, ApAt, ap_client
<1>1. /\ Shape(ap_p[t]) /\ ap_p \in [ApThreads -> Calls] /\ ap_state \in 0..2 /\ t \notin ap_queue
      /\ ap_dead \subseteq ApThreads
  BY <1>0, Facts, Zenon
<1>2. /\ Others(t) /\ ap_p'[t].pc = "rec_wake" /\ ap_p'[t].k = ap_p[t].k
      /\ ap_p'[t].m = ap_p[t].m /\ ap_p'[t].contended = ap_p[t].contended
      /\ ap_p'[t].seq = ap_p[t].seq /\ ap_p'[t].old = ap_p[t].old
  BY <1>0, <1>1, Moved, Zenon DEF Labels
<1>3. TypeInv' /\ WakeInv' /\ CountInv'
  <2>1. "rec_clear" \in Recovering /\ "rec_wake" \in Recovering
    BY DEF Recovering
  <2>2. ap_p[t].k = "crit"
    BY <1>0, <1>1, <2>1, Zenon DEF Shape
  <2> QED
    BY <1>0, <1>1, <1>2, <2>1, <2>2, Facts, RecoverStep, Zenon
<1>4. ExclInv'
  <2> SUFFICES ASSUME ~ap_overlap
               PROVE  ExclInv'
    BY <1>0, Zenon DEF ExclInv
  <2>1. ExclInv /\ \A u \in ApThreads : Rec(u) => u = t
    BY <1>0, Zenon DEF ApInv, ExclInv, Rec
  <2>2. \A u \in ApThreads : ~Rec(u)' /\ ap_p'[u].pc # "rec_swap"
    BY <1>2, <2>1, Zenon DEF Rec, Others
  <2>3. \A u \in ApThreads : In(u)' <=> In(u)
    <3>1. "rec_wake" \notin HeldPcs \cup {"hold", "swap"} /\ "rec_clear" \notin HeldPcs \cup {"hold", "swap"}
      BY DEF HeldPcs
    <3> QED
      BY <1>0, <1>2, <3>1, Zenon DEF In, Others
  <2>4. 0 \notin ApThreads /\ 0 \notin ap_dead
    BY <1>1, Zenon DEF ApSetting
  <2> QED
    BY <1>0, <2>1, <2>2, <2>3, <2>4, Zenon DEF ExclInv
<1>5. CoverInv'
  <2>1. Cover(t) => Cover(t)'
    BY <1>0, <1>2, Zenon DEF Cover
  <2> QED
    BY <1>0, <1>2, <2>1, CoverStep, Zenon
<1> QED
  BY <1>3, <1>4, <1>5, Zenon DEF ApInv

LEMMA RecWakeKeeps ==
  ASSUME ApSetting, ApInv, NEW t \in ApThreads, ApRecWake(t)
  PROVE  ApInv'
<1>0. /\ ap_p[t].pc = "rec_wake" /\ t \notin ap_dead /\ ApGoto(t, "cas")
      /\ ap_queue' = IF ap_p[t].old = 2 THEN {} ELSE ap_queue
      /\ ap_holder' = ap_holder /\ ap_state' = ap_state /\ UNCHANGED ap_cond
      /\ ap_pred' = ap_pred /\ ap_dead' = ap_dead /\ ap_lapse' = ap_lapse
      /\ ap_broken' = ap_broken /\ ap_overlap' = ap_overlap
  BY Zenon DEF ApRecWake, ApAt, ap_client
<1>1. /\ Shape(ap_p[t]) /\ ap_p \in [ApThreads -> Calls] /\ ap_queue' \subseteq ap_queue
  BY <1>0, Facts, Zenon
<1>2. /\ Others(t) /\ ap_p'[t].pc = "cas" /\ ap_p'[t].k = ap_p[t].k
      /\ ap_p'[t].m = ap_p[t].m /\ ap_p'[t].contended = ap_p[t].contended
      /\ ap_p'[t].seq = ap_p[t].seq
  BY <1>0, <1>1, Moved, Zenon DEF Labels
<1>3. TypeInv' /\ WakeInv' /\ CountInv'
  <2>1. "rec_wake" \in Recovering
    BY DEF Recovering
  <2>2. ap_p[t].k = "crit"
    BY <1>0, <1>1, <2>1, Zenon DEF Shape
  <2> QED
    BY <1>0, <1>1, <1>2, <2>1, <2>2, Facts, RecoverStep, Zenon
<1>4. ExclInv'
  <2>1. {"rec_wake", "cas"} \cap Busy = {}
    BY DEF Busy, HeldPcs
  <2> QED
    BY <1>0, <1>2, <2>1, ExclStep, Zenon
<1>5. CoverInv'
  <2>1. Cover(t) => ap_queue' = {}
    BY <1>0, Zenon DEF Cover
  <2> QED
    BY <1>0, <1>1, <1>2, <2>1, CoverStep, Zenon
<1> QED
  BY <1>3, <1>4, <1>5, Zenon DEF ApInv

-----------------------------------------------------------------------------
(* Unlocking.                                                              *)

LEMMA UnlockKeeps ==
  ASSUME ApSetting, ApInv, NEW t \in ApThreads, ApUnlock(t)
  PROVE  ApInv'
<1>0. /\ ap_p[t].pc = "unlock" /\ t \notin ap_dead /\ ApGoto(t, "swap")
      /\ ap_holder' = 0 /\ ap_state' = ap_state /\ ap_queue' = ap_queue
      /\ ap_cnd' = ap_cnd /\ ap_waiters' = ap_waiters /\ ap_sleepers' = ap_sleepers
      /\ ap_pred' = ap_pred /\ ap_dead' = ap_dead /\ ap_lapse' = ap_lapse
      /\ ap_broken' = ap_broken /\ ap_overlap' = ap_overlap
  BY Zenon DEF ApUnlock, ApAt, ap_cond, ap_client
<1>1. /\ Shape(ap_p[t]) /\ ap_p \in [ApThreads -> Calls] /\ ap_p[t].seq <= ap_cnd
      /\ t \notin ap_queue /\ t \notin ap_sleepers /\ ap_dead \subseteq ApThreads
  BY <1>0, Facts, Zenon
<1>2. /\ Others(t) /\ ap_p'[t].pc = "swap" /\ ap_p'[t].k = ap_p[t].k /\ ap_p'[t].u = ap_p[t].u
      /\ ap_p'[t].m = ap_p[t].m /\ ap_p'[t].contended = ap_p[t].contended
      /\ ap_p'[t].seq = ap_p[t].seq
  BY <1>0, <1>1, Moved, Zenon DEF Labels
<1>3. Shape(ap_p'[t])
  BY <1>0, <1>1, <1>2 DEF Shape, Recovering, Releasing
<1>4. TypeInv'
  BY <1>0, <1>1, <1>2, <1>3, Facts, TypeStep, Zenon
<1>5. ExclInv'
  <2> SUFFICES ASSUME ~ap_overlap
               PROVE  ExclInv'
    BY <1>0, Zenon DEF ExclInv
  <2>0. In(t) /\ ap_p[t].pc # "rec_clear" /\ ap_p[t].pc # "rec_swap"
    BY <1>0, Zenon DEF In, HeldPcs
  <2>1. \A u \in ApThreads : In(u) => u = t
    BY <2>0, Zenon DEF ApInv, ExclInv
  <2>2. \A u \in ApThreads : In(u)' => u = t
    BY <1>2, <2>1, Zenon DEF In, Others
  <2>3. \A u \in ApThreads : (Rec(u)' => Rec(u)) /\ (ap_p'[u].pc = "rec_swap" => ap_p[u].pc = "rec_swap")
    BY <1>2, Zenon DEF Rec, Others
  <2>4. /\ \A u, v \in ApThreads : Rec(u) /\ Rec(v) => u = v
        /\ \A u \in ApThreads : ap_p[u].pc = "rec_swap" => ap_holder \in ap_dead
        /\ ap_holder \in ap_dead => \E u \in ApThreads : ap_p[u].pc = "rec_clear"
        /\ ap_state # 0
    BY <2>0, Zenon DEF ApInv, ExclInv
  <2>5. \A u \in ApThreads : ap_p[u].pc # "rec_swap"
    <3> SUFFICES ASSUME NEW u \in ApThreads, ap_p[u].pc = "rec_swap"
                 PROVE  FALSE
      BY Zenon
    <3>1. PICK v \in ApThreads : ap_p[v].pc = "rec_clear"
      BY <2>4, Zenon
    <3>2. u = v
      BY <2>4, <3>1, Zenon DEF Rec
    <3> QED
      BY <3>1, <3>2
  <2>6. 0 \notin ApThreads /\ 0 \notin ap_dead
    BY <1>1, Zenon DEF ApSetting
  <2> QED
    BY <1>0, <2>2, <2>3, <2>4, <2>5, <2>6, Zenon DEF ExclInv
<1>6. CoverInv'
  BY <1>0, <1>2, CoverStep, Zenon DEF Cover
<1>7. WakeInv'
  <2>1. Waker(t) => Waker(t)' /\ ToBump(t)'
    BY <1>2, Zenon DEF ToBump, Waker
  <2>2. (Parking(t)' => Parking(t)) /\ ~Parked(t)' /\ ~Outside(t)
    BY <1>0, <1>2, Zenon DEF Parking, Parked, Outside
  <2> QED
    BY <1>0, <1>1, <1>2, <2>1, <2>2, WakeStep, Zenon DEF ToBump
<1>8. CountInv'
  BY <1>0, <1>2, CountStep, Zenon DEF Counts, Releasing
<1> QED
  BY <1>4, <1>5, <1>6, <1>7, <1>8, Zenon DEF ApInv

LEMMA SwapKeeps ==
  ASSUME ApSetting, ApInv, NEW t \in ApThreads, ApSwap(t)
  PROVE  ApInv'
<1>0. /\ ap_p[t].pc = "swap" /\ t \notin ap_dead
      /\ ap_p' = [ap_p EXCEPT ![t].pc = "ulock_wake", ![t].old = ap_state]
      /\ ap_state' = 0 /\ ap_holder' = ap_holder /\ ap_queue' = ap_queue
      /\ ap_cnd' = ap_cnd /\ ap_waiters' = ap_waiters /\ ap_sleepers' = ap_sleepers
      /\ ap_pred' = ap_pred /\ ap_dead' = ap_dead /\ ap_lapse' = ap_lapse
      /\ ap_broken' = ap_broken /\ ap_overlap' = ap_overlap
  BY Zenon DEF ApSwap, ApAt, ap_cond, ap_client
<1>1. /\ Shape(ap_p[t]) /\ ap_p \in [ApThreads -> Calls] /\ ap_p[t].seq <= ap_cnd
      /\ t \notin ap_queue /\ t \notin ap_sleepers /\ ap_p[t] \in Calls /\ ap_state \in 0..2
  BY <1>0, Facts, Zenon
<1> DEFINE e == [ap_p[t] EXCEPT !.pc = "ulock_wake", !.old = ap_state]
<1>2. /\ e \in Calls /\ e.pc = "ulock_wake" /\ e.k = ap_p[t].k /\ e.u = ap_p[t].u /\ e.m = ap_p[t].m
      /\ e.contended = ap_p[t].contended /\ e.seq = ap_p[t].seq /\ e.old = ap_state
  BY <1>1, Zenon DEF Calls, Labels
<1>3. ap_p' = [ap_p EXCEPT ![t] = e]
  BY <1>0, Zenon
<1> HIDE DEF e
<1>4. Others(t) /\ ap_p'[t] = e
  BY <1>1, <1>2, <1>3, Updated, Zenon
<1>5. Shape(ap_p'[t]) /\ ap_state' \in 0..2
  <2>1. Shape(ap_p'[t])
    BY <1>0, <1>1, <1>2, <1>4 DEF Shape, Recovering, Releasing
  <2> QED
    BY <1>0, <2>1
<1>6. TypeInv'
  BY <1>0, <1>1, <1>2, <1>4, <1>5, Facts, TypeStep, Zenon
<1>7. ExclInv'
  <2> SUFFICES ASSUME ~ap_overlap
               PROVE  ExclInv'
    BY <1>0, Zenon DEF ExclInv
  <2>0. In(t) /\ "ulock_wake" \notin HeldPcs \cup {"hold", "swap"}
    BY <1>0, Zenon DEF In, HeldPcs
  <2>1. \A u \in ApThreads : In(u) => u = t
    BY <2>0, Zenon DEF ApInv, ExclInv
  <2>2. \A u \in ApThreads : ~In(u)'
    BY <1>2, <1>4, <2>0, <2>1, Zenon DEF In, Others
  <2>3. \A u \in ApThreads : /\ Rec(u)' => Rec(u)
                             /\ ap_p'[u].pc = "rec_swap" => ap_p[u].pc = "rec_swap"
                             /\ ap_p[u].pc = "rec_clear" => ap_p'[u].pc = "rec_clear"
    BY <1>0, <1>2, <1>4, Zenon DEF Rec, Others
  <2>4. /\ \A u, v \in ApThreads : Rec(u) /\ Rec(v) => u = v
        /\ \A u \in ApThreads : ap_p[u].pc = "rec_swap" => ap_holder \in ap_dead
        /\ ap_holder \in ap_dead => \E u \in ApThreads : ap_p[u].pc = "rec_clear"
    BY <2>0, Zenon DEF ApInv, ExclInv
  <2>5. \A u \in ApThreads : ap_holder = u => u \in ap_dead
    <3>1. \A u \in ApThreads : ap_holder = u /\ u \notin ap_dead => ap_p[u].pc \in HeldPcs
      BY Zenon DEF ApInv, ExclInv
    <3>2. \A u \in ApThreads : ap_p[u].pc \in HeldPcs => u = t
      BY <2>1, Zenon DEF In
    <3>3. ap_p[t].pc \notin HeldPcs
      BY <1>0, Zenon DEF HeldPcs
    <3> QED
      BY <3>1, <3>2, <3>3, Zenon
  <2> QED
    BY <1>0, <2>2, <2>3, <2>4, <2>5, Zenon DEF ExclInv
<1>8. CoverInv'
  <2>1. ~Cover(t)
    BY <1>0, Zenon DEF Cover
  <2>2. ap_state = 2 => Cover(t)'
    BY <1>2, <1>4, Zenon DEF Cover
  <2> QED
    BY <1>0, <1>4, <2>1, <2>2, CoverStep, Zenon
<1>9. WakeInv'
  <2>1. Waker(t) => Waker(t)' /\ ToBump(t)'
    BY <1>2, <1>4, Zenon DEF ToBump, Waker
  <2>2. ~Parking(t)' /\ (Parked(t)' => Parking(t)) /\ ~Outside(t)
    BY <1>0, <1>2, <1>4, Zenon DEF Parking, Parked, Outside
  <2> QED
    BY <1>0, <1>1, <1>4, <2>1, <2>2, WakeStep, Zenon DEF ToBump
<1>10. CountInv'
  BY <1>0, <1>2, <1>4, CountStep, Zenon DEF Counts, Releasing
<1> QED
  BY <1>6, <1>7, <1>8, <1>9, <1>10, Zenon DEF ApInv

LEMMA UlockWakeKeeps ==
  ASSUME ApSetting, ApInv, NEW t \in ApThreads, ApUlockWake(t)
  PROVE  ApInv'
<1>0. /\ ap_p[t].pc = "ulock_wake" /\ t \notin ap_dead
      /\ ap_p' = IF ap_p[t].u = "idle" THEN ApReturn(t) ELSE [ap_p EXCEPT ![t].pc = ap_p[t].u]
      /\ ap_state' = ap_state /\ ap_holder' = ap_holder
      /\ ap_cnd' = ap_cnd /\ ap_waiters' = ap_waiters /\ ap_sleepers' = ap_sleepers
      /\ ap_pred' = ap_pred /\ ap_dead' = ap_dead /\ ap_lapse' = ap_lapse
      /\ ap_broken' = ap_broken /\ ap_overlap' = ap_overlap
  BY Zenon DEF ApUlockWake, ApAt, ap_cond, ap_client
<1>1. /\ Shape(ap_p[t]) /\ ap_p \in [ApThreads -> Calls] /\ ap_p[t].seq <= ap_cnd
      /\ t \notin ap_queue /\ t \notin ap_sleepers /\ ap_p[t] \in Calls /\ 0 <= ap_cnd
  <2>1. 0 <= ap_cnd
    BY Facts
  <2> QED
    BY <1>0, <2>1, Facts, Zenon
<1>2. /\ ap_p[t].u \in {"idle", "bump", "park"}
      /\ Waker(t) <=> ap_p[t].u = "bump"
      /\ ap_p[t].u = "park" => ap_p[t].k = "pred"
  BY <1>0, <1>1, Zenon DEF Calls, Shape, Releasing, Waker
<1>3. /\ Others(t) /\ ap_p'[t].pc = ap_p[t].u
      /\ ap_p'[t].k = IF ap_p[t].u = "idle" THEN "idle" ELSE ap_p[t].k
      /\ ap_p'[t].m = IF ap_p[t].u = "idle" THEN "lock" ELSE ap_p[t].m
      /\ ap_p'[t].seq = IF ap_p[t].u = "idle" THEN 0 ELSE ap_p[t].seq
      /\ ap_p[t].u # "idle" => ap_p'[t].contended = ap_p[t].contended
  <2>1. CASE ap_p[t].u = "idle"
    BY <1>0, <1>1, <2>1, Returned, Zenon
  <2>2. CASE ap_p[t].u # "idle"
    <3>1. ApGoto(t, ap_p[t].u) /\ ap_p[t].u \in Labels
      BY <1>0, <1>2, <2>2, Zenon DEF ApGoto, Labels
    <3> QED
      BY <1>1, <2>2, <3>1, Moved, Zenon
  <2> QED
    BY <2>1, <2>2
<1>4. Shape(ap_p'[t]) /\ ap_p'[t].seq <= ap_cnd
  <2>1. Shape(ap_p'[t])
    BY <1>1, <1>2, <1>3 DEF Shape, Recovering, Releasing, Waker
  <2> QED
    BY <1>1, <1>3, <2>1, Zenon
<1>5. \/ ap_queue' = ap_queue /\ (ap_p[t].old = 2 => ap_queue = {})
      \/ \E u \in ap_queue : ap_queue' = ap_queue \ {u}
  BY Zenon DEF ApUlockWake
<1>6. TypeInv'
  BY <1>0, <1>1, <1>3, <1>4, <1>5, Facts, TypeStep, Zenon
<1>7. ExclInv'
  <2>1. {"ulock_wake", "idle", "bump", "park"} \cap Busy = {}
    BY DEF Busy, HeldPcs
  <2> QED
    BY <1>0, <1>2, <1>3, <2>1, ExclStep, Zenon
<1>8. CoverInv'
  <2>1. CASE ap_queue' = ap_queue /\ (ap_p[t].old = 2 => ap_queue = {})
    <3>1. Cover(t) => ap_queue' = {}
      BY <1>0, <2>1, Zenon DEF Cover
    <3> QED
      BY <1>0, <1>3, <2>1, <3>1, CoverStep, Zenon
  <2>2. ASSUME NEW u \in ap_queue, ap_queue' = ap_queue \ {u}
        PROVE  CoverInv'
    <3>1. u \in ApThreads /\ ap_p[u].pc = "queued" /\ u # t
      BY <1>1, Facts, Zenon
    <3>2. Cover(u)'
      BY <1>3, <2>2, <3>1, Zenon DEF Cover, Others
    <3> QED
      BY <1>0, <1>3, <2>2, <3>1, <3>2, CoverStep, Zenon
  <2> QED
    BY <1>5, <2>1, <2>2, Zenon
<1>9. WakeInv'
  <2>1. Waker(t) => Waker(t)' /\ ToBump(t)'
    BY <1>2, <1>3, Zenon DEF ToBump, Waker
  <2>2. ~Parking(t)' /\ (Parked(t)' => Parked(t) /\ ap_p'[t].seq = ap_p[t].seq) /\ ~Outside(t)
    BY <1>0, <1>2, <1>3, Zenon DEF Parking, Parked, Outside
  <2> QED
    BY <1>0, <1>1, <1>3, <2>1, <2>2, WakeStep, Zenon DEF ToBump
<1>10. CountInv'
  BY <1>0, <1>2, <1>3, CountStep, Zenon DEF Counts, Releasing
<1> QED
  BY <1>6, <1>7, <1>8, <1>9, <1>10, Zenon DEF ApInv

\* On to the unlock, with the mutex.
LEMMA ToUnlock ==
  ASSUME ApSetting, ApInv, NEW t \in ApThreads, t \notin ap_dead, NEW v \in {"idle", "bump"},
         ap_p' = [ap_p EXCEPT ![t].pc = "unlock", ![t].u = v],
         ap_p[t].pc \in {"crit", "barrier", "timeout", "pred"}, v = "bump" <=> ap_p[t].k = "barrier"
  PROVE  /\ Others(t) /\ ap_p'[t].pc = "unlock" /\ Shape(ap_p'[t]) /\ ap_p'[t].seq = ap_p[t].seq
         /\ ap_p[t].pc \in HeldPcs /\ ap_p'[t].pc \in HeldPcs
         /\ t \notin ap_queue /\ t \notin ap_sleepers /\ ap_p[t].seq <= ap_cnd
         /\ ~Cover(t) /\ ~Outside(t) /\ (Waker(t) => Waker(t)' /\ ToBump(t)')
         /\ ~Parking(t)' /\ ~Parked(t)' /\ ~Counts(ap_p'[t])
<1>1. /\ Shape(ap_p[t]) /\ ap_p \in [ApThreads -> Calls] /\ ap_p[t].seq <= ap_cnd
      /\ t \notin ap_queue /\ t \notin ap_sleepers
  BY Facts, Zenon
<1>2. /\ Others(t) /\ ap_p'[t].pc = "unlock" /\ ap_p'[t].k = ap_p[t].k /\ ap_p'[t].u = v
      /\ ap_p'[t].m = ap_p[t].m /\ ap_p'[t].contended = ap_p[t].contended
      /\ ap_p'[t].seq = ap_p[t].seq
  BY <1>1, MovedToUnlock, Zenon
<1>3. Shape(ap_p'[t])
  BY <1>1, <1>2 DEF Shape, Recovering, Releasing
<1>4. ap_p[t].pc \in HeldPcs /\ ap_p'[t].pc \in HeldPcs
  BY <1>2, Zenon DEF HeldPcs
<1>5. ~Cover(t) /\ ~Outside(t) /\ (Waker(t) => Waker(t)' /\ ToBump(t)')
  BY <1>2, Zenon DEF Cover, Outside, ToBump, Waker
<1>6. ~Parking(t)' /\ ~Parked(t)' /\ ~Counts(ap_p'[t])
  BY <1>2, Zenon DEF Parking, Parked, Counts, Releasing
<1> QED
  BY <1>1, <1>2, <1>3, <1>4, <1>5, <1>6, Zenon

LEMMA LeaveKeeps ==
  ASSUME ApSetting, ApInv, NEW t \in ApThreads, ApLeave(t)
  PROVE  ApInv'
<1> DEFINE v == IF ap_p[t].pc = "barrier" THEN "bump" ELSE "idle"
<1>0. /\ ap_p[t].pc \in {"crit", "barrier", "timeout"} /\ t \notin ap_dead
      /\ ap_p' = [ap_p EXCEPT ![t].pc = "unlock", ![t].u = v]
      /\ UNCHANGED <<ap_mutex, ap_cond, ap_client>>
  BY Zenon DEF ApLeave
<1>1. v \in {"idle", "bump"} /\ (v = "bump" <=> ap_p[t].pc = "barrier")
  OBVIOUS
<1> HIDE DEF v
<1>2. ap_p[t].pc = "barrier" <=> ap_p[t].k = "barrier"
  BY <1>0, Facts, Zenon DEF Shape
<1> QED
  BY <1>0, <1>1, <1>2, ToUnlock, PlainStep, Zenon DEF ToBump

-----------------------------------------------------------------------------
(* The condition.                                                          *)

LEMMA CheckPredKeeps ==
  ASSUME ApSetting, ApInv, NEW t \in ApThreads, ApCheckPred(t)
  PROVE  ApInv'
<1>0. /\ ap_p[t].pc = "pred" /\ t \notin ap_dead
      /\ ap_p' = IF ap_pred[t] THEN [ap_p EXCEPT ![t].pc = "load"]
                 ELSE [ap_p EXCEPT ![t].pc = "unlock", ![t].u = "idle"]
      /\ ap_pred' = [ap_pred EXCEPT ![t] = TRUE]
      /\ ap_state' = ap_state /\ ap_holder' = ap_holder /\ ap_queue' = ap_queue
      /\ ap_cnd' = ap_cnd /\ ap_waiters' = ap_waiters /\ ap_sleepers' = ap_sleepers
      /\ ap_dead' = ap_dead /\ ap_lapse' = ap_lapse
      /\ ap_broken' = ap_broken /\ ap_overlap' = ap_overlap
  BY Zenon DEF ApCheckPred, ApAt, ap_mutex, ap_cond
<1>1. /\ Shape(ap_p[t]) /\ ap_p \in [ApThreads -> Calls] /\ ap_p[t].seq <= ap_cnd
      /\ t \notin ap_queue /\ t \notin ap_sleepers
  BY <1>0, Facts, Zenon
<1>2. /\ Others(t) /\ ap_p'[t].pc \in {"load", "unlock"} /\ ap_p'[t].k = ap_p[t].k
      /\ ap_p'[t].pc = "unlock" => ap_p'[t].u = "idle"
      /\ ap_p'[t].m = ap_p[t].m /\ ap_p'[t].contended = ap_p[t].contended
      /\ ap_p'[t].seq = ap_p[t].seq
  <2>1. CASE ap_pred[t]
    <3>1. ApGoto(t, "load") /\ "load" \in Labels
      BY <1>0, <2>1, Zenon DEF ApGoto, Labels
    <3> QED
      BY <1>1, <3>1, Moved, Zenon
  <2>2. CASE ~ap_pred[t]
    BY <1>0, <1>1, <2>2, MovedToUnlock, Zenon
  <2> QED
    BY <2>1, <2>2
<1>3. ap_p[t].k = "pred" /\ ~Waker(t)
  BY <1>0, <1>1, Zenon DEF Shape, Waker
<1>4. Shape(ap_p'[t])
  BY <1>1, <1>2, <1>3 DEF Shape, Recovering, Releasing
<1>5. /\ ap_pred' \in [ApThreads -> BOOLEAN] /\ ap_pred'[t] = TRUE
      /\ \A u \in ApThreads : u # t => ap_pred'[u] = ap_pred[u]
  BY <1>0, Facts, Zenon
<1>6. TypeInv'
  BY <1>0, <1>1, <1>2, <1>4, <1>5, Facts, TypeStep, Zenon
<1>7. ExclInv'
  <2>1. ap_p[t].pc \in HeldPcs /\ ap_p'[t].pc \in HeldPcs
    BY <1>0, <1>2, Zenon DEF HeldPcs
  <2> QED
    BY <1>0, <1>2, <2>1, ExclStep, Zenon
<1>8. CoverInv'
  BY <1>0, <1>2, CoverStep, Zenon DEF Cover
<1>9. WakeInv'
  BY <1>0, <1>2, <1>3, <1>5, WakeStep, Zenon DEF ToBump, Outside
<1>10. CountInv'
  BY <1>0, <1>2, CountStep, Zenon DEF Counts, Releasing
<1> QED
  BY <1>6, <1>7, <1>8, <1>9, <1>10, Zenon DEF ApInv

LEMMA LoadSeqKeeps ==
  ASSUME ApSetting, ApInv, NEW t \in ApThreads, ApLoadSeq(t)
  PROVE  ApInv'
<1>0. /\ ap_p[t].pc = "load" /\ t \notin ap_dead /\ UNCHANGED <<ap_mutex, ap_cond, ap_client>>
      /\ ap_p' = [ap_p EXCEPT ![t].pc = "count", ![t].seq = ap_cnd]
  BY Zenon DEF ApLoadSeq, ApAt
<1>1. /\ Shape(ap_p[t]) /\ ap_p \in [ApThreads -> Calls] /\ t \notin ap_queue /\ t \notin ap_sleepers
      /\ ap_p[t] \in Calls /\ ap_cnd \in Nat /\ ap_cnd <= ap_cnd
  <2>1. ap_cnd <= ap_cnd
    BY Facts
  <2> QED
    BY <1>0, <2>1, Facts, Zenon
<1> DEFINE e == [ap_p[t] EXCEPT !.pc = "count", !.seq = ap_cnd]
<1>2. /\ e \in Calls /\ e.pc = "count" /\ e.k = ap_p[t].k /\ e.u = ap_p[t].u /\ e.m = ap_p[t].m
      /\ e.contended = ap_p[t].contended /\ e.seq = ap_cnd
  BY <1>1, Zenon DEF Calls, Labels
<1>3. ap_p' = [ap_p EXCEPT ![t] = e]
  BY <1>0, Zenon
<1> HIDE DEF e
<1>4. Others(t) /\ ap_p'[t] = e
  BY <1>1, <1>2, <1>3, Updated, Zenon
<1>5. Shape(ap_p'[t])
  BY <1>0, <1>1, <1>2, <1>4 DEF Shape, Recovering, Releasing
<1>6. ap_p[t].pc \in HeldPcs /\ ap_p'[t].pc \in HeldPcs
  BY <1>0, <1>2, <1>4, Zenon DEF HeldPcs
<1>7. ~Cover(t) /\ ~Waker(t) /\ Parking(t) /\ ~Parked(t)' /\ ~Counts(ap_p'[t])
  BY <1>0, <1>1, <1>2, <1>4, Zenon DEF Shape, Cover, Waker, Parking, Parked, Counts, Releasing
<1> QED
  BY <1>0, <1>1, <1>2, <1>4, <1>5, <1>6, <1>7, PlainStep, Zenon DEF ToBump, Outside

\* Counting one waiter more.
LEMMA CountKeeps ==
  ASSUME ApSetting, ApInv, NEW t \in ApThreads, ApCount(t)
  PROVE  ApInv'
<1>0. /\ ap_p[t].pc = "count" /\ t \notin ap_dead
      /\ ap_p' = [ap_p EXCEPT ![t].pc = "unlock", ![t].u = "park"]
      /\ ap_waiters' = ap_waiters + 1
      /\ ap_state' = ap_state /\ ap_holder' = ap_holder /\ ap_queue' = ap_queue
      /\ ap_cnd' = ap_cnd /\ ap_sleepers' = ap_sleepers
      /\ ap_pred' = ap_pred /\ ap_dead' = ap_dead /\ ap_lapse' = ap_lapse
      /\ ap_broken' = ap_broken /\ ap_overlap' = ap_overlap
  BY Zenon DEF ApCount, ApAt, ap_mutex, ap_client
<1>1. /\ Shape(ap_p[t]) /\ ap_p \in [ApThreads -> Calls] /\ ap_p[t].seq <= ap_cnd
      /\ t \notin ap_queue /\ t \notin ap_sleepers
  BY <1>0, Facts, Zenon
<1>2. /\ Others(t) /\ ap_p'[t].pc = "unlock" /\ ap_p'[t].k = ap_p[t].k /\ ap_p'[t].u = "park"
      /\ ap_p'[t].m = ap_p[t].m /\ ap_p'[t].contended = ap_p[t].contended
      /\ ap_p'[t].seq = ap_p[t].seq
  BY <1>0, <1>1, MovedToUnlock, Zenon
<1>3. Shape(ap_p'[t]) /\ ap_p[t].k = "pred"
  BY <1>0, <1>1, <1>2 DEF Shape, Recovering, Releasing
<1>4. TypeInv'
  BY <1>0, <1>1, <1>2, <1>3, Facts, TypeStep, Zenon
<1>5. ExclInv'
  <2>1. ap_p[t].pc \in HeldPcs /\ ap_p'[t].pc \in HeldPcs
    BY <1>0, <1>2, Zenon DEF HeldPcs
  <2> QED
    BY <1>0, <1>2, <2>1, ExclStep, Zenon
<1>6. CoverInv'
  BY <1>0, <1>2, CoverStep, Zenon DEF Cover
<1>7. WakeInv'
  <2>1. ~Waker(t) /\ Parking(t) /\ ~Parked(t)'
    BY <1>0, <1>2, <1>3, Zenon DEF Waker, Parking, Parked
  <2> QED
    BY <1>0, <1>1, <1>2, <2>1, WakeStep, Zenon DEF ToBump, Outside
<1>8. CountInv'
  <2>1. Counted' = Counted \cup {t} /\ t \notin Counted
    BY <1>0, <1>2, Zenon DEF Counted, Counts, Releasing, Others
  <2>2. PICK f \in [Counted -> 1..ap_waiters] : \A a, b \in Counted : f[a] = f[b] => a = b
    BY Zenon DEF ApInv, CountInv
  <2> DEFINE g == [x \in Counted' |-> IF x = t THEN ap_waiters + 1 ELSE f[x]]
  <2>3. /\ \A x \in Counted : f[x] \in 1..(ap_waiters + 1) /\ f[x] # ap_waiters + 1
        /\ ap_waiters + 1 \in 1..(ap_waiters + 1) /\ ap_waiters + 1 \in Nat
    <3>1. ap_waiters \in Nat
      BY Zenon DEF ApInv, CountInv
    <3>2. \A x \in Counted : f[x] \in 1..ap_waiters
      BY Zenon
    <3> QED
      BY <3>1, <3>2
  <2>4. g \in [Counted' -> 1..(ap_waiters + 1)]
    BY <2>1, <2>3, Zenon
  <2>5. \A a, b \in Counted' : g[a] = g[b] => a = b
    BY <2>1, <2>2, <2>3, Zenon
  <2> HIDE DEF g
  <2> QED
    BY <1>0, <2>3, <2>4, <2>5, Zenon DEF CountInv
<1> QED
  BY <1>4, <1>5, <1>6, <1>7, <1>8, Zenon DEF ApInv

LEMMA ParkKeeps ==
  ASSUME ApSetting, ApInv, NEW t \in ApThreads, ApPark(t)
  PROVE  ApInv'
<1>0. /\ ap_p[t].pc = "park" /\ t \notin ap_dead
      /\ IF ap_cnd = ap_p[t].seq THEN ap_sleepers' = ap_sleepers \cup {t} /\ ApGoto(t, "asleep")
                                 ELSE ApGoto(t, "uncount") /\ ap_sleepers' = ap_sleepers
      /\ ap_state' = ap_state /\ ap_holder' = ap_holder /\ ap_queue' = ap_queue
      /\ ap_cnd' = ap_cnd /\ ap_waiters' = ap_waiters
      /\ ap_pred' = ap_pred /\ ap_dead' = ap_dead /\ ap_lapse' = ap_lapse
      /\ ap_broken' = ap_broken /\ ap_overlap' = ap_overlap
  BY Zenon DEF ApPark, ApAt, ap_mutex, ap_client
<1>1. /\ Shape(ap_p[t]) /\ ap_p \in [ApThreads -> Calls] /\ ap_p[t].seq <= ap_cnd
      /\ t \notin ap_queue /\ t \notin ap_sleepers
  BY <1>0, Facts, Zenon
<1>2. /\ Others(t) /\ ap_p'[t].pc \in {"asleep", "uncount"} /\ ap_p'[t].k = ap_p[t].k
      /\ ap_p'[t].m = ap_p[t].m /\ ap_p'[t].contended = ap_p[t].contended
      /\ ap_p'[t].seq = ap_p[t].seq
      /\ ap_sleepers' = IF ap_p'[t].pc = "asleep" THEN ap_sleepers \cup {t} ELSE ap_sleepers
      /\ ap_p'[t].pc = "asleep" => ap_p[t].seq = ap_cnd
  <2>1. "asleep" \in Labels /\ "uncount" \in Labels
    BY DEF Labels
  <2>2. CASE ap_cnd = ap_p[t].seq
    BY <1>0, <1>1, <2>1, <2>2, Moved, Zenon
  <2>3. CASE ap_cnd # ap_p[t].seq
    BY <1>0, <1>1, <2>1, <2>3, Moved, Zenon
  <2> QED
    BY <2>2, <2>3
<1>3. Shape(ap_p'[t]) /\ ap_p[t].k = "pred"
  BY <1>0, <1>1, <1>2 DEF Shape, Recovering, Releasing
<1>4. TypeInv'
  BY <1>0, <1>1, <1>2, <1>3, Facts, TypeStep, Zenon
<1>5. ExclInv'
  <2>1. {"park", "asleep", "uncount"} \cap Busy = {}
    BY DEF Busy, HeldPcs
  <2> QED
    BY <1>0, <1>2, <2>1, ExclStep, Zenon
<1>6. CoverInv'
  BY <1>0, <1>2, CoverStep, Zenon DEF Cover
<1>7. WakeInv'
  <2>1. ~Waker(t) /\ Parked(t) /\ ~Parking(t)'
    BY <1>0, <1>2, <1>3, Zenon DEF Waker, Parking, Parked
  <2> QED
    BY <1>0, <1>1, <1>2, <2>1, WakeStep, Zenon DEF ToBump, Outside
<1>8. CountInv'
  BY <1>0, <1>2, CountStep, Zenon DEF Counts, Releasing
<1> QED
  BY <1>4, <1>5, <1>6, <1>7, <1>8, Zenon DEF ApInv

LEMMA UnparkKeeps ==
  ASSUME ApSetting, ApInv, NEW t \in ApThreads, ApUnpark(t)
  PROVE  ApInv'
<1>0. /\ ap_p[t].pc = "asleep" /\ t \notin ap_dead /\ ap_sleepers' = ap_sleepers \ {t}
      /\ ap_state' = ap_state /\ ap_holder' = ap_holder /\ ap_queue' = ap_queue
      /\ ap_cnd' = ap_cnd /\ ap_waiters' = ap_waiters
      /\ ap_pred' = ap_pred /\ ap_dead' = ap_dead /\ ap_lapse' = ap_lapse
      /\ ap_broken' = ap_broken /\ ap_overlap' = ap_overlap
  BY Zenon DEF ApUnpark, ApAt, ap_mutex, ap_client
<1>1. /\ Shape(ap_p[t]) /\ ap_p \in [ApThreads -> Calls] /\ ap_p[t].seq <= ap_cnd
      /\ t \notin ap_queue /\ ap_p[t] \in Calls
  BY <1>0, Facts, Zenon
<1>2. ap_p[t].k = "pred"
  BY <1>0, <1>1, Zenon DEF Shape
<1>3. /\ Others(t) /\ ap_p'[t].m = ap_p[t].m /\ ap_p'[t].contended = ap_p[t].contended
      /\ ap_p'[t].seq = ap_p[t].seq
      /\ \/ ap_p'[t].pc = "park" /\ ap_p'[t].k = "pred"
         \/ ap_p'[t].pc = "uncount" /\ ap_p'[t].k \in {"pred", "timeout"}
  <2>1. CASE ApGoto(t, "park")
    BY <1>1, <1>2, <2>1, Moved, Zenon DEF Labels
  <2>2. CASE ap_p' = [ap_p EXCEPT ![t].pc = "uncount",
                                  ![t].k = IF ap_cnd = ap_p[t].seq THEN "timeout" ELSE ap_p[t].k]
    <3> DEFINE k == IF ap_cnd = ap_p[t].seq THEN "timeout" ELSE ap_p[t].k
               e == [ap_p[t] EXCEPT !.pc = "uncount", !.k = k]
    <3>1. k \in {"pred", "timeout"} /\ "uncount" \in Labels
      BY <1>2 DEF Labels
    <3>2. ap_p' = [ap_p EXCEPT ![t] = e]
      BY <2>2, Zenon
    <3> HIDE DEF k
    <3>3. /\ e \in Calls /\ e.pc = "uncount" /\ e.k = k /\ e.m = ap_p[t].m
          /\ e.contended = ap_p[t].contended /\ e.seq = ap_p[t].seq
      BY <1>1, <3>1, Zenon DEF Calls
    <3> HIDE DEF e
    <3>4. Others(t) /\ ap_p'[t] = e
      BY <1>1, <3>2, <3>3, Updated, Zenon
    <3> QED
      BY <3>1, <3>3, <3>4, Zenon
  <2> QED
    BY <2>1, <2>2, Zenon DEF ApUnpark
<1>4. Shape(ap_p'[t])
  BY <1>1, <1>2, <1>3 DEF Shape, Recovering, Releasing
<1>5. TypeInv'
  BY <1>0, <1>1, <1>3, <1>4, Facts, TypeStep, Zenon
<1>6. ExclInv'
  <2>1. {"park", "asleep", "uncount"} \cap Busy = {}
    BY DEF Busy, HeldPcs
  <2> QED
    BY <1>0, <1>3, <2>1, ExclStep, Zenon
<1>7. CoverInv'
  BY <1>0, <1>3, CoverStep, Zenon DEF Cover
<1>8. WakeInv'
  <2>1. ~Waker(t) /\ Parked(t) /\ ~Parking(t)'
    BY <1>0, <1>2, <1>3, Zenon DEF Waker, Parking, Parked
  <2> QED
    BY <1>0, <1>1, <1>3, <2>1, WakeStep, Zenon DEF ToBump, Outside
<1>9. CountInv'
  BY <1>0, <1>3, CountStep, Zenon DEF Counts, Releasing
<1> QED
  BY <1>5, <1>6, <1>7, <1>8, <1>9, Zenon DEF ApInv

\* Counting one waiter less: who had the last number takes the leaver's.
LEMMA UncountKeeps ==
  ASSUME ApSetting, ApInv, NEW t \in ApThreads, ApUncount(t)
  PROVE  ApInv'
<1>0. /\ ap_p[t].pc = "uncount" /\ t \notin ap_dead
      /\ ap_p' = [ap_p EXCEPT ![t].pc = "cas", ![t].contended = FALSE, ![t].old = 0]
      /\ ap_waiters' = ap_waiters - 1
      /\ ap_state' = ap_state /\ ap_holder' = ap_holder /\ ap_queue' = ap_queue
      /\ ap_cnd' = ap_cnd /\ ap_sleepers' = ap_sleepers
      /\ ap_pred' = ap_pred /\ ap_dead' = ap_dead /\ ap_lapse' = ap_lapse
      /\ ap_broken' = ap_broken /\ ap_overlap' = ap_overlap
  BY Zenon DEF ApUncount, ApAt, ap_mutex, ap_client
<1>1. /\ Shape(ap_p[t]) /\ ap_p \in [ApThreads -> Calls] /\ ap_p[t].seq <= ap_cnd
      /\ t \notin ap_queue /\ t \notin ap_sleepers /\ ap_p[t] \in Calls
  BY <1>0, Facts, Zenon
<1> DEFINE e == [ap_p[t] EXCEPT !.pc = "cas", !.contended = FALSE, !.old = 0]
<1>2. /\ e \in Calls /\ e.pc = "cas" /\ e.k = ap_p[t].k /\ e.u = ap_p[t].u /\ e.m = ap_p[t].m
      /\ e.contended = FALSE /\ e.seq = ap_p[t].seq
  <2>1. 0 \in 0..2
    OBVIOUS
  <2> QED
    BY <1>1, <2>1, Zenon DEF Calls, Labels
<1>3. ap_p' = [ap_p EXCEPT ![t] = e]
  BY <1>0, Zenon
<1> HIDE DEF e
<1>4. Others(t) /\ ap_p'[t] = e
  BY <1>1, <1>2, <1>3, Updated, Zenon
<1>5. Shape(ap_p'[t]) /\ ap_p[t].k # "barrier"
  BY <1>0, <1>1, <1>2, <1>4 DEF Shape, Recovering, Releasing
<1>6. TypeInv'
  BY <1>0, <1>1, <1>2, <1>4, <1>5, Facts, TypeStep, Zenon
<1>7. ExclInv'
  <2>1. {"cas", "uncount"} \cap Busy = {}
    BY DEF Busy, HeldPcs
  <2> QED
    BY <1>0, <1>2, <1>4, <2>1, ExclStep, Zenon
<1>8. CoverInv'
  BY <1>0, <1>4, CoverStep, Zenon DEF Cover
<1>9. WakeInv'
  <2>1. ~Waker(t) /\ ~Parked(t)' /\ ~Parking(t)'
    BY <1>2, <1>4, <1>5, Zenon DEF Waker, Parking, Parked
  <2> QED
    BY <1>0, <1>1, <1>4, <2>1, WakeStep, Zenon DEF ToBump, Outside
<1>10. CountInv'
  <2>1. Counted' = Counted \ {t} /\ t \in Counted
    BY <1>0, <1>2, <1>4, Zenon DEF Counted, Counts, Releasing, Others
  <2>2. PICK f \in [Counted -> 1..ap_waiters] : \A a, b \in Counted : f[a] = f[b] => a = b
    BY Zenon DEF ApInv, CountInv
  <2> DEFINE g == [x \in Counted' |-> IF f[x] = ap_waiters THEN f[t] ELSE f[x]]
  <2>3. /\ \A x \in Counted : f[x] # ap_waiters => f[x] \in 1..(ap_waiters - 1)
        /\ ap_waiters - 1 \in Nat
    <3>1. ap_waiters \in Nat
      BY Zenon DEF ApInv, CountInv
    <3>2. \A x \in Counted : f[x] \in 1..ap_waiters
      BY Zenon
    <3> QED
      BY <2>1, <3>1, <3>2
  <2>4. g \in [Counted' -> 1..(ap_waiters - 1)]
    BY <2>1, <2>2, <2>3, Zenon
  <2>5. ASSUME NEW a \in Counted', NEW b \in Counted', g[a] = g[b]
        PROVE  a = b
    <3>1. f[a] # f[t] /\ f[b] # f[t] /\ (f[a] = f[b] => a = b)
      BY <2>1, <2>2, Zenon
    <3>2. /\ g[a] = IF f[a] = ap_waiters THEN f[t] ELSE f[a]
          /\ g[b] = IF f[b] = ap_waiters THEN f[t] ELSE f[b]
      BY Zenon
    <3> QED
      BY <2>5, <3>1, <3>2, Zenon
  <2> HIDE DEF g
  <2> QED
    BY <1>0, <2>3, <2>4, <2>5, Zenon DEF CountInv
<1> QED
  BY <1>6, <1>7, <1>8, <1>9, <1>10, Zenon DEF ApInv

LEMMA BumpKeeps ==
  ASSUME ApSetting, ApInv, NEW t \in ApThreads, ApBump(t)
  PROVE  ApInv'
<1>0. /\ ap_p[t].pc = "bump" /\ t \notin ap_dead /\ ApGoto(t, "wake") /\ ap_cnd' = ap_cnd + 1
      /\ ap_state' = ap_state /\ ap_holder' = ap_holder /\ ap_queue' = ap_queue
      /\ ap_waiters' = ap_waiters /\ ap_sleepers' = ap_sleepers
      /\ ap_pred' = ap_pred /\ ap_dead' = ap_dead /\ ap_lapse' = ap_lapse
      /\ ap_broken' = ap_broken /\ ap_overlap' = ap_overlap
  BY Zenon DEF ApBump, ApAt, ap_mutex, ap_client
<1>1. /\ Shape(ap_p[t]) /\ ap_p \in [ApThreads -> Calls]
      /\ t \notin ap_queue /\ t \notin ap_sleepers
  BY <1>0, Facts, Zenon
<1>2. /\ Others(t) /\ ap_p'[t].pc = "wake" /\ ap_p'[t].k = ap_p[t].k /\ ap_p'[t].u = ap_p[t].u
      /\ ap_p'[t].m = ap_p[t].m /\ ap_p'[t].contended = ap_p[t].contended
      /\ ap_p'[t].seq = ap_p[t].seq
  BY <1>0, <1>1, Moved, Zenon DEF Labels
<1>3. Shape(ap_p'[t]) /\ ap_p[t].k = "barrier"
  BY <1>0, <1>1, <1>2 DEF Shape, Recovering, Releasing
<1>4. /\ ap_cnd' \in Nat
      /\ \A u \in ApThreads : ap_p[u].seq <= ap_cnd' /\ ap_p[u].seq # ap_cnd'
  BY <1>0, Facts
<1>5. \A u \in ApThreads : ap_p'[u].seq = ap_p[u].seq
  BY <1>2, Zenon DEF Others
<1>6. TypeInv'
  <2>1. ASSUME NEW u \in ApThreads
        PROVE  /\ Shape(ap_p'[u])
               /\ u \in ap_dead => ap_p'[u].pc = "idle"
               /\ u \in ap_queue => ap_p'[u].pc = "queued"
               /\ u \in ap_sleepers => ap_p'[u].pc = "asleep"
    BY <1>0, <1>1, <1>2, <1>3, Facts, Zenon DEF Others
  <2>2. ap_p' \in [ApThreads -> Calls]
    BY <1>2, Zenon DEF Others
  <2>3. /\ ap_state \in 0..2 /\ ap_holder \in ApThreads \cup {0} /\ ap_queue \subseteq ApThreads
        /\ ap_sleepers \subseteq ApThreads /\ ap_dead \subseteq ApThreads
        /\ ap_pred \in [ApThreads -> BOOLEAN] /\ ap_overlap \in BOOLEAN
    BY Facts, Zenon
  <2> QED
    BY <1>0, <1>4, <1>5, <2>1, <2>2, <2>3, ShapedNext, Zenon DEF TypeInv
<1>7. ExclInv'
  <2>1. {"bump", "wake"} \cap Busy = {}
    BY DEF Busy, HeldPcs
  <2> QED
    BY <1>0, <1>2, <2>1, ExclStep, Zenon
<1>8. CoverInv'
  BY <1>0, <1>2, CoverStep, Zenon DEF Cover
<1>9. WakeInv'
  <2>1. \A u \in ApThreads : (Outside(u) => Outside(u)') /\ (Waker(u) => Waker(u)')
    BY <1>0, <1>2, <1>3, Zenon DEF Outside, Waker, Others
  <2>2. \A u \in ApThreads : Parking(u)' => Parking(u)
    BY <1>2, Zenon DEF Parking, Others
  <2>3. \A u \in ApThreads : ap_p'[u].seq # ap_cnd'
    BY <1>4, <1>5, Zenon
  <2> QED
    BY <1>0, <2>1, <2>2, <2>3, Zenon DEF ApInv, WakeInv
<1>10. CountInv'
  BY <1>0, <1>2, CountStep, Zenon DEF Counts, Releasing
<1> QED
  BY <1>6, <1>7, <1>8, <1>9, <1>10, Zenon DEF ApInv

\* Waking: a broadcast leaves nobody asleep, since the count is not zero as
\* long as somebody sleeps; a notify that leaves one is a lapse.
LEMMA CondWakeKeeps ==
  ASSUME ApSetting, ApInv, NEW t \in ApThreads, ApCondWake(t)
  PROVE  ApInv'
<1>0. /\ ap_p[t].pc = "wake" /\ t \notin ap_dead /\ ap_p' = ApReturn(t)
      /\ ap_state' = ap_state /\ ap_holder' = ap_holder /\ ap_queue' = ap_queue
      /\ ap_cnd' = ap_cnd /\ ap_waiters' = ap_waiters
      /\ ap_pred' = ap_pred /\ ap_dead' = ap_dead
      /\ ap_broken' = ap_broken /\ ap_overlap' = ap_overlap
  BY Zenon DEF ApCondWake, ApAt, ap_mutex
<1>1. /\ ap_p \in [ApThreads -> Calls] /\ t \notin ap_queue /\ t \notin ap_sleepers /\ 0 <= ap_cnd
  <2>1. 0 <= ap_cnd
    BY Facts
  <2> QED
    BY <1>0, <2>1, Facts, Zenon
<1>2. /\ Others(t) /\ ap_p'[t].pc = "idle" /\ ap_p'[t].k = "idle" /\ ap_p'[t].u = "idle"
      /\ ap_p'[t].m = "lock" /\ ap_p'[t].seq = 0
  BY <1>0, <1>1, Returned, Zenon
<1>3. Shape(ap_p'[t])
  BY <1>2 DEF Shape, Recovering, Releasing
<1>4. ap_sleepers # {} => ap_waiters > 0
  <2> SUFFICES ASSUME NEW s \in ap_sleepers
               PROVE  ap_waiters > 0
    OBVIOUS
  <2>1. s \in Counted
    BY Facts, Zenon DEF Counted, Counts
  <2>2. PICK f \in [Counted -> 1..ap_waiters] : TRUE
    BY Zenon DEF ApInv, CountInv
  <2>3. f[s] \in 1..ap_waiters /\ ap_waiters \in Nat
    BY <2>1, <2>2, Zenon DEF ApInv, CountInv
  <2> QED
    BY <2>3
<1>5. ap_sleepers' \subseteq ap_sleepers /\ (ap_lapse => ap_lapse') /\ (ap_lapse' \/ ap_sleepers' = {})
  <2>1. PICK S \in SUBSET ap_sleepers :
          /\ S = IF ap_waiters <= 0 THEN {} ELSE IF ap_p[t].all THEN ap_sleepers ELSE S
          /\ ap_sleepers' = ap_sleepers \ S
          /\ ap_lapse' = (ap_lapse \/ (~ap_p[t].all /\ S # ap_sleepers))
    BY Zenon DEF ApCondWake
  <2>2. CASE ap_sleepers = {}
    BY <2>1, <2>2, Zenon
  <2>3. CASE ap_sleepers # {}
    <3>1. ~(ap_waiters <= 0)
      <4>1. ap_waiters \in Nat
        BY Zenon DEF ApInv, CountInv
      <4> QED
        BY <1>4, <2>3, <4>1
    <3> QED
      BY <2>1, <3>1, Zenon
  <2> QED
    BY <2>2, <2>3
<1>6. TypeInv'
  BY <1>0, <1>1, <1>2, <1>3, <1>5, Facts, TypeStep, Zenon
<1>7. ExclInv'
  <2>1. {"idle", "wake"} \cap Busy = {}
    BY DEF Busy, HeldPcs
  <2> QED
    BY <1>0, <1>2, <2>1, ExclStep, Zenon
<1>8. CoverInv'
  BY <1>0, <1>2, CoverStep, Zenon DEF Cover
<1>9. WakeInv'
  <2>1. \A u \in ApThreads : (Outside(u) => Outside(u)') /\ (ToBump(u) => ToBump(u)')
    BY <1>0, <1>2, Zenon DEF Outside, ToBump, Waker, Others
  <2>2. \A u \in ApThreads : /\ Parking(u)' => Parking(u)
                             /\ Parked(u)' => Parked(u) /\ ap_p'[u].seq = ap_p[u].seq
    BY <1>2, Zenon DEF Parking, Parked, Others
  <2> QED
    BY <1>0, <1>5, <2>1, <2>2, Zenon DEF ApInv, WakeInv
<1>10. CountInv'
  BY <1>0, <1>2, CountStep, Zenon DEF Counts, Releasing
<1> QED
  BY <1>6, <1>7, <1>8, <1>9, <1>10, Zenon DEF ApInv

-----------------------------------------------------------------------------
(* Calls and deaths.                                                       *)

\* A new call on its way to the mutex.
LEMMA Called ==
  ASSUME ApInv, NEW t \in ApThreads, NEW r \in Calls, ApCall(t, r), r.m = "lock" \/ r.k = "crit",
         r.k # "idle", ~r.contended, r.seq = 0
  PROVE  /\ Others(t) /\ ap_p[t].pc = "idle" /\ t \notin ap_dead
         /\ ap_p'[t].pc = "cas" /\ ap_p'[t].k = r.k /\ Shape(ap_p'[t])
         /\ ap_p'[t].seq <= ap_cnd /\ t \notin ap_queue /\ t \notin ap_sleepers
         /\ UNCHANGED <<ap_mutex, ap_cond>>
         /\ ~Cover(t) /\ ~Waker(t) /\ ~Parking(t)' /\ ~Parked(t)' /\ ~Counts(ap_p'[t])
<1> DEFINE n == ap_p[t].ops + 1
           e == [r EXCEPT !.pc = "cas", !.ops = n]
<1>0. /\ ap_p[t].pc = "idle" /\ t \notin ap_dead /\ UNCHANGED <<ap_mutex, ap_cond>>
      /\ ap_p' = [ap_p EXCEPT ![t] = e]
  BY Zenon DEF ApCall, ApAt
<1>1. /\ ap_p \in [ApThreads -> Calls] /\ Shape(ap_p[t]) /\ t \notin ap_queue /\ t \notin ap_sleepers
  BY <1>0, Facts, Zenon
<1>2. ap_p[t].ops \in Nat
  BY <1>1, Zenon DEF Calls
<1>3. n \in Nat /\ 0 <= ap_cnd /\ "cas" \in Labels
  BY <1>2, Facts DEF Labels
<1> HIDE DEF n
<1>4. /\ e \in Calls /\ e.pc = "cas" /\ e.k = r.k /\ e.m = r.m /\ e.contended = r.contended
      /\ e.seq = r.seq
  BY <1>3, Zenon DEF Calls
<1> HIDE DEF e
<1>5. Others(t) /\ ap_p'[t] = e
  BY <1>0, <1>1, <1>4, Updated, Zenon
<1>6. Shape(ap_p'[t])
  BY <1>4, <1>5 DEF Shape, Recovering, Releasing
<1>7. ~Cover(t) /\ ~Waker(t)
  BY <1>0, <1>1, Zenon DEF Shape, Cover, Waker
<1>8. ~Parking(t)' /\ ~Parked(t)' /\ ~Counts(ap_p'[t])
  BY <1>4, <1>5, Zenon DEF Parking, Parked, Counts, Releasing
<1> QED
  BY <1>0, <1>1, <1>3, <1>4, <1>5, <1>6, <1>7, <1>8, Zenon

LEMMA QuietCall ==
  ASSUME ApSetting, ApInv, NEW t \in ApThreads, NEW r \in Calls, ApCall(t, r), UNCHANGED ap_client,
         r.m = "lock" \/ r.k = "crit", r.k # "idle", ~r.contended, r.seq = 0
  PROVE  ApInv'
<1>1. "idle" \notin Busy /\ "cas" \notin Busy
  BY Zenon DEF Busy, HeldPcs
<1>2. /\ Others(t) /\ ap_p[t].pc = "idle" /\ t \notin ap_dead
      /\ ap_p'[t].pc = "cas" /\ ap_p'[t].k = r.k /\ Shape(ap_p'[t])
      /\ ap_p'[t].seq <= ap_cnd /\ t \notin ap_queue /\ t \notin ap_sleepers
      /\ UNCHANGED <<ap_mutex, ap_cond>>
      /\ ~Cover(t) /\ ~Waker(t) /\ ~Parking(t)' /\ ~Parked(t)' /\ ~Counts(ap_p'[t])
  BY Called, Zenon
<1> QED
  BY <1>1, <1>2, PlainStep, Zenon DEF ToBump, Outside

LEMMA WaitIfKeeps ==
  ASSUME ApSetting, ApInv, NEW t \in ApThreads, ApWaitIf(t)
  PROVE  ApInv'
<1>1. PICK b \in BOOLEAN : ApCall(t, [ApIdle EXCEPT !.k = "pred", !.timed = b])
  BY Zenon DEF ApWaitIf
<1> DEFINE r == [ApIdle EXCEPT !.k = "pred", !.timed = b]
<1>2. r \in Calls /\ r.m = "lock" /\ r.k = "pred" /\ ~r.contended /\ r.seq = 0
  BY IdleCall, Zenon DEF Calls
<1>3. ApCall(t, r)
  BY <1>1
<1> HIDE DEF r
<1> QED
  BY <1>2, <1>3, QuietCall, Zenon DEF ApWaitIf

LEMMA TryLockKeeps ==
  ASSUME ApSetting, ApInv, NEW t \in ApThreads, ApTryLock(t)
  PROVE  ApInv'
<1>1. PICK m \in {"timed", "try"} : ApCall(t, [ApIdle EXCEPT !.k = "crit", !.m = m])
  BY Zenon DEF ApTryLock
<1> DEFINE r == [ApIdle EXCEPT !.k = "crit", !.m = m]
<1>2. r \in Calls /\ r.k = "crit" /\ ~r.contended /\ r.seq = 0
  BY IdleCall, Zenon DEF Calls
<1>3. ApCall(t, r)
  BY <1>1
<1> HIDE DEF r
<1> QED
  BY <1>2, <1>3, QuietCall, Zenon DEF ApTryLock

\* The predicates change, and the one that changed them is on its way.
LEMMA WakeKeeps ==
  ASSUME ApSetting, ApInv, NEW t \in ApThreads, ApWake(t)
  PROVE  ApInv'
<1>1. PICK b \in BOOLEAN : ApCall(t, [ApIdle EXCEPT !.k = "barrier", !.all = b])
  BY Zenon DEF ApWake
<1> DEFINE r == [ApIdle EXCEPT !.k = "barrier", !.all = b]
<1>2. r \in Calls /\ r.m = "lock" /\ r.k = "barrier" /\ ~r.contended /\ r.seq = 0
  BY IdleCall, Zenon DEF Calls
<1>3. ApCall(t, r)
  BY <1>1
<1> HIDE DEF r
<1>4. /\ Others(t) /\ ap_p[t].pc = "idle" /\ t \notin ap_dead
      /\ ap_p'[t].pc = "cas" /\ ap_p'[t].k = "barrier" /\ Shape(ap_p'[t])
      /\ ap_p'[t].seq <= ap_cnd /\ t \notin ap_queue /\ t \notin ap_sleepers
      /\ UNCHANGED <<ap_mutex, ap_cond>> /\ ~Cover(t) /\ ~Counts(ap_p'[t])
  BY <1>2, <1>3, Called, Zenon
<1>5. /\ ap_state' = ap_state /\ ap_holder' = ap_holder /\ ap_queue' = ap_queue
      /\ ap_cnd' = ap_cnd /\ ap_waiters' = ap_waiters /\ ap_sleepers' = ap_sleepers
      /\ ap_pred' \in [ApThreads -> BOOLEAN] /\ ap_dead' = ap_dead /\ ap_lapse' = ap_lapse
      /\ ap_broken' = ap_broken /\ ap_overlap' = ap_overlap
  BY <1>4, Zenon DEF ApWake, ap_mutex, ap_cond
<1>6. TypeInv'
  BY <1>4, <1>5, Facts, TypeStep, Zenon
<1>7. ExclInv'
  <2>1. "idle" \notin Busy /\ "cas" \notin Busy
    BY Zenon DEF Busy, HeldPcs
  <2> QED
    BY <1>4, <1>5, <2>1, ExclStep, Zenon
<1>8. CoverInv'
  BY <1>4, <1>5, CoverStep, Zenon
<1>9. WakeInv'
  <2>1. Outside(t)' /\ ToBump(t)' /\ Waker(t)'
    BY <1>4, Zenon DEF Outside, ToBump, Waker
  <2> QED
    BY <2>1, Zenon DEF WakeInv
<1>10. CountInv'
  BY <1>4, <1>5, CountStep, Zenon
<1> QED
  BY <1>6, <1>7, <1>8, <1>9, <1>10, Zenon DEF ApInv

\* A death: of the holder, which leaves the mutex to be recovered; of a
\* recoverer half way, of a waker and of one with a lock under way, which the
\* ghosts record.
LEMMA DieKeeps ==
  ASSUME ApSetting, ApInv, NEW t \in ApThreads, ApDie(t)
  PROVE  ApInv'
<1>0. /\ t \notin ap_dead /\ ap_dead' = ap_dead \cup {t}
      /\ ap_queue' = ap_queue \ {t} /\ ap_sleepers' = ap_sleepers \ {t}
      /\ ap_lapse' = (ap_lapse \/ ap_p[t].k = "barrier")
      /\ ap_broken' = (ap_broken \/ ap_p[t].pc \notin {"idle", "crit"})
      /\ ap_overlap' = (ap_overlap \/ ap_p[t].pc = "rec_clear")
      /\ ap_p' = [ap_p EXCEPT ![t] = ApIdle]
      /\ ap_state' = ap_state /\ ap_holder' = ap_holder
      /\ ap_cnd' = ap_cnd /\ ap_waiters' = ap_waiters /\ ap_pred' = ap_pred
  BY Zenon DEF ApDie
<1>1. /\ ApIdle \in Calls /\ ApIdle.pc = "idle" /\ Shape(ApIdle) /\ ApIdle.seq <= ap_cnd
  <2>1. 0 <= ap_cnd
    BY Facts
  <2> QED
    BY <2>1, IdleCall DEF Shape, Recovering, Releasing
<1>2. Others(t) /\ ap_p'[t] = ApIdle
  BY <1>0, <1>1, Facts, Updated, Zenon
<1>3. ap_p'[t].pc = "idle"
  BY <1>1, <1>2
<1>4. TypeInv'
  <2>1. ASSUME NEW u \in ApThreads
        PROVE  /\ Shape(ap_p'[u]) /\ ap_p'[u].seq <= ap_cnd
               /\ u \in ap_dead' => ap_p'[u].pc = "idle"
               /\ u \in ap_queue' => ap_p'[u].pc = "queued"
               /\ u \in ap_sleepers' => ap_p'[u].pc = "asleep"
    <3>1. CASE u = t
      BY <1>0, <1>1, <1>2, <1>3, <3>1, Zenon
    <3>2. CASE u # t
      BY <1>0, <1>2, <3>2, Facts, Zenon DEF Others
    <3> QED
      BY <3>1, <3>2, Zenon
  <2>2. ap_p' \in [ApThreads -> Calls] /\ ap_overlap' \in BOOLEAN
    BY <1>0, <1>2, Zenon DEF Others
  <2>3. /\ ap_state \in 0..2 /\ ap_holder \in ApThreads \cup {0} /\ ap_queue' \subseteq ApThreads
        /\ ap_sleepers' \subseteq ApThreads /\ ap_dead' \subseteq ApThreads
        /\ ap_pred \in [ApThreads -> BOOLEAN] /\ ap_cnd \in Nat
    BY <1>0, Facts, Zenon
  <2> QED
    BY <1>0, <2>1, <2>2, <2>3, ShapedNext, Zenon DEF TypeInv
<1>5. ExclInv'
  <2> SUFFICES ASSUME ~ap_overlap, ap_p[t].pc # "rec_clear"
               PROVE  ExclInv'
    BY <1>0, Zenon DEF ExclInv
  <2>0. ExclInv
    BY Zenon DEF ApInv
  <2>1. \A u \in ApThreads : /\ In(u)' => In(u) /\ u # t
                             /\ Rec(u)' => Rec(u)
                             /\ ap_p'[u].pc = "rec_swap" => ap_p[u].pc = "rec_swap"
                             /\ ap_p[u].pc = "rec_clear" => ap_p'[u].pc = "rec_clear"
                             /\ u # t => ap_p'[u].pc = ap_p[u].pc
    <3>1. "idle" \notin HeldPcs \cup {"hold", "swap"}
      BY DEF HeldPcs
    <3> QED
      BY <1>2, <1>3, <3>1, Zenon DEF In, Rec, Others
  <2>2. ASSUME ap_holder = t
        PROVE  ap_state # 0 /\ \A u \in ApThreads : ~In(u)'
    <3>1. In(t)
      BY <1>0, <2>0, <2>2, Zenon DEF ExclInv, In
    <3> QED
      BY <2>0, <2>1, <3>1, Zenon DEF ExclInv
  <2> QED
    BY <1>0, <2>0, <2>1, <2>2, Zenon DEF ExclInv
<1>6. CoverInv'
  <2>1. ap_broken' \/ ~Cover(t)
    BY <1>0, Zenon DEF Cover
  <2> QED
    BY <1>0, <1>2, <2>1, CoverStep, Zenon
<1>7. WakeInv'
  <2> SUFFICES ASSUME ~ap_overlap, ~ap_lapse, ~Waker(t)
               PROVE  WakeInv'
    BY <1>0, Zenon DEF WakeInv, Waker
  <2>1. ~Parking(t)' /\ ~Parked(t)'
    BY <1>3, Zenon DEF Parking, Parked
  <2> QED
    BY <1>0, <1>2, <2>1, WakeStep, Zenon DEF ToBump, Outside
<1>8. CountInv'
  BY <1>0, <1>2, <1>3, CountStep, Zenon DEF Counts, Releasing
<1> QED
  BY <1>4, <1>5, <1>6, <1>7, <1>8, Zenon DEF ApInv

-----------------------------------------------------------------------------
(* The invariant, and what follows from it.                                *)

LEMMA InitKeeps == ASSUME ApSetting PROVE ApInit => ApInv
<1> SUFFICES ASSUME ApInit
             PROVE  ApInv
  OBVIOUS
<1>1. /\ \A t \in ApThreads : ap_p[t] = ApIdle
      /\ ap_queue = {} /\ ap_sleepers = {} /\ ap_dead = {} /\ ap_state = 0 /\ ap_holder = 0
      /\ ap_cnd = 0 /\ ap_waiters = 0 /\ ap_overlap = FALSE
      /\ ap_pred \in [ApThreads -> BOOLEAN] /\ \A t \in ApThreads : ap_pred[t] = TRUE
  BY Zenon DEF ApInit
<1>2. ap_p \in [ApThreads -> Calls]
  BY IdleCall, Zenon DEF ApInit
<1>3. \A t \in ApThreads : ap_p[t].pc = "idle" /\ ap_p[t].seq <= ap_cnd
  BY <1>1, IdleCall
<1>4. Shaped
  BY <1>1, IdleCall DEF Shaped, Shape, Recovering, Releasing
<1>5. TypeInv
  <2>1. ap_state \in 0..2 /\ ap_cnd \in Nat
    BY <1>1
  <2> QED
    BY <1>1, <1>2, <1>3, <1>4, <2>1, Zenon DEF TypeInv
<1>6. ExclInv
  <2>1. \A t \in ApThreads : ~In(t) /\ ~Rec(t)
    BY <1>3, Zenon DEF In, HeldPcs, Rec
  <2> QED
    BY <1>1, <1>3, <2>1, ApSetting, Zenon DEF ExclInv, ApSetting
<1>7. CoverInv /\ WakeInv
  BY <1>1, Zenon DEF CoverInv, WakeInv
<1>8. CountInv
  <2>0. ap_waiters \in Nat
    BY <1>1
  <2>1. Counted = {}
    BY <1>3, Zenon DEF Counted, Counts, Releasing
  <2>2. [x \in Counted |-> 1] \in [Counted -> 1..ap_waiters]
    BY <2>1, Zenon
  <2> QED
    BY <2>0, <2>1, <2>2, Zenon DEF CountInv
<1> QED
  BY <1>5, <1>6, <1>7, <1>8, Zenon DEF ApInv

LEMMA StutterKeeps ==
  ASSUME ApInv, UNCHANGED ap_vars
  PROVE  ApInv'
<1>1. /\ ap_state' = ap_state /\ ap_holder' = ap_holder /\ ap_queue' = ap_queue
      /\ ap_cnd' = ap_cnd /\ ap_waiters' = ap_waiters /\ ap_sleepers' = ap_sleepers
      /\ ap_pred' = ap_pred /\ ap_dead' = ap_dead /\ ap_lapse' = ap_lapse
      /\ ap_broken' = ap_broken /\ ap_overlap' = ap_overlap /\ ap_p' = ap_p
  BY Zenon DEF ap_vars
<1>2. Shaped' /\ TypeInv'
  <2>1. Shaped'
    BY <1>1, Facts, ShapedNext, Zenon
  <2> QED
    BY <1>1, <2>1, Zenon DEF ApInv, TypeInv
<1>3. ExclInv'
  BY <1>1, Zenon DEF ApInv, ExclInv, In, Rec
<1>4. CoverInv'
  BY <1>1, Zenon DEF ApInv, CoverInv, Cover
<1>5. WakeInv'
  BY <1>1, Zenon DEF ApInv, WakeInv, Parking, Parked, Outside, ToBump, Waker
<1>6. CountInv'
  <2>1. Counted' = Counted
    BY <1>1, Zenon DEF Counted
  <2> QED
    BY <1>1, <2>1 DEF ApInv, CountInv
<1> QED
  BY <1>2, <1>3, <1>4, <1>5, <1>6, Zenon DEF ApInv

LEMMA NextKeeps ==
  ASSUME ApSetting, ApInv, ApNext
  PROVE  ApInv'
<1>1. ASSUME NEW t \in ApThreads, ApStep(t)
      PROVE  ApInv'
  BY <1>1, CasKeeps, CasFailsKeeps, HoldKeeps, MarkKeeps, SleepKeeps, AwakeKeeps, RecLoadKeeps,
     RecCheckKeeps, RecSwapKeeps, RecClearKeeps, RecWakeKeeps, UnlockKeeps, SwapKeeps,
     UlockWakeKeeps, LeaveKeeps, CheckPredKeeps, LoadSeqKeeps, CountKeeps, ParkKeeps, UnparkKeeps,
     UncountKeeps, BumpKeeps, CondWakeKeeps, Zenon DEF ApStep
<1>2. ASSUME NEW t \in ApThreads,
             ApWaitIf(t) \/ ApWake(t) \/ ApTryLock(t) \/ ApDeadline(t) \/ ApDie(t)
      PROVE  ApInv'
  BY <1>2, WaitIfKeeps, WakeKeeps, TryLockKeeps, DeadlineKeeps, DieKeeps, Zenon
<1>3. CASE ApDone
  BY <1>3, StutterKeeps, Zenon DEF ApDone
<1> QED
  BY <1>1, <1>2, <1>3, Zenon DEF ApNext

LEMMA ApInvariance == ASSUME ApSetting PROVE ApSpec => []ApInv
<1>1. ApInv /\ [ApNext]_ap_vars => ApInv'
  BY NextKeeps, StutterKeeps
<1> QED
  BY <1>1, InitKeeps, PTL DEF ApSpec

\* IpcMutex and Waiter on macOS (platform/apple.rs, condition.rs), for every
\* number of threads and calls: as long as no recovery overlaps another one
\* thread at most is past its lock and before its unlock, whoever died with
\* the mutex; nobody is left asleep on the word, unless a thread was killed
\* with a lock or an unlock under way; and a waiter that a broadcast is for
\* has a waker on the way.
THEOREM AppleSoundAlways == ASSUME ApSetting PROVE ApSpec => []AppleSound
<1>1. ApInv => AppleSound
  <2> SUFFICES ASSUME ApInv
               PROVE  AppleSound
    OBVIOUS
  <2>1. ApExclusive
    <3>1. \A t \in ApInside : t \in ApThreads /\ In(t)
      BY Zenon DEF ApInside, In, HeldPcs
    <3> QED
      BY <3>1, Zenon DEF ApInv, ExclInv, ApExclusive
  <2>2. ApSleeperCovered
    BY Zenon DEF ApInv, CoverInv, Cover, ApSleeperCovered
  <2>3. ApNoLostWakeup
    BY Facts, Zenon DEF ApInv, WakeInv, Waker, ApNoLostWakeup
  <2> QED
    BY <2>1, <2>2, <2>3 DEF AppleSound
<1> QED
  BY <1>1, ApInvariance, PTL

=============================================================================
