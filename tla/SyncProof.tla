------------------------------ MODULE SyncProof ------------------------------
(***************************************************************************)
(* The counting semaphore for every finite number of threads, every        *)
(* initial count and every number of objects a name may come to stand for; *)
(* and the read-write lock for every number of threads.                    *)
(***************************************************************************)
EXTENDS Semaphore, RwLock, FiniteSetTheorems, TLAPS

\* A function changed at one argument.
LEMMA Updated ==
  ASSUME NEW D, NEW R, NEW f \in [D -> R], NEW t \in D, NEW v \in R,
         NEW g, g = [f EXCEPT ![t] = v]
  PROVE  /\ g \in [D -> R] /\ g[t] = v
         /\ \A u \in D : u # t => g[u] = f[u]
BY Zenon

-----------------------------------------------------------------------------
(* Semaphore *)

SmLabels == {"closed", "init", "store", "sem_open", "open", "wait", "post", "wake", "sem_unlink"}
SmHandle == [pc : SmLabels, obj : Nat, ops : Nat, n : Nat]

\* Threads counted in the segment; threads that have the semaphore.
Counted == {t \in SmThreads : sm_p[t].pc \notin {"closed", "sem_unlink"}}
SmUses(t) == sm_p[t].pc \in {"init", "store", "open", "wait", "post", "wake"}
SmOpening(t) == sm_p[t].pc \in {"init", "store"}
SmMid(t) == sm_p[t].pc \in {"init", "store", "sem_open", "sem_unlink"}

\* Threads woken, or about to wake another.
Helpers == {u \in SmThreads : \/ sm_p[u].pc = "wake"
                              \/ sm_p[u].pc = "wait" /\ u \notin sm_queue}

SmTypes ==
  /\ sm_backend \in {"apple", "posix"} /\ sm_raced \in BOOLEAN
  /\ sm_name \in Nat /\ sm_made \in Nat /\ sm_name <= sm_made /\ sm_made <= SmObjs
  /\ sm_val \in [SmObjects -> Nat] /\ sm_posted \in [SmObjects -> Nat]
  /\ sm_taken \in [SmObjects -> Nat]
  /\ sm_queue \in SUBSET SmThreads /\ sm_p \in [SmThreads -> SmHandle]
  /\ sm_refs = Cardinality(Counted)

\* What a handle has, and when it sleeps; an object not yet made is untouched.
SmHas(t) ==
  /\ SmUses(t) => sm_p[t].obj \in 1 .. sm_made
  /\ t \in sm_queue => sm_p[t].pc = "wait"
  /\ SmOpening(t) => sm_backend = "apple"
  /\ sm_p[t].pc \in {"sem_open", "sem_unlink"} => sm_backend = "posix"
SmHeld == \A t \in SmThreads : SmHas(t)
SmUnmade == \A o \in SmObjects : o > sm_made => sm_posted[o] = 0 /\ sm_taken[o] = 0

\* While no open or close has raced: every handle has the object of the name,
\* one thread at a time is opening or closing it, the last closer is alone, as
\* is the opener that stores the count.
SmShared(t) ==
  /\ SmUses(t) => sm_p[t].obj = sm_name
  /\ sm_p[t].pc = "sem_unlink" => Counted = {}
  /\ SmMid(t) => \A u \in SmThreads : SmMid(u) => u = t
  /\ SmOpening(t) /\ Counted = {t} => sm_posted[sm_name] = 0 /\ sm_taken[sm_name] = 0
  /\ sm_p[t].pc = "store" => Counted = {t}
SmAlone == \E t \in SmThreads : SmOpening(t) /\ Counted = {t}

\* The permits add up, except before the first opener has stored the count,
\* and there is a helper for each permit while somebody sleeps.
SmGood == sm_val[sm_name] + sm_taken[sm_name] = SmCount + sm_posted[sm_name]
SmQuiet ==
  /\ \A t \in SmThreads : SmShared(t)
  /\ sm_name # 0 => SmGood \/ SmAlone
  /\ sm_backend = "apple" /\ sm_name # 0 => Counted # {}
  /\ sm_queue # {} => sm_val[sm_name] <= Cardinality(Helpers)

SmInv == SmTypes /\ SmHeld /\ SmUnmade /\ (~sm_raced => SmQuiet)

-----------------------------------------------------------------------------
\* Handles and helpers can be counted.
LEMMA SmFinite ==
  /\ IsFiniteSet(Counted) /\ Cardinality(Counted) \in Nat
  /\ IsFiniteSet(Helpers) /\ Cardinality(Helpers) \in Nat
<1>1. Counted \subseteq SmThreads /\ Helpers \subseteq SmThreads
  BY Zenon DEF Counted, Helpers
<1>2. IsFiniteSet(SmThreads)
  BY SmConstants, Zenon DEF SmConstants
<1>3. IsFiniteSet(Counted) /\ IsFiniteSet(Helpers)
  BY <1>1, <1>2, FS_Subset, Zenon
<1> QED
  BY <1>3, FS_CardinalityType, Zenon

\* A set of at most one thread, that t is in.
LEMMA OnlyOne ==
  ASSUME NEW S, IsFiniteSet(S), NEW t \in S
  PROVE  Cardinality(S) <= 1 <=> S = {t}
<1>1. /\ IsFiniteSet(S \ {t}) /\ Cardinality(S \ {t}) = Cardinality(S) - 1
      /\ Cardinality(S) \in Nat /\ Cardinality(S \ {t}) \in Nat
  <2>1. IsFiniteSet(S \ {t}) /\ Cardinality(S \ {t}) = IF t \in S THEN Cardinality(S) - 1
                                                                  ELSE Cardinality(S)
    BY FS_RemoveElement, Zenon
  <2>2. Cardinality(S) \in Nat /\ Cardinality(S \ {t}) \in Nat
    BY <2>1, FS_CardinalityType, Zenon
  <2> QED
    BY <2>1, <2>2, Zenon
<1>2. Cardinality(S) <= 1 <=> Cardinality(S \ {t}) = 0
  BY <1>1, SMT
<1>3. Cardinality(S \ {t}) = 0 <=> S \ {t} = {}
  BY <1>1, FS_EmptySet, Zenon
<1>4. S \ {t} = {} <=> S = {t}
  BY Zenon
<1> QED
  BY <1>2, <1>3, <1>4, Zenon

\* A call on an open handle: it neither opens nor closes, and what it does to
\* the count is accounted for.
LEMMA SmWork ==
  ASSUME SmInv, NEW t \in SmThreads,
         sm_p[t].pc \in {"open", "wait", "post", "wake"},
         sm_p'[t].pc \in {"open", "wait", "post", "wake"}, sm_p'[t].obj = sm_p[t].obj,
         \A u \in SmThreads : u # t => sm_p'[u] = sm_p[u],
         sm_p' \in [SmThreads -> SmHandle],
         UNCHANGED <<sm_backend, sm_name, sm_refs, sm_made, sm_raced>>,
         sm_val' \in [SmObjects -> Nat], sm_posted' \in [SmObjects -> Nat],
         sm_taken' \in [SmObjects -> Nat],
         \A o \in SmObjects : o # sm_p[t].obj =>
           sm_posted'[o] = sm_posted[o] /\ sm_taken'[o] = sm_taken[o],
         sm_val'[sm_p[t].obj] + sm_taken'[sm_p[t].obj] + sm_posted[sm_p[t].obj]
           = sm_val[sm_p[t].obj] + sm_taken[sm_p[t].obj] + sm_posted'[sm_p[t].obj],
         sm_queue' \in SUBSET SmThreads,
         \A u \in sm_queue' : u \in sm_queue \/ u = t,
         t \in sm_queue' => sm_p'[t].pc = "wait",
         ~sm_raced /\ SmQuiet /\ sm_p[t].obj = sm_name /\ sm_queue' # {} =>
           sm_val'[sm_name] <= Cardinality(Helpers')
  PROVE  SmInv'
<1>0. SmTypes /\ SmHeld /\ SmUnmade
  BY Zenon DEF SmInv
<1>1. /\ SmUses(t) /\ ~SmOpening(t) /\ ~SmMid(t) /\ t \in Counted
      /\ SmUses(t)' /\ ~SmOpening(t)' /\ ~SmMid(t)'
      /\ sm_p'[t].pc \notin {"closed", "sem_open", "sem_unlink"}
  BY Zenon DEF SmUses, SmOpening, SmMid, Counted
<1>2. \A u \in SmThreads : /\ SmUses(u)' <=> SmUses(u)
                           /\ SmOpening(u)' <=> SmOpening(u)
                           /\ SmMid(u)' <=> SmMid(u)
                           /\ sm_p'[u].obj = sm_p[u].obj
                           /\ sm_p'[u].pc = "store" => sm_p[u].pc = "store"
                           /\ sm_p'[u].pc \in {"sem_open", "sem_unlink"} => sm_p'[u].pc = sm_p[u].pc
  BY <1>1, Zenon DEF SmUses, SmOpening, SmMid
<1>3. Counted' = Counted
  <2>1. \A u \in SmThreads :
          sm_p'[u].pc \notin {"closed", "sem_unlink"} <=> sm_p[u].pc \notin {"closed", "sem_unlink"}
    BY Zenon
  <2> QED
    BY <2>1, Zenon DEF Counted
<1>4. SmTypes'
  BY <1>0, <1>3, Zenon DEF SmTypes
<1>5. SmHeld'
  <2> SUFFICES ASSUME NEW u \in SmThreads PROVE SmHas(u)'
    BY Zenon DEF SmHeld
  <2>1. SmHas(u)
    BY <1>0, Zenon DEF SmHeld
  <2>2. u \in sm_queue' => sm_p'[u].pc = "wait"
    BY <2>1, Zenon DEF SmHas
  <2> QED
    BY <1>2, <2>1, <2>2, Zenon DEF SmHas
<1>6. sm_p[t].obj \in 1 .. sm_made /\ sm_made \in Nat /\ sm_made <= SmObjs
  BY <1>0, <1>1, Zenon DEF SmHeld, SmHas, SmTypes
<1>7. SmUnmade'
  <2> SUFFICES ASSUME NEW o \in SmObjects, o > sm_made
               PROVE  sm_posted'[o] = 0 /\ sm_taken'[o] = 0
    BY Zenon DEF SmUnmade
  <2>1. o # sm_p[t].obj
    BY <1>6, SMT DEF SmObjects
  <2> QED
    BY <1>0, <2>1, Zenon DEF SmUnmade
<1>8. ASSUME ~sm_raced PROVE SmQuiet'
  <2>1. SmQuiet /\ (\A u \in SmThreads : SmShared(u)) /\ sm_p[t].obj = sm_name
    BY <1>1, <1>8, Zenon DEF SmInv, SmQuiet, SmShared
  <2>2. \A u \in SmThreads : SmOpening(u) => Counted # {u}
    BY <1>1, Zenon
  <2>3. \A u \in SmThreads : SmShared(u)'
    <3> SUFFICES ASSUME NEW u \in SmThreads PROVE SmShared(u)'
      BY Zenon
    <3>1. SmShared(u)
      BY <2>1, Zenon
    <3>2. SmMid(u)' => \A w \in SmThreads : SmMid(w)' => w = u
      BY <1>2, <3>1, Zenon DEF SmShared
    <3> QED
      BY <1>2, <1>3, <2>2, <3>1, <3>2, Zenon DEF SmShared
  <2>4. SmGood'
    <3>1. sm_name # 0 /\ sm_name \in SmObjects
      BY <1>6, <2>1, SmConstants, SMT DEF SmObjects, SmConstants
    <3>2. SmGood
      BY <2>1, <2>2, <3>1, Zenon DEF SmQuiet, SmAlone
    <3>3. /\ sm_val[sm_name] \in Nat /\ sm_taken[sm_name] \in Nat /\ sm_posted[sm_name] \in Nat
          /\ sm_val'[sm_name] \in Nat /\ sm_taken'[sm_name] \in Nat /\ sm_posted'[sm_name] \in Nat
          /\ SmCount \in Nat /\ sm_name' = sm_name
      BY <1>0, <3>1, SmConstants, Zenon DEF SmTypes, SmConstants
    <3>4. sm_val'[sm_name] + sm_taken'[sm_name] + sm_posted[sm_name]
            = sm_val[sm_name] + sm_taken[sm_name] + sm_posted'[sm_name]
      BY <2>1, Zenon
    <3>5. sm_val'[sm_name] + sm_taken'[sm_name] = SmCount + sm_posted'[sm_name]
      BY <3>2, <3>3, <3>4, SMT DEF SmGood
    <3> QED
      BY <3>3, <3>5, Zenon DEF SmGood
  <2>5. sm_queue' # {} => sm_val'[sm_name] <= Cardinality(Helpers')
    BY <1>8, <2>1, Zenon
  <2> QED
    BY <1>3, <2>1, <2>3, <2>4, <2>5, Zenon DEF SmQuiet
<1> QED
  BY <1>4, <1>5, <1>7, <1>8, Zenon DEF SmInv

\* Counting with one thread more or less.
LEMMA OneMore ==
  ASSUME NEW S, IsFiniteSet(S), NEW x, x \notin S
  PROVE  IsFiniteSet(S \cup {x}) /\ Cardinality(S \cup {x}) = Cardinality(S) + 1
<1>1. /\ IsFiniteSet(S \cup {x})
      /\ Cardinality(S \cup {x}) = IF x \in S THEN Cardinality(S) ELSE Cardinality(S) + 1
  BY FS_AddElement, Zenon
<1> QED
  BY <1>1, Zenon

LEMMA OneLess ==
  ASSUME NEW S, IsFiniteSet(S), NEW x \in S
  PROVE  IsFiniteSet(S \ {x}) /\ Cardinality(S \ {x}) = Cardinality(S) - 1
<1>1. /\ IsFiniteSet(S \ {x})
      /\ Cardinality(S \ {x}) = IF x \in S THEN Cardinality(S) - 1 ELSE Cardinality(S)
  BY FS_RemoveElement, Zenon
<1> QED
  BY <1>1, Zenon

\* A wait takes a permit, or sleeps while there is none.
LEMMA SmInvWait ==
  ASSUME SmInv, NEW t \in SmThreads, SemWait(t)
  PROVE  SmInv'
<1> DEFINE o == sm_p[t].obj
<1>0. SmTypes /\ SmHeld
  BY Zenon DEF SmInv
<1>1. /\ sm_p[t].pc \in {"open", "wait"} /\ t \notin sm_queue
      /\ UNCHANGED <<sm_backend, sm_name, sm_refs, sm_made, sm_posted, sm_raced>>
  BY <1>0, Zenon DEF SemWait, SmAt, SmHeld, SmHas
<1>2. /\ sm_p \in [SmThreads -> SmHandle] /\ sm_p[t] \in SmHandle
      /\ sm_val \in [SmObjects -> Nat] /\ sm_taken \in [SmObjects -> Nat]
      /\ sm_posted \in [SmObjects -> Nat] /\ sm_queue \in SUBSET SmThreads
  BY <1>0, Zenon DEF SmTypes
<1>3. o \in SmObjects
  <2>1. o \in 1 .. sm_made /\ sm_made \in Nat /\ sm_made <= SmObjs
    BY <1>0, <1>1, Zenon DEF SmHeld, SmHas, SmUses, SmTypes
  <2> QED
    BY <2>1, SmConstants, SMT DEF SmObjects, SmConstants
<1>4. sm_val[o] \in Nat /\ sm_taken[o] \in Nat /\ sm_posted[o] \in Nat
  BY <1>2, <1>3, Zenon
<1>5. IsFiniteSet(Helpers) /\ Cardinality(Helpers) \in Nat
  BY SmFinite, Zenon
<1>6. IsFiniteSet(Helpers') /\ Cardinality(Helpers') \in Nat
  <2>1. Helpers' \subseteq SmThreads
    BY Zenon DEF Helpers
  <2> QED
    BY <2>1, SmConstants, FS_Subset, FS_CardinalityType, Zenon DEF SmConstants
<1>7. CASE sm_val[o] > 0
  <2> DEFINE e == [sm_p[t] EXCEPT !.pc = "open", !.ops = @ + 1]
  <2>1. /\ sm_p' = [sm_p EXCEPT ![t] = e] /\ sm_queue' = sm_queue
        /\ sm_val' = [sm_val EXCEPT ![o] = @ - 1] /\ sm_taken' = [sm_taken EXCEPT ![o] = @ + 1]
    <3>1. sm_p' = [sm_p EXCEPT ![t] = e]
      BY <1>7, Zenon DEF SemWait
    <3>2. sm_queue' = sm_queue
      BY <1>7, Zenon DEF SemWait
    <3>3. sm_val' = [sm_val EXCEPT ![o] = @ - 1] /\ sm_taken' = [sm_taken EXCEPT ![o] = @ + 1]
      BY <1>7, Zenon DEF SemWait
    <3> QED
      BY <3>1, <3>2, <3>3, Zenon
  <2>2. e \in SmHandle /\ e.pc = "open" /\ e.obj = o
    <3>1. sm_p[t].ops + 1 \in Nat
      <4>1. sm_p[t].ops \in Nat
        BY <1>2, Zenon DEF SmHandle
      <4> QED
        BY <4>1, SMT
    <3> QED
      BY <1>2, <3>1, Zenon DEF SmHandle, SmLabels
  <2> HIDE DEF e
  <2>3. /\ sm_p' \in [SmThreads -> SmHandle] /\ sm_p'[t] = e
        /\ \A u \in SmThreads : u # t => sm_p'[u] = sm_p[u]
    BY <1>2, <2>1, <2>2, Updated, Zenon
  <2>4. sm_val[o] - 1 \in Nat /\ sm_taken[o] + 1 \in Nat
    BY <1>4, <1>7, SMT
  <2> HIDE DEF o
  <2>5. /\ sm_val' \in [SmObjects -> Nat] /\ sm_val'[o] = sm_val[o] - 1
        /\ sm_taken' \in [SmObjects -> Nat] /\ sm_taken'[o] = sm_taken[o] + 1
        /\ \A x \in SmObjects : x # o => sm_taken'[x] = sm_taken[x]
    <3>1. sm_val' = [sm_val EXCEPT ![o] = sm_val[o] - 1]
      BY <2>1, Zenon
    <3>2. sm_taken' = [sm_taken EXCEPT ![o] = sm_taken[o] + 1]
      BY <2>1, Zenon
    <3>3. sm_val' \in [SmObjects -> Nat] /\ sm_val'[o] = sm_val[o] - 1
      BY <1>2, <1>3, <2>4, <3>1, Updated, Zenon
    <3>4. /\ sm_taken' \in [SmObjects -> Nat] /\ sm_taken'[o] = sm_taken[o] + 1
          /\ \A x \in SmObjects : x # o => sm_taken'[x] = sm_taken[x]
      BY <1>2, <1>3, <2>4, <3>2, Updated, Zenon
    <3> QED
      BY <3>3, <3>4, Zenon
  <2>6. sm_val'[o] + sm_taken'[o] + sm_posted[o] = sm_val[o] + sm_taken[o] + sm_posted'[o]
    <3>1. sm_posted'[o] = sm_posted[o]
      BY <1>1, Zenon
    <3> QED
      BY <1>4, <2>5, <3>1, SMT
  <2>7. sm_p[t].pc = "open" => Helpers' = Helpers
    <3>1. ASSUME sm_p[t].pc = "open", NEW u \in SmThreads PROVE sm_p'[u].pc = sm_p[u].pc
      BY <2>2, <2>3, <3>1, Zenon
    <3> QED
      BY <2>1, <3>1, Zenon DEF Helpers
  <2>8. sm_p[t].pc = "wait" => t \in Helpers /\ Helpers' = Helpers \ {t}
    <3> SUFFICES ASSUME sm_p[t].pc = "wait" PROVE t \in Helpers /\ Helpers' = Helpers \ {t}
      BY Zenon
    <3>1. t \in Helpers
      BY <1>1, Zenon DEF Helpers
    <3>2. \A u \in SmThreads : u \in Helpers' <=> u \in Helpers /\ u # t
      BY <2>1, <2>2, <2>3, Zenon DEF Helpers
    <3>3. Helpers \subseteq SmThreads /\ Helpers' \subseteq SmThreads
      BY Zenon DEF Helpers
    <3> QED
      BY <3>1, <3>2, <3>3, Zenon
  <2>9. ASSUME SmQuiet, o = sm_name, sm_queue # {}
        PROVE  sm_val'[sm_name] <= Cardinality(Helpers')
    <3>1. sm_val[o] <= Cardinality(Helpers)
      BY <2>9, Zenon DEF SmQuiet
    <3>2. Cardinality(Helpers') = Cardinality(Helpers) \/ Cardinality(Helpers') = Cardinality(Helpers) - 1
      BY <1>1, <1>5, <2>7, <2>8, OneLess, Zenon
    <3>3. sm_val'[o] <= Cardinality(Helpers')
      BY <1>4, <1>5, <1>6, <2>5, <3>1, <3>2, SMT
    <3> QED
      BY <2>9, <3>3, Zenon
  <2>10. sm_p'[t].pc = "open" /\ sm_p'[t].obj = sm_p[t].obj /\ o = sm_p[t].obj
    BY <2>2, <2>3, Zenon DEF o
  <2> QED
    BY <1>1, <1>2, <2>1, <2>3, <2>5, <2>6, <2>9, <2>10, SmWork, Zenon
<1>8. CASE ~(sm_val[o] > 0)
  <2> DEFINE e == [sm_p[t] EXCEPT !.pc = "wait"]
  <2>1. sm_p' = [sm_p EXCEPT ![t] = e] /\ sm_queue' = sm_queue \cup {t} /\ UNCHANGED <<sm_val, sm_taken>>
    BY <1>8, Zenon DEF SemWait, SmGoto
  <2>2. e \in SmHandle /\ e.pc = "wait" /\ e.obj = o
    BY <1>2, Zenon DEF SmHandle, SmLabels
  <2> HIDE DEF e
  <2>3. /\ sm_p' \in [SmThreads -> SmHandle] /\ sm_p'[t] = e
        /\ \A u \in SmThreads : u # t => sm_p'[u] = sm_p[u]
    BY <1>2, <2>1, <2>2, Updated, Zenon
  <2>4. sm_val'[o] <= Cardinality(Helpers')
    <3>1. sm_val'[o] = sm_val[o]
      BY <2>1, Zenon
    <3> QED
      BY <1>4, <1>6, <1>8, <3>1, SMT
  <2>5. sm_val'[o] + sm_taken'[o] + sm_posted[o] = sm_val[o] + sm_taken[o] + sm_posted'[o]
    BY <1>1, <2>1, Zenon
  <2>6. sm_p'[t].pc = "wait" /\ sm_p'[t].obj = sm_p[t].obj
    BY <2>2, <2>3, Zenon
  <2>7. sm_queue' \in SUBSET SmThreads /\ \A u \in sm_queue' : u \in sm_queue \/ u = t
    BY <1>2, <2>1, Zenon
  <2> QED
    BY <1>1, <1>2, <2>1, <2>3, <2>4, <2>5, <2>6, <2>7, SmWork, Zenon
<1> QED
  BY <1>7, <1>8, Zenon

\* A wait that times out leaves the kernel's queue, and nothing else.
LEMMA SmInvTimedOut ==
  ASSUME SmInv, NEW t \in SmThreads, SemTimedOut(t)
  PROVE  SmInv'
<1> DEFINE e == [sm_p[t] EXCEPT !.pc = "open", !.ops = @ + 1]
<1>0. SmTypes /\ SmHeld
  BY Zenon DEF SmInv
<1>1. /\ sm_p[t].pc = "wait" /\ t \in sm_queue /\ sm_queue' = sm_queue \ {t}
      /\ sm_p' = [sm_p EXCEPT ![t] = e]
      /\ UNCHANGED <<sm_backend, sm_name, sm_refs, sm_made, sm_val, sm_posted, sm_taken, sm_raced>>
  BY Zenon DEF SemTimedOut, SmAt, sm_counts
<1>2. /\ sm_p \in [SmThreads -> SmHandle] /\ sm_p[t] \in SmHandle
      /\ sm_val \in [SmObjects -> Nat] /\ sm_taken \in [SmObjects -> Nat]
      /\ sm_posted \in [SmObjects -> Nat] /\ sm_queue \in SUBSET SmThreads
  BY <1>0, Zenon DEF SmTypes
<1>3. e \in SmHandle /\ e.pc = "open" /\ e.obj = sm_p[t].obj
  <2>1. sm_p[t].ops \in Nat
    BY <1>2, Zenon DEF SmHandle
  <2>2. sm_p[t].ops + 1 \in Nat
    BY <2>1, SMT
  <2> QED
    BY <1>2, <2>2, Zenon DEF SmHandle, SmLabels
<1> HIDE DEF e
<1>4. /\ sm_p' \in [SmThreads -> SmHandle] /\ sm_p'[t] = e
      /\ \A u \in SmThreads : u # t => sm_p'[u] = sm_p[u]
  BY <1>1, <1>2, <1>3, Updated, Zenon
<1>5. sm_p'[t].pc = "open" /\ sm_p'[t].obj = sm_p[t].obj
  BY <1>3, <1>4, Zenon
<1>6. Helpers' = Helpers
  <2>1. \A u \in SmThreads : u \in Helpers' <=> u \in Helpers
    <3> SUFFICES ASSUME NEW u \in SmThreads PROVE u \in Helpers' <=> u \in Helpers
      BY Zenon
    <3>1. CASE u = t
      BY <1>1, <1>5, <3>1, Zenon DEF Helpers
    <3>2. CASE u # t
      <4>1. sm_p'[u] = sm_p[u] /\ (u \in sm_queue' <=> u \in sm_queue)
        BY <1>1, <1>4, <3>2, Zenon
      <4> QED
        BY <4>1, Zenon DEF Helpers
    <3> QED
      BY <3>1, <3>2, Zenon
  <2>2. Helpers \subseteq SmThreads /\ Helpers' \subseteq SmThreads
    BY Zenon DEF Helpers
  <2> QED
    BY <2>1, <2>2, Zenon
<1>7. SmQuiet /\ sm_queue' # {} => sm_val'[sm_name] <= Cardinality(Helpers')
  BY <1>1, <1>6, Zenon DEF SmQuiet
<1>8. sm_queue' \in SUBSET SmThreads /\ t \notin sm_queue' /\ \A u \in sm_queue' : u \in sm_queue
  BY <1>1, <1>2, Zenon
<1> QED
  BY <1>1, <1>2, <1>4, <1>5, <1>7, <1>8, SmWork, Zenon

\* A post brings a permit and the helper for it.
LEMMA SmInvPost ==
  ASSUME SmInv, NEW t \in SmThreads, SemPost(t)
  PROVE  SmInv'
<1> DEFINE o == sm_p[t].obj
<1>0. SmTypes /\ SmHeld
  BY Zenon DEF SmInv
<1>1. /\ sm_p[t].pc \in {"open", "post"}
      /\ sm_val' = [sm_val EXCEPT ![o] = sm_val[o] + 1]
      /\ sm_posted' = [sm_posted EXCEPT ![o] = sm_posted[o] + 1]
      /\ UNCHANGED <<sm_backend, sm_name, sm_refs, sm_made, sm_taken, sm_queue, sm_raced>>
  BY Zenon DEF SemPost, SmAt
<1>2. /\ sm_p \in [SmThreads -> SmHandle] /\ sm_p[t] \in SmHandle
      /\ sm_val \in [SmObjects -> Nat] /\ sm_taken \in [SmObjects -> Nat]
      /\ sm_posted \in [SmObjects -> Nat] /\ sm_queue \in SUBSET SmThreads
  BY <1>0, Zenon DEF SmTypes
<1>3. o \in SmObjects
  <2>1. o \in 1 .. sm_made /\ sm_made \in Nat /\ sm_made <= SmObjs
    BY <1>0, <1>1, Zenon DEF SmHeld, SmHas, SmUses, SmTypes
  <2> QED
    BY <2>1, SmConstants, SMT DEF SmObjects, SmConstants
<1>4. /\ sm_val[o] \in Nat /\ sm_taken[o] \in Nat /\ sm_posted[o] \in Nat
      /\ sm_p[t].ops \in Nat /\ sm_p[t].n \in Nat
  BY <1>2, <1>3, Zenon DEF SmHandle
<1>5. PICK n \in Nat, k \in Nat : sm_p' = [sm_p EXCEPT ![t] = [sm_p[t] EXCEPT !.pc = "wake", !.n = n, !.ops = k]]
  <2>1. PICK n \in IF SmAt(t, "open") THEN 0 .. 1 ELSE {sm_p[t].n - 1} :
          sm_p' = [sm_p EXCEPT ![t] = [sm_p[t] EXCEPT !.pc = "wake", !.n = n,
                     !.ops = IF SmAt(t, "open") THEN @ + 1 ELSE @]]
    BY Zenon DEF SemPost
  <2>2. CASE SmAt(t, "open")
    <3>1. n \in 0 .. 1 /\ sm_p' = [sm_p EXCEPT ![t] = [sm_p[t] EXCEPT !.pc = "wake", !.n = n,
                                                                    !.ops = sm_p[t].ops + 1]]
      BY <2>1, <2>2, Zenon
    <3>2. n \in Nat /\ sm_p[t].ops + 1 \in Nat
      BY <1>4, <3>1, SMT
    <3> QED
      BY <3>1, <3>2, Zenon
  <2>3. CASE ~SmAt(t, "open")
    <3>1. n = sm_p[t].n - 1 /\ sm_p' = [sm_p EXCEPT ![t] = [sm_p[t] EXCEPT !.pc = "wake", !.n = n,
                                                                       !.ops = sm_p[t].ops]]
      BY <2>1, <2>3, Zenon
    <3>2. sm_p[t].n > 0
      BY <2>3, Zenon DEF SemPost
    <3>3. n \in Nat
      BY <1>4, <3>1, <3>2, SMT
    <3> QED
      BY <1>4, <3>1, <3>3, Zenon
  <2> QED
    BY <2>2, <2>3, Zenon
<1> DEFINE e == [sm_p[t] EXCEPT !.pc = "wake", !.n = n, !.ops = k]
<1>6. e \in SmHandle /\ e.pc = "wake" /\ e.obj = o
  BY <1>2, <1>5, Zenon DEF SmHandle, SmLabels
<1> HIDE DEF e
<1>7. /\ sm_p' \in [SmThreads -> SmHandle] /\ sm_p'[t] = e
      /\ \A u \in SmThreads : u # t => sm_p'[u] = sm_p[u]
  <2>1. sm_p' = [sm_p EXCEPT ![t] = e]
    BY <1>5, Zenon DEF e
  <2> QED
    BY <1>2, <1>6, <2>1, Updated, Zenon
<1>8. sm_p'[t].pc = "wake" /\ sm_p'[t].obj = sm_p[t].obj
  BY <1>6, <1>7, Zenon
<1>9. sm_val[o] + 1 \in Nat /\ sm_posted[o] + 1 \in Nat
  BY <1>4, SMT
<1>10. o = sm_p[t].obj
  BY Zenon
<1> HIDE DEF o
<1>11. sm_val' \in [SmObjects -> Nat] /\ sm_val'[o] = sm_val[o] + 1
  BY <1>1, <1>2, <1>3, <1>9, Updated, Zenon
<1>12. /\ sm_posted' \in [SmObjects -> Nat] /\ sm_posted'[o] = sm_posted[o] + 1
       /\ \A x \in SmObjects : x # o => sm_posted'[x] = sm_posted[x]
  BY <1>1, <1>2, <1>3, <1>9, Updated, Zenon
<1>13. sm_val'[o] + sm_taken'[o] + sm_posted[o] = sm_val[o] + sm_taken[o] + sm_posted'[o]
  <2>1. sm_taken'[o] = sm_taken[o]
    BY <1>1, Zenon
  <2> QED
    BY <1>4, <1>11, <1>12, <2>1, SMT
<1>14. t \notin Helpers /\ Helpers' = Helpers \cup {t}
  <2>1. \A u \in SmThreads : u \in Helpers' <=> u \in Helpers \/ u = t
    BY <1>1, <1>7, <1>8, Zenon DEF Helpers
  <2>2. Helpers \subseteq SmThreads /\ Helpers' \subseteq SmThreads /\ t \notin Helpers
    BY <1>1, Zenon DEF Helpers
  <2> QED
    BY <2>1, <2>2, Zenon
<1>15. Cardinality(Helpers') = Cardinality(Helpers) + 1 /\ Cardinality(Helpers) \in Nat
  BY <1>14, SmFinite, OneMore, Zenon
<1>16. ASSUME SmQuiet, o = sm_name, sm_queue # {}
       PROVE  sm_val'[sm_name] <= Cardinality(Helpers')
  <2>1. sm_val[o] <= Cardinality(Helpers)
    BY <1>16, Zenon DEF SmQuiet
  <2>2. sm_val'[o] <= Cardinality(Helpers')
    BY <1>4, <1>11, <1>15, <2>1, SMT
  <2> QED
    BY <1>16, <2>2, Zenon
<1>17. t \notin sm_queue
  BY <1>0, <1>1, Zenon DEF SmHeld, SmHas
<1> QED
  BY <1>1, <1>2, <1>7, <1>8, <1>10, <1>11, <1>12, <1>13, <1>16, <1>17, SmWork, Zenon

\* The wake passes the part of helper on to a sleeper, if there is one.
LEMMA SmInvPostWake ==
  ASSUME SmInv, NEW t \in SmThreads, SemPostWake(t)
  PROVE  SmInv'
<1>0. SmTypes /\ SmHeld
  BY Zenon DEF SmInv
<1>1. /\ sm_p[t].pc = "wake"
      /\ UNCHANGED <<sm_backend, sm_name, sm_refs, sm_made, sm_val, sm_posted, sm_taken, sm_raced>>
  BY Zenon DEF SemPostWake, SmAt, sm_counts
<1>2. /\ sm_p \in [SmThreads -> SmHandle] /\ sm_p[t] \in SmHandle
      /\ sm_val \in [SmObjects -> Nat] /\ sm_taken \in [SmObjects -> Nat]
      /\ sm_posted \in [SmObjects -> Nat] /\ sm_queue \in SUBSET SmThreads
  BY <1>0, Zenon DEF SmTypes
<1>3. PICK l \in {"post", "open"} : sm_p' = [sm_p EXCEPT ![t] = [sm_p[t] EXCEPT !.pc = l]]
  BY Zenon DEF SemPostWake, SmGoto
<1> DEFINE e == [sm_p[t] EXCEPT !.pc = l]
<1>4. e \in SmHandle /\ e.pc \in {"post", "open"} /\ e.obj = sm_p[t].obj
  BY <1>2, <1>3, Zenon DEF SmHandle, SmLabels
<1> HIDE DEF e
<1>5. /\ sm_p' \in [SmThreads -> SmHandle] /\ sm_p'[t] = e
      /\ \A u \in SmThreads : u # t => sm_p'[u] = sm_p[u]
  <2>1. sm_p' = [sm_p EXCEPT ![t] = e]
    BY <1>3, Zenon DEF e
  <2> QED
    BY <1>2, <1>4, <2>1, Updated, Zenon
<1>6. sm_p'[t].pc \in {"post", "open"} /\ sm_p'[t].obj = sm_p[t].obj
  BY <1>4, <1>5, Zenon
<1>7. \/ sm_queue' = sm_queue /\ \A u \in sm_queue : sm_p[u].obj # sm_p[t].obj
      \/ \E u \in sm_queue : sm_queue' = sm_queue \ {u}
  BY Zenon DEF SemPostWake
<1>8. /\ sm_queue' \in SUBSET SmThreads /\ sm_queue' \subseteq sm_queue /\ t \notin sm_queue'
      /\ t \notin sm_queue
  BY <1>0, <1>1, <1>2, <1>7, Zenon DEF SmHeld, SmHas
<1>9. ASSUME SmQuiet, sm_p[t].obj = sm_name, sm_queue' # {}
      PROVE  sm_val'[sm_name] <= Cardinality(Helpers')
  <2>1. \A u \in sm_queue : sm_p[u].obj = sm_p[t].obj
    BY <1>0, <1>2, <1>9, Zenon DEF SmHeld, SmHas, SmQuiet, SmShared, SmUses
  <2>2. PICK u \in sm_queue : sm_queue' = sm_queue \ {u}
    BY <1>7, <1>8, <1>9, <2>1, Zenon
  <2>3. t \in Helpers /\ u \notin Helpers /\ u # t /\ u \in SmThreads
    BY <1>0, <1>1, <1>2, <1>8, <2>2, Zenon DEF Helpers, SmHeld, SmHas
  <2>4. Helpers' = (Helpers \ {t}) \cup {u}
    <3>1. \A w \in SmThreads : w \in Helpers' <=> (w \in Helpers /\ w # t) \/ w = u
      <4> SUFFICES ASSUME NEW w \in SmThreads
                   PROVE  w \in Helpers' <=> (w \in Helpers /\ w # t) \/ w = u
        BY Zenon
      <4>1. CASE w = t
        BY <1>6, <2>3, <4>1, Zenon DEF Helpers
      <4>2. CASE w = u
        <5>1. sm_p'[u].pc = "wait" /\ u \notin sm_queue'
          BY <1>0, <1>5, <2>2, <2>3, Zenon DEF SmHeld, SmHas
        <5> QED
          BY <2>3, <4>2, <5>1, Zenon DEF Helpers
      <4>3. CASE w # t /\ w # u
        <5>1. sm_p'[w] = sm_p[w] /\ (w \in sm_queue' <=> w \in sm_queue)
          BY <1>5, <2>2, <4>3, Zenon
        <5> QED
          BY <4>3, <5>1, Zenon DEF Helpers
      <4> QED
        BY <4>1, <4>2, <4>3, Zenon
    <3>2. Helpers \subseteq SmThreads /\ Helpers' \subseteq SmThreads
      BY Zenon DEF Helpers
    <3> QED
      BY <2>3, <3>1, <3>2, Zenon
  <2>5. Cardinality(Helpers') = Cardinality(Helpers)
    <3>1. /\ IsFiniteSet(Helpers) /\ Cardinality(Helpers) \in Nat
          /\ IsFiniteSet(Helpers \ {t}) /\ Cardinality(Helpers \ {t}) = Cardinality(Helpers) - 1
      BY <2>3, SmFinite, OneLess, Zenon
    <3>2. u \notin Helpers \ {t}
      BY <2>3, Zenon
    <3>3. Cardinality((Helpers \ {t}) \cup {u}) = Cardinality(Helpers \ {t}) + 1
      BY <3>1, <3>2, OneMore, Zenon
    <3> QED
      BY <2>4, <3>1, <3>3, SMT
  <2>6. sm_val[sm_name] <= Cardinality(Helpers)
    BY <1>9, <2>2, Zenon DEF SmQuiet
  <2> QED
    BY <1>1, <2>5, <2>6, Zenon
<1> QED
  BY <1>1, <1>2, <1>5, <1>6, <1>8, <1>9, SmWork, Zenon

-----------------------------------------------------------------------------
\* Opening and closing: who is counted, and who helps, when t moves.
LEMMA SmRolls ==
  ASSUME NEW t \in SmThreads, \A u \in SmThreads : u # t => sm_p'[u] = sm_p[u],
         sm_queue' = sm_queue,
         sm_p[t].pc \notin {"wait", "wake"}, sm_p'[t].pc \notin {"wait", "wake"}
  PROVE  /\ Helpers' = Helpers
         /\ sm_p'[t].pc \in {"closed", "sem_unlink"} => Counted' = Counted \ {t}
         /\ sm_p'[t].pc \notin {"closed", "sem_unlink"} => Counted' = Counted \cup {t}
<1>1. \A u \in SmThreads : u \in Helpers' <=> u \in Helpers
  BY Zenon DEF Helpers
<1>2. \A u \in SmThreads : u # t => (u \in Counted' <=> u \in Counted)
  BY Zenon DEF Counted
<1>3. t \in Counted' <=> sm_p'[t].pc \notin {"closed", "sem_unlink"}
  BY Zenon DEF Counted
<1>4. /\ Helpers \subseteq SmThreads /\ Helpers' \subseteq SmThreads
      /\ Counted \subseteq SmThreads /\ Counted' \subseteq SmThreads
  BY Zenon DEF Helpers, Counted
<1>5. Helpers' = Helpers
  BY <1>1, <1>4, Zenon
<1>6. ASSUME t \notin Counted' PROVE Counted' = Counted \ {t}
  BY <1>2, <1>4, <1>6, Zenon
<1>7. ASSUME t \in Counted' PROVE Counted' = Counted \cup {t}
  BY <1>2, <1>4, <1>7, Zenon
<1> QED
  BY <1>3, <1>5, <1>6, <1>7, Zenon

\* While nothing raced, who sleeps or is counted has the object of the name.
LEMMA SmNamed ==
  ASSUME SmInv, ~sm_raced
  PROVE  /\ \A u \in SmThreads : SmUses(u) => sm_p[u].obj = sm_name /\ sm_name # 0
         /\ \A u \in sm_queue : u \in Counted /\ sm_p[u].pc = "wait" /\ u \in SmThreads
         /\ sm_queue # {} => sm_name # 0
         /\ sm_backend = "apple" => \A u \in Counted : SmUses(u)
         /\ sm_backend = "posix" => ~SmAlone
<1>1. SmTypes /\ SmHeld /\ SmQuiet
  BY Zenon DEF SmInv
<1>2. \A u \in SmThreads : SmUses(u) => sm_p[u].obj = sm_name
  BY <1>1, Zenon DEF SmQuiet, SmShared
<1>3. \A u \in SmThreads : SmUses(u) => sm_name # 0
  <2> SUFFICES ASSUME NEW u \in SmThreads, SmUses(u) PROVE sm_name # 0
    BY Zenon
  <2>1. sm_name \in 1 .. sm_made /\ sm_made \in Nat
    BY <1>1, <1>2, Zenon DEF SmHeld, SmHas, SmTypes
  <2> QED
    BY <2>1, SMT
<1>4. \A u \in sm_queue : u \in SmThreads /\ sm_p[u].pc = "wait"
  BY <1>1, Zenon DEF SmHeld, SmHas, SmTypes
<1>5. \A u \in sm_queue : u \in Counted /\ SmUses(u)
  BY <1>4, Zenon DEF Counted, SmUses
<1>6. sm_backend = "apple" => \A u \in Counted : SmUses(u)
  <2> SUFFICES ASSUME sm_backend = "apple", NEW u \in Counted PROVE SmUses(u)
    BY Zenon
  <2>1. u \in SmThreads /\ sm_p[u].pc \in SmLabels /\ sm_p[u].pc \notin {"closed", "sem_unlink"}
    BY <1>1, Zenon DEF Counted, SmTypes, SmHandle
  <2>2. sm_p[u].pc # "sem_open"
    BY <1>1, <2>1, Zenon DEF SmHeld, SmHas
  <2> QED
    BY <2>1, <2>2, Zenon DEF SmUses, SmLabels
<1>7. sm_backend = "posix" => ~SmAlone
  BY <1>1, Zenon DEF SmAlone, SmHeld, SmHas
<1> QED
  BY <1>2, <1>3, <1>4, <1>5, <1>6, <1>7, Zenon

\* The segment is acquired while nobody else opens or closes.
LEMMA SmInvAcquire ==
  ASSUME SmInv, NEW t \in SmThreads, SemAcquire(t)
  PROVE  SmInv'
<1> DEFINE o == IF sm_name # 0 THEN sm_name ELSE sm_made + 1
           e == IF sm_backend = "apple"
                THEN [SmClosed EXCEPT !.pc = "init", !.obj = o, !.ops = sm_p[t].ops + 1]
                ELSE [sm_p[t] EXCEPT !.pc = "sem_open", !.ops = @ + 1]
<1>0. SmTypes /\ SmHeld /\ SmUnmade
  BY Zenon DEF SmInv
<1>1. /\ sm_p[t].pc = "closed" /\ sm_refs' = sm_refs + 1
      /\ sm_raced' = (sm_raced \/ SmBetween(t)) /\ sm_p' = [sm_p EXCEPT ![t] = e]
      /\ UNCHANGED <<sm_backend, sm_val, sm_posted, sm_taken, sm_queue>>
  BY Zenon DEF SemAcquire, SmAt, sm_counts
<1>2. /\ sm_backend = "apple" => /\ o \in SmObjects /\ sm_name' = o
                                 /\ sm_made' = IF sm_name = 0 THEN o ELSE sm_made
      /\ sm_backend # "apple" => UNCHANGED <<sm_name, sm_made>>
  BY Zenon DEF SemAcquire
<1>3. /\ sm_p \in [SmThreads -> SmHandle] /\ sm_p[t] \in SmHandle /\ sm_p[t].ops \in Nat
      /\ sm_name \in Nat /\ sm_made \in Nat /\ sm_name <= sm_made /\ sm_made <= SmObjs
      /\ sm_backend \in {"apple", "posix"}
  BY <1>0, Zenon DEF SmTypes, SmHandle
<1>4. /\ o \in Nat /\ o # 0 /\ sm_p[t].ops + 1 \in Nat
      /\ sm_name' \in Nat /\ sm_made' \in Nat /\ sm_name' <= sm_made' /\ sm_made' <= SmObjs
      /\ sm_made <= sm_made'
      /\ sm_name # 0 => sm_name' = sm_name
      /\ sm_backend = "apple" => sm_name' \in 1 .. sm_made'
      /\ sm_backend = "apple" /\ sm_name = 0 => sm_name' > sm_made /\ sm_name' \in SmObjects
  <2>1. CASE sm_backend = "apple"
    BY <1>2, <1>3, <2>1, SMT DEF SmObjects
  <2>2. CASE sm_backend # "apple"
    BY <1>2, <1>3, <2>2, SMT
  <2> QED
    BY <2>1, <2>2, Zenon
<1>5. /\ e \in SmHandle /\ e.pc = (IF sm_backend = "apple" THEN "init" ELSE "sem_open")
      /\ sm_backend = "apple" => e.obj = sm_name'
  <2>0. 0 \in Nat
    BY SMT
  <2>1. CASE sm_backend = "apple"
    <3>1. e = [pc |-> "init", obj |-> o, ops |-> sm_p[t].ops + 1, n |-> 0]
      BY <2>1, Zenon DEF SmClosed
    <3> QED
      BY <1>2, <1>4, <2>0, <2>1, <3>1, Zenon DEF SmHandle, SmLabels
  <2>2. CASE sm_backend # "apple"
    <3>1. e = [sm_p[t] EXCEPT !.pc = "sem_open", !.ops = @ + 1]
      BY <2>2, Zenon
    <3> QED
      BY <1>3, <1>4, <2>2, <3>1, Zenon DEF SmHandle, SmLabels
  <2> QED
    BY <2>1, <2>2, Zenon
<1> HIDE DEF e, o
<1>6. /\ sm_p' \in [SmThreads -> SmHandle] /\ sm_p'[t] = e
      /\ \A u \in SmThreads : u # t => sm_p'[u] = sm_p[u]
  BY <1>1, <1>3, <1>5, Updated, Zenon
<1>7. /\ sm_p'[t].pc \in {"init", "sem_open"}
      /\ sm_p'[t].pc = "init" <=> sm_backend = "apple"
      /\ sm_p'[t].pc = "init" => sm_p'[t].obj = sm_name'
  BY <1>5, <1>6, Zenon
<1>8. t \notin Counted /\ Helpers' = Helpers /\ Counted' = Counted \cup {t}
  <2>1. t \notin Counted
    BY <1>1, Zenon DEF Counted
  <2> QED
    BY <1>1, <1>6, <1>7, <2>1, SmRolls, Zenon
<1>9. SmTypes'
  <2>1. sm_refs' = Cardinality(Counted')
    BY <1>0, <1>1, <1>8, SmFinite, OneMore, Zenon DEF SmTypes
  <2>2. sm_raced' \in BOOLEAN
    BY <1>0, <1>1, Zenon DEF SmTypes, SmBetween
  <2> QED
    BY <1>0, <1>1, <1>4, <1>6, <2>1, <2>2, Zenon DEF SmTypes
<1>10. SmHeld'
  <2> SUFFICES ASSUME NEW u \in SmThreads PROVE SmHas(u)'
    BY Zenon DEF SmHeld
  <2>1. SmHas(u)
    BY <1>0, Zenon DEF SmHeld
  <2>2. CASE u = t
    <3>1. t \notin sm_queue'
      BY <1>1, <2>1, <2>2, Zenon DEF SmHas
    <3>2. SmUses(t)' => sm_p'[t].obj \in 1 .. sm_made'
      BY <1>4, <1>7, Zenon DEF SmUses
    <3> QED
      BY <1>1, <1>3, <1>7, <2>2, <3>1, <3>2, Zenon DEF SmHas, SmOpening
  <2>3. CASE u # t
    <3>1. sm_p'[u] = sm_p[u]
      BY <1>6, <2>3, Zenon
    <3>2. SmUses(u) => sm_p[u].obj \in 1 .. sm_made'
      <4>1. SmUses(u) => sm_p[u].obj \in 1 .. sm_made
        BY <2>1, Zenon DEF SmHas
      <4> QED
        BY <1>3, <1>4, <4>1, SMT
    <3> QED
      BY <1>1, <2>1, <3>1, <3>2, Zenon DEF SmHas, SmUses, SmOpening
  <2> QED
    BY <2>2, <2>3, Zenon
<1>11. SmUnmade'
  <2> SUFFICES ASSUME NEW x \in SmObjects, x > sm_made' PROVE sm_posted[x] = 0 /\ sm_taken[x] = 0
    BY <1>1, Zenon DEF SmUnmade
  <2>1. x > sm_made
    BY <1>3, <1>4, SmConstants, SMT DEF SmObjects, SmConstants
  <2> QED
    BY <1>0, <2>1, Zenon DEF SmUnmade
<1>12. ASSUME ~sm_raced' PROVE SmQuiet'
  <2>1. ~sm_raced /\ SmQuiet /\ \A u \in SmThreads : u # t => ~SmMid(u)
    BY <1>1, <1>12, Zenon DEF SmInv, SmBetween, SmMid
  <2>2. \A u \in SmThreads : u # t => ~SmMid(u)' /\ (SmUses(u)' => sm_p'[u].obj = sm_name')
    <3> SUFFICES ASSUME NEW u \in SmThreads, u # t
                 PROVE  ~SmMid(u)' /\ (SmUses(u)' => sm_p'[u].obj = sm_name')
      BY Zenon
    <3>1. sm_p'[u] = sm_p[u] /\ ~SmMid(u)
      BY <1>6, <2>1, Zenon
    <3>2. SmUses(u) => sm_p[u].obj = sm_name /\ sm_name # 0
      BY <2>1, SmNamed, Zenon
    <3>3. SmUses(u) => sm_p[u].obj = sm_name'
      BY <1>4, <3>2, Zenon
    <3> QED
      BY <3>1, <3>3, Zenon DEF SmMid, SmUses
  <2>3. sm_backend = "apple" /\ sm_name = 0 => Counted = {}
    BY <2>1, SmNamed, Zenon DEF Counted
  <2>4. sm_backend = "apple" /\ Counted' = {t} => sm_posted'[sm_name'] = 0 /\ sm_taken'[sm_name'] = 0
    <3> SUFFICES ASSUME sm_backend = "apple", Counted' = {t}
                 PROVE  sm_posted[sm_name'] = 0 /\ sm_taken[sm_name'] = 0
      BY <1>1, Zenon
    <3>1. sm_name = 0
      BY <1>8, <2>1, Zenon DEF SmQuiet
    <3> QED
      BY <1>0, <1>4, <3>1, Zenon DEF SmUnmade
  <2>5. \A u \in SmThreads : SmShared(u)'
    <3> SUFFICES ASSUME NEW u \in SmThreads PROVE SmShared(u)'
      BY Zenon
    <3>1. CASE u = t
      BY <1>1, <1>7, <2>2, <2>4, <3>1, Zenon DEF SmShared, SmUses, SmOpening
    <3>2. CASE u # t
      BY <2>2, <3>2, Zenon DEF SmShared, SmOpening, SmMid
    <3> QED
      BY <3>1, <3>2, Zenon
  <2>6. sm_name' # 0 => SmGood' \/ SmAlone'
    <3>1. CASE sm_name # 0
      <4>1. ~SmAlone
        BY <1>1, <2>1, Zenon DEF SmAlone, SmOpening, SmMid
      <4>2. SmGood
        BY <2>1, <3>1, <4>1, Zenon DEF SmQuiet
      <4> QED
        BY <1>1, <1>4, <3>1, <4>2, Zenon DEF SmGood
    <3>2. CASE sm_name = 0
      <4>1. sm_backend = "apple" => SmAlone'
        BY <1>7, <1>8, <2>3, <3>2, Zenon DEF SmAlone, SmOpening
      <4>2. sm_backend # "apple" => sm_name' = 0
        BY <1>2, <3>2, Zenon
      <4> QED
        BY <4>1, <4>2, Zenon
    <3> QED
      BY <3>1, <3>2, Zenon
  <2>7. sm_queue' # {} => sm_val'[sm_name'] <= Cardinality(Helpers')
    <3> SUFFICES ASSUME sm_queue # {} PROVE sm_val[sm_name'] <= Cardinality(Helpers)
      BY <1>1, <1>8, Zenon
    <3>1. sm_name' = sm_name
      BY <1>4, <2>1, SmNamed, Zenon
    <3> QED
      BY <2>1, <3>1, Zenon DEF SmQuiet
  <2>8. Counted' # {}
    BY <1>8, Zenon
  <2> QED
    BY <2>5, <2>6, <2>7, <2>8, Zenon DEF SmQuiet
<1> QED
  BY <1>9, <1>10, <1>11, <1>12, Zenon DEF SmInv

\* The check for the only handle.
LEMMA SmInvInitCheck ==
  ASSUME SmInv, NEW t \in SmThreads, SemInitCheck(t)
  PROVE  SmInv'
<1> DEFINE l == IF sm_refs <= 1 THEN "store" ELSE "open"
           e == [sm_p[t] EXCEPT !.pc = l]
<1>0. SmTypes /\ SmHeld /\ SmUnmade
  BY Zenon DEF SmInv
<1>1. /\ sm_p[t].pc = "init" /\ sm_p' = [sm_p EXCEPT ![t] = e]
      /\ UNCHANGED <<sm_backend, sm_name, sm_refs, sm_made, sm_val, sm_posted, sm_taken, sm_queue,
                     sm_raced>>
  BY Zenon DEF SemInitCheck, SmAt, SmGoto, sm_counts
<1>2. sm_p \in [SmThreads -> SmHandle] /\ sm_p[t] \in SmHandle
  BY <1>0, Zenon DEF SmTypes
<1>3. e \in SmHandle /\ e.pc = l /\ e.obj = sm_p[t].obj /\ l \in {"store", "open"}
  BY <1>2, Zenon DEF SmHandle, SmLabels
<1>4. t \in Counted /\ (l = "store" <=> Counted = {t})
  <2>1. t \in Counted
    BY <1>1, Zenon DEF Counted
  <2>2. sm_refs <= 1 <=> Counted = {t}
    BY <1>0, <2>1, SmFinite, OnlyOne, Zenon DEF SmTypes
  <2> QED
    BY <2>1, <2>2, Zenon
<1> HIDE DEF e, l
<1>5. /\ sm_p' \in [SmThreads -> SmHandle] /\ sm_p'[t] = e
      /\ \A u \in SmThreads : u # t => sm_p'[u] = sm_p[u]
  BY <1>1, <1>2, <1>3, Updated, Zenon
<1>6. /\ sm_p'[t].pc \in {"store", "open"} /\ sm_p'[t].obj = sm_p[t].obj
      /\ sm_p'[t].pc = "store" <=> Counted = {t}
  BY <1>3, <1>4, <1>5, Zenon
<1>7. Helpers' = Helpers /\ Counted' = Counted
  <2>1. Helpers' = Helpers /\ Counted' = Counted \cup {t}
    BY <1>1, <1>5, <1>6, SmRolls, Zenon
  <2> QED
    BY <1>4, <2>1, Zenon
<1>8. SmTypes'
  BY <1>0, <1>1, <1>5, <1>7, Zenon DEF SmTypes
<1>9. \A u \in SmThreads : /\ SmUses(u)' <=> SmUses(u)
                           /\ SmOpening(u)' => SmOpening(u)
                           /\ SmMid(u)' => SmMid(u)
                           /\ sm_p'[u].obj = sm_p[u].obj
                           /\ u # t => sm_p'[u] = sm_p[u]
  BY <1>1, <1>5, <1>6, Zenon DEF SmUses, SmOpening, SmMid
<1>10. SmHeld'
  <2> SUFFICES ASSUME NEW u \in SmThreads PROVE SmHas(u)'
    BY Zenon DEF SmHeld
  <2>1. SmHas(u)
    BY <1>0, Zenon DEF SmHeld
  <2>2. u \in sm_queue' => u # t
    BY <1>1, <2>1, Zenon DEF SmHas
  <2>3. sm_p'[u].pc \in {"sem_open", "sem_unlink"} => u # t
    BY <1>6, Zenon
  <2> QED
    BY <1>1, <1>9, <2>1, <2>2, <2>3, Zenon DEF SmHas
<1>11. SmUnmade'
  BY <1>0, <1>1, Zenon DEF SmUnmade
<1>12. ASSUME ~sm_raced PROVE SmQuiet'
  <2>1. SmQuiet
    BY <1>12, Zenon DEF SmInv
  <2>2. \A u \in SmThreads : SmShared(u)'
    <3> SUFFICES ASSUME NEW u \in SmThreads PROVE SmShared(u)'
      BY Zenon
    <3>1. SmShared(u)
      BY <2>1, Zenon DEF SmQuiet
    <3>2. SmMid(u)' => \A w \in SmThreads : SmMid(w)' => w = u
      BY <1>9, <3>1, Zenon DEF SmShared
    <3>3. sm_p'[u].pc = "sem_unlink" => sm_p[u].pc = "sem_unlink"
      BY <1>6, <1>9, Zenon
    <3>4. sm_p'[u].pc = "store" => Counted = {u}
      BY <1>6, <1>9, <3>1, Zenon DEF SmShared
    <3> QED
      BY <1>1, <1>7, <1>9, <3>1, <3>2, <3>3, <3>4, Zenon DEF SmShared
  <2>3. sm_name' # 0 => SmGood' \/ SmAlone'
    <3>1. CASE Counted = {t}
      BY <1>6, <1>7, <3>1, Zenon DEF SmAlone, SmOpening
    <3>2. CASE Counted # {t}
      <4>1. ~SmAlone
        BY <1>4, <3>2, Zenon DEF SmAlone
      <4> QED
        BY <1>1, <2>1, <4>1, Zenon DEF SmQuiet, SmGood
    <3> QED
      BY <3>1, <3>2, Zenon
  <2>4. /\ sm_backend' = "apple" /\ sm_name' # 0 => Counted' # {}
        /\ sm_queue' # {} => sm_val'[sm_name'] <= Cardinality(Helpers')
    BY <1>1, <1>7, <2>1, Zenon DEF SmQuiet
  <2> QED
    BY <2>2, <2>3, <2>4, Zenon DEF SmQuiet
<1> QED
  BY <1>1, <1>8, <1>10, <1>11, <1>12, Zenon DEF SmInv

\* The store of the initial count.
LEMMA SmInvInitStore ==
  ASSUME SmInv, NEW t \in SmThreads, SemInitStore(t)
  PROVE  SmInv'
<1> DEFINE o == sm_p[t].obj
           e == [sm_p[t] EXCEPT !.pc = "open"]
<1>0. SmTypes /\ SmHeld /\ SmUnmade
  BY Zenon DEF SmInv
<1>1. /\ sm_p[t].pc = "store" /\ sm_p' = [sm_p EXCEPT ![t] = e]
      /\ sm_val' = [sm_val EXCEPT ![o] = SmCount]
      /\ UNCHANGED <<sm_backend, sm_name, sm_refs, sm_made, sm_posted, sm_taken, sm_queue, sm_raced>>
  BY Zenon DEF SemInitStore, SmAt, SmGoto
<1>2. /\ sm_p \in [SmThreads -> SmHandle] /\ sm_p[t] \in SmHandle
      /\ sm_val \in [SmObjects -> Nat] /\ SmCount \in Nat
  BY <1>0, SmConstants, Zenon DEF SmTypes, SmConstants
<1>3. e \in SmHandle /\ e.pc = "open" /\ e.obj = o
  BY <1>2, Zenon DEF SmHandle, SmLabels
<1>4. o \in SmObjects
  <2>1. o \in 1 .. sm_made /\ sm_made \in Nat /\ sm_made <= SmObjs
    BY <1>0, <1>1, Zenon DEF SmHeld, SmHas, SmUses, SmTypes
  <2> QED
    BY <2>1, SmConstants, SMT DEF SmObjects, SmConstants
<1>5. t \in Counted
  BY <1>1, Zenon DEF Counted
<1>6. o = sm_p[t].obj
  BY Zenon
<1> HIDE DEF e, o
<1>7. /\ sm_p' \in [SmThreads -> SmHandle] /\ sm_p'[t] = e
      /\ \A u \in SmThreads : u # t => sm_p'[u] = sm_p[u]
  BY <1>1, <1>2, <1>3, Updated, Zenon
<1>8. sm_val' \in [SmObjects -> Nat] /\ sm_val'[o] = SmCount
  BY <1>1, <1>2, <1>4, Updated, Zenon
<1>9. sm_p'[t].pc = "open" /\ sm_p'[t].obj = sm_p[t].obj
  BY <1>3, <1>6, <1>7, Zenon
<1>10. Helpers' = Helpers /\ Counted' = Counted
  <2>1. Helpers' = Helpers /\ Counted' = Counted \cup {t}
    BY <1>1, <1>7, <1>9, SmRolls, Zenon
  <2> QED
    BY <1>5, <2>1, Zenon
<1>11. SmTypes'
  BY <1>0, <1>1, <1>7, <1>8, <1>10, Zenon DEF SmTypes
<1>12. \A u \in SmThreads : /\ SmUses(u)' <=> SmUses(u)
                            /\ SmOpening(u)' => SmOpening(u) /\ u # t
                            /\ SmMid(u)' => SmMid(u) /\ u # t
                            /\ sm_p'[u].obj = sm_p[u].obj
                            /\ u # t => sm_p'[u] = sm_p[u]
  BY <1>1, <1>7, <1>9, Zenon DEF SmUses, SmOpening, SmMid
<1>13. SmHeld'
  <2> SUFFICES ASSUME NEW u \in SmThreads PROVE SmHas(u)'
    BY Zenon DEF SmHeld
  <2>1. SmHas(u)
    BY <1>0, Zenon DEF SmHeld
  <2>2. u \in sm_queue' => u # t
    BY <1>1, <2>1, Zenon DEF SmHas
  <2>3. sm_p'[u].pc \in {"sem_open", "sem_unlink"} => u # t
    BY <1>9, Zenon
  <2> QED
    BY <1>1, <1>12, <2>1, <2>2, <2>3, Zenon DEF SmHas
<1>14. SmUnmade'
  BY <1>0, <1>1, Zenon DEF SmUnmade
<1>15. ASSUME ~sm_raced PROVE SmQuiet'
  <2>1. SmQuiet /\ SmShared(t)
    BY <1>15, Zenon DEF SmInv, SmQuiet
  <2>2. Counted = {t} /\ o = sm_name /\ sm_posted[sm_name] = 0 /\ sm_taken[sm_name] = 0
    BY <1>1, <1>6, <2>1, Zenon DEF SmShared, SmUses, SmOpening
  <2>3. \A u \in SmThreads : SmMid(u) => u = t
    BY <1>1, <2>1, Zenon DEF SmShared, SmMid
  <2>4. \A u \in SmThreads : ~SmMid(u)' /\ ~SmOpening(u)'
    BY <1>12, <2>3, Zenon DEF SmOpening, SmMid
  <2>5. \A u \in SmThreads : SmShared(u)'
    <3> SUFFICES ASSUME NEW u \in SmThreads PROVE SmShared(u)'
      BY Zenon
    <3>1. SmUses(u)' => sm_p'[u].obj = sm_name'
      BY <1>1, <1>12, <2>1, Zenon DEF SmQuiet, SmShared
    <3> QED
      BY <2>4, <3>1, Zenon DEF SmShared, SmMid
  <2>6. SmGood'
    <3>1. sm_val'[sm_name] + sm_taken[sm_name] = SmCount + sm_posted[sm_name]
      BY <1>2, <1>8, <2>2, SMT
    <3> QED
      BY <1>1, <3>1, Zenon DEF SmGood
  <2>7. sm_queue' = {}
    BY <1>1, <1>15, <2>2, SmNamed, Zenon
  <2>8. Counted' # {}
    BY <1>5, <1>10, Zenon
  <2> QED
    BY <2>5, <2>6, <2>7, <2>8, Zenon DEF SmQuiet
<1> QED
  BY <1>1, <1>11, <1>13, <1>14, <1>15, Zenon DEF SmInv

\* sem_open finds the semaphore of the name, or makes it with its count.
LEMMA SmInvSemOpen ==
  ASSUME SmInv, NEW t \in SmThreads, SemOpen(t)
  PROVE  SmInv'
<1> DEFINE e == [sm_p[t] EXCEPT !.pc = "open", !.obj = sm_name']
<1>0. SmTypes /\ SmHeld /\ SmUnmade
  BY Zenon DEF SmInv
<1>1. /\ sm_p[t].pc = "sem_open" /\ sm_p' = [sm_p EXCEPT ![t] = e]
      /\ sm_name # 0 => UNCHANGED <<sm_name, sm_made, sm_val>>
      /\ sm_name = 0 => /\ sm_made < SmObjs /\ sm_made' = sm_made + 1 /\ sm_name' = sm_made + 1
                        /\ sm_val' = [sm_val EXCEPT ![sm_made + 1] = SmCount]
      /\ UNCHANGED <<sm_backend, sm_refs, sm_posted, sm_taken, sm_queue, sm_raced>>
  BY Zenon DEF SemOpen, SmAt
<1>2. /\ sm_p \in [SmThreads -> SmHandle] /\ sm_p[t] \in SmHandle
      /\ sm_val \in [SmObjects -> Nat] /\ SmCount \in Nat /\ SmObjs \in Nat
      /\ sm_name \in Nat /\ sm_made \in Nat /\ sm_name <= sm_made /\ sm_made <= SmObjs
      /\ sm_backend = "posix"
  BY <1>0, <1>1, SmConstants, Zenon DEF SmTypes, SmConstants, SmHeld, SmHas
<1>3. /\ sm_name' \in Nat /\ sm_made' \in Nat /\ sm_name' <= sm_made' /\ sm_made' <= SmObjs
      /\ sm_made <= sm_made'
      /\ sm_name' # 0
      /\ sm_name' \in 1 .. sm_made'
      /\ sm_name = 0 => sm_made + 1 \in SmObjects /\ sm_made + 1 > sm_made
  <2>1. CASE sm_name = 0
    BY <1>1, <1>2, <2>1, SMT DEF SmObjects
  <2>2. CASE sm_name # 0
    <3>1. sm_name' = sm_name /\ sm_made' = sm_made
      BY <1>1, <2>2, Zenon
    <3> QED
      BY <1>2, <2>2, <3>1, SMT
  <2> QED
    BY <2>1, <2>2, Zenon
<1>4. sm_val' \in [SmObjects -> Nat] /\ (sm_name = 0 => sm_val'[sm_name'] = SmCount)
  <2>1. CASE sm_name = 0
    <3>1. PICK x \in SmObjects : x = sm_made + 1
      BY <1>3, <2>1, Zenon
    <3>2. sm_val' = [sm_val EXCEPT ![x] = SmCount] /\ sm_name' = x
      BY <1>1, <2>1, <3>1, Zenon
    <3>3. sm_val' \in [SmObjects -> Nat] /\ sm_val'[x] = SmCount
      BY <1>2, <3>2, Updated, Zenon
    <3> QED
      BY <3>2, <3>3, Zenon
  <2>2. CASE sm_name # 0
    BY <1>1, <1>2, <2>2, Zenon
  <2> QED
    BY <2>1, <2>2, Zenon
<1>5. e \in SmHandle /\ e.pc = "open" /\ e.obj = sm_name'
  BY <1>2, <1>3, Zenon DEF SmHandle, SmLabels
<1> HIDE DEF e
<1>6. /\ sm_p' \in [SmThreads -> SmHandle] /\ sm_p'[t] = e
      /\ \A u \in SmThreads : u # t => sm_p'[u] = sm_p[u]
  BY <1>1, <1>2, <1>5, Updated, Zenon
<1>7. sm_p'[t].pc = "open" /\ sm_p'[t].obj = sm_name'
  BY <1>5, <1>6, Zenon
<1>8. t \in Counted /\ Helpers' = Helpers /\ Counted' = Counted
  <2>1. t \in Counted
    BY <1>1, Zenon DEF Counted
  <2>2. Helpers' = Helpers /\ Counted' = Counted \cup {t}
    BY <1>1, <1>6, <1>7, SmRolls, Zenon
  <2> QED
    BY <2>1, <2>2, Zenon
<1>9. SmTypes'
  BY <1>0, <1>1, <1>3, <1>4, <1>6, <1>8, Zenon DEF SmTypes
<1>10. SmHeld'
  <2> SUFFICES ASSUME NEW u \in SmThreads PROVE SmHas(u)'
    BY Zenon DEF SmHeld
  <2>1. SmHas(u)
    BY <1>0, Zenon DEF SmHeld
  <2>2. CASE u = t
    <3>1. t \notin sm_queue'
      BY <1>1, <2>1, <2>2, Zenon DEF SmHas
    <3> QED
      BY <1>3, <1>7, <2>2, <3>1, Zenon DEF SmHas, SmOpening
  <2>3. CASE u # t
    <3>1. sm_p'[u] = sm_p[u]
      BY <1>6, <2>3, Zenon
    <3>2. SmUses(u) => sm_p[u].obj \in 1 .. sm_made'
      <4>1. SmUses(u) => sm_p[u].obj \in 1 .. sm_made
        BY <2>1, Zenon DEF SmHas
      <4> QED
        BY <1>2, <1>3, <4>1, SMT
    <3> QED
      BY <1>1, <2>1, <3>1, <3>2, Zenon DEF SmHas, SmUses, SmOpening
  <2> QED
    BY <2>2, <2>3, Zenon
<1>11. SmUnmade'
  <2> SUFFICES ASSUME NEW x \in SmObjects, x > sm_made' PROVE sm_posted[x] = 0 /\ sm_taken[x] = 0
    BY <1>1, Zenon DEF SmUnmade
  <2>1. x > sm_made
    BY <1>2, <1>3, SMT DEF SmObjects
  <2> QED
    BY <1>0, <2>1, Zenon DEF SmUnmade
<1>12. ASSUME ~sm_raced PROVE SmQuiet'
  <2>1. SmQuiet /\ SmShared(t)
    BY <1>12, Zenon DEF SmInv, SmQuiet
  <2>2. \A u \in SmThreads : SmMid(u) => u = t
    BY <1>1, <2>1, Zenon DEF SmShared, SmMid
  <2>3. \A u \in SmThreads : u # t => ~SmMid(u)' /\ (SmUses(u)' => sm_p'[u].obj = sm_name')
    <3> SUFFICES ASSUME NEW u \in SmThreads, u # t
                 PROVE  ~SmMid(u)' /\ (SmUses(u)' => sm_p'[u].obj = sm_name')
      BY Zenon
    <3>1. sm_p'[u] = sm_p[u] /\ ~SmMid(u)
      BY <1>6, <2>2, Zenon
    <3>2. SmUses(u) => sm_p[u].obj = sm_name /\ sm_name # 0
      BY <1>12, SmNamed, Zenon
    <3>3. SmUses(u) => sm_p[u].obj = sm_name'
      BY <1>1, <3>2, Zenon
    <3> QED
      BY <3>1, <3>3, Zenon DEF SmMid, SmUses
  <2>4. \A u \in SmThreads : SmShared(u)'
    <3> SUFFICES ASSUME NEW u \in SmThreads PROVE SmShared(u)'
      BY Zenon
    <3>1. CASE u = t
      BY <1>7, <3>1, Zenon DEF SmShared, SmMid, SmOpening
    <3>2. CASE u # t
      BY <2>3, <3>2, Zenon DEF SmShared, SmOpening, SmMid
    <3> QED
      BY <3>1, <3>2, Zenon
  <2>5. SmGood'
    <3>1. CASE sm_name # 0
      <4>1. SmGood
        BY <1>2, <1>12, <2>1, <3>1, SmNamed, Zenon DEF SmQuiet
      <4> QED
        BY <1>1, <3>1, <4>1, Zenon DEF SmGood
    <3>2. CASE sm_name = 0
      <4>1. sm_posted[sm_name'] = 0 /\ sm_taken[sm_name'] = 0
        BY <1>0, <1>1, <1>3, <3>2, Zenon DEF SmUnmade
      <4>2. sm_val'[sm_name'] + sm_taken[sm_name'] = SmCount + sm_posted[sm_name']
        BY <1>2, <1>4, <3>2, <4>1, SMT
      <4> QED
        BY <1>1, <4>2, Zenon DEF SmGood
    <3> QED
      BY <3>1, <3>2, Zenon
  <2>6. sm_queue' # {} => sm_val'[sm_name'] <= Cardinality(Helpers')
    <3> SUFFICES ASSUME sm_queue # {} PROVE sm_val'[sm_name'] <= Cardinality(Helpers)
      BY <1>1, <1>8, Zenon
    <3>1. sm_name' = sm_name /\ sm_val' = sm_val
      BY <1>1, <1>12, SmNamed, Zenon
    <3>2. sm_val[sm_name] <= Cardinality(Helpers)
      BY <2>1, Zenon DEF SmQuiet
    <3> QED
      BY <3>1, <3>2, Zenon
  <2>7. Counted' # {}
    BY <1>8, Zenon
  <2> QED
    BY <2>4, <2>5, <2>6, <2>7, Zenon DEF SmQuiet
<1> QED
  BY <1>1, <1>9, <1>10, <1>11, <1>12, Zenon DEF SmInv

\* A handle is dropped while nobody else opens or closes.
LEMMA SmInvDrop ==
  ASSUME SmInv, NEW t \in SmThreads, SemDrop(t)
  PROVE  SmInv'
<1> DEFINE l == IF sm_backend = "posix" /\ sm_refs <= 1 THEN "sem_unlink" ELSE "closed"
           e == [sm_p[t] EXCEPT !.pc = l, !.obj = 0]
<1>0. SmTypes /\ SmHeld /\ SmUnmade
  BY Zenon DEF SmInv
<1>1. /\ sm_p[t].pc = "open" /\ sm_p' = [sm_p EXCEPT ![t] = e] /\ sm_refs' = sm_refs - 1
      /\ sm_name' = IF sm_backend = "apple" /\ sm_refs <= 1 THEN 0 ELSE sm_name
      /\ sm_raced' = (sm_raced \/ SmBetween(t))
      /\ UNCHANGED <<sm_backend, sm_made, sm_val, sm_posted, sm_taken, sm_queue>>
  BY Zenon DEF SemDrop, SmAt, sm_counts
<1>2. /\ sm_p \in [SmThreads -> SmHandle] /\ sm_p[t] \in SmHandle /\ 0 \in Nat
      /\ sm_name \in Nat /\ sm_made \in Nat /\ sm_name <= sm_made
      /\ sm_backend \in {"apple", "posix"}
  <2>1. 0 \in Nat
    BY SMT
  <2> QED
    BY <1>0, <2>1, Zenon DEF SmTypes
<1>3. e \in SmHandle /\ e.pc = l /\ l \in {"sem_unlink", "closed"}
  BY <1>2, Zenon DEF SmHandle, SmLabels
<1>4. t \in Counted /\ (sm_refs <= 1 <=> Counted = {t})
  <2>1. t \in Counted
    BY <1>1, Zenon DEF Counted
  <2> QED
    BY <1>0, <2>1, SmFinite, OnlyOne, Zenon DEF SmTypes
<1>5. l = "sem_unlink" <=> sm_backend = "posix" /\ Counted = {t}
  BY <1>4, Zenon
<1> HIDE DEF e, l
<1>6. /\ sm_p' \in [SmThreads -> SmHandle] /\ sm_p'[t] = e
      /\ \A u \in SmThreads : u # t => sm_p'[u] = sm_p[u]
  BY <1>1, <1>2, <1>3, Updated, Zenon
<1>7. /\ sm_p'[t].pc \in {"sem_unlink", "closed"}
      /\ sm_p'[t].pc = "sem_unlink" <=> sm_backend = "posix" /\ Counted = {t}
  BY <1>3, <1>5, <1>6, Zenon
<1>8. Helpers' = Helpers /\ Counted' = Counted \ {t}
  BY <1>1, <1>6, <1>7, SmRolls, Zenon
<1>9. sm_name' \in Nat /\ sm_name' <= sm_made
  <2>1. sm_name' = sm_name \/ sm_name' = 0
    BY <1>1, Zenon
  <2> QED
    BY <1>2, <2>1, SMT
<1>10. SmTypes'
  <2>1. sm_refs' = Cardinality(Counted')
    BY <1>0, <1>1, <1>4, <1>8, SmFinite, OneLess, Zenon DEF SmTypes
  <2>2. sm_raced' \in BOOLEAN
    BY <1>0, <1>1, Zenon DEF SmTypes, SmBetween
  <2> QED
    BY <1>0, <1>1, <1>6, <1>9, <2>1, <2>2, Zenon DEF SmTypes
<1>11. SmHeld'
  <2> SUFFICES ASSUME NEW u \in SmThreads PROVE SmHas(u)'
    BY Zenon DEF SmHeld
  <2>1. SmHas(u)
    BY <1>0, Zenon DEF SmHeld
  <2>2. CASE u = t
    <3>1. t \notin sm_queue'
      BY <1>1, <2>1, <2>2, Zenon DEF SmHas
    <3> QED
      BY <1>1, <1>7, <2>2, <3>1, Zenon DEF SmHas, SmOpening, SmUses
  <2>3. CASE u # t
    <3>1. sm_p'[u] = sm_p[u]
      BY <1>6, <2>3, Zenon
    <3> QED
      BY <1>1, <2>1, <3>1, Zenon DEF SmHas, SmUses, SmOpening
  <2> QED
    BY <2>2, <2>3, Zenon
<1>12. SmUnmade'
  BY <1>0, <1>1, Zenon DEF SmUnmade
<1>13. ASSUME ~sm_raced' PROVE SmQuiet'
  <2>1. /\ ~sm_raced /\ SmQuiet
        /\ \A u \in SmThreads : ~SmMid(u)
        /\ \A u \in SmThreads : u # t => ~SmMid(u)'
    BY <1>1, <1>6, <1>13, Zenon DEF SmInv, SmBetween, SmMid
  <2>2. \A u \in SmThreads : SmUses(u)' => u # t /\ SmUses(u) /\ sm_p'[u] = sm_p[u] /\ u \in Counted
    BY <1>6, <1>7, Zenon DEF SmUses, Counted
  <2>3. \A u \in SmThreads : SmUses(u)' => sm_p'[u].obj = sm_name'
    <3> SUFFICES ASSUME NEW u \in SmThreads, SmUses(u)' PROVE sm_p'[u].obj = sm_name'
      BY Zenon
    <3>1. u # t /\ SmUses(u) /\ sm_p'[u] = sm_p[u] /\ u \in Counted
      BY <2>2, Zenon
    <3>2. sm_name' = sm_name
      BY <1>1, <1>4, <3>1, Zenon
    <3> QED
      BY <2>1, <3>1, <3>2, SmNamed, Zenon
  <2>4. \A u \in SmThreads : SmShared(u)'
    <3> SUFFICES ASSUME NEW u \in SmThreads PROVE SmShared(u)'
      BY Zenon
    <3>1. CASE u = t
      BY <1>7, <1>8, <2>1, <2>3, <3>1, Zenon DEF SmShared, SmOpening
    <3>2. CASE u # t
      BY <2>1, <2>3, <3>2, Zenon DEF SmShared, SmOpening, SmMid
    <3> QED
      BY <3>1, <3>2, Zenon
  <2>5. sm_name' # 0 => SmGood'
    <3> SUFFICES ASSUME sm_name' # 0 PROVE SmGood'
      BY Zenon
    <3>1. sm_name' = sm_name /\ sm_name # 0
      BY <1>1, Zenon
    <3>2. ~SmAlone
      BY <2>1, Zenon DEF SmAlone, SmOpening, SmMid
    <3> QED
      BY <1>1, <2>1, <3>1, <3>2, Zenon DEF SmQuiet, SmGood
  <2>6. sm_backend' = "apple" /\ sm_name' # 0 => Counted' # {}
    <3> SUFFICES ASSUME sm_backend = "apple", sm_name' # 0, Counted \ {t} = {} PROVE FALSE
      BY <1>1, <1>8, Zenon
    <3>1. Counted = {t}
      BY <1>4, Zenon
    <3> QED
      BY <1>1, <1>4, <3>1, Zenon
  <2>7. sm_queue' # {} => sm_val'[sm_name'] <= Cardinality(Helpers')
    <3> SUFFICES ASSUME NEW q \in sm_queue PROVE sm_val[sm_name'] <= Cardinality(Helpers)
      BY <1>1, <1>8, Zenon
    <3>1. q \in Counted /\ q # t
      BY <1>1, <2>1, SmNamed, Zenon
    <3>2. sm_name' = sm_name
      BY <1>1, <1>4, <3>1, Zenon
    <3> QED
      BY <2>1, <3>2, Zenon DEF SmQuiet
  <2> QED
    BY <2>4, <2>5, <2>6, <2>7, Zenon DEF SmQuiet
<1> QED
  BY <1>10, <1>11, <1>12, <1>13, Zenon DEF SmInv

\* The last closer unlinks the semaphore.
LEMMA SmInvUnlink ==
  ASSUME SmInv, NEW t \in SmThreads, SemUnlink(t)
  PROVE  SmInv'
<1> DEFINE e == [sm_p[t] EXCEPT !.pc = "closed"]
<1>0. SmTypes /\ SmHeld /\ SmUnmade
  BY Zenon DEF SmInv
<1>1. /\ sm_p[t].pc = "sem_unlink" /\ sm_p' = [sm_p EXCEPT ![t] = e] /\ sm_name' = 0
      /\ UNCHANGED <<sm_backend, sm_refs, sm_made, sm_val, sm_posted, sm_taken, sm_queue, sm_raced>>
  BY Zenon DEF SemUnlink, SmAt, SmGoto, sm_counts
<1>2. sm_p \in [SmThreads -> SmHandle] /\ sm_p[t] \in SmHandle
  BY <1>0, Zenon DEF SmTypes
<1>3. e \in SmHandle /\ e.pc = "closed"
  BY <1>2, Zenon DEF SmHandle, SmLabels
<1> HIDE DEF e
<1>4. /\ sm_p' \in [SmThreads -> SmHandle] /\ sm_p'[t] = e
      /\ \A u \in SmThreads : u # t => sm_p'[u] = sm_p[u]
  BY <1>1, <1>2, <1>3, Updated, Zenon
<1>5. sm_p'[t].pc = "closed"
  BY <1>3, <1>4, Zenon
<1>6. Helpers' = Helpers /\ Counted' = Counted
  <2>1. t \notin Counted
    BY <1>1, Zenon DEF Counted
  <2>2. Helpers' = Helpers /\ Counted' = Counted \ {t}
    BY <1>1, <1>4, <1>5, SmRolls, Zenon
  <2> QED
    BY <2>1, <2>2, Zenon
<1>7. 0 \in Nat /\ 0 <= sm_made
  <2>1. sm_made \in Nat
    BY <1>0, Zenon DEF SmTypes
  <2> QED
    BY <2>1, SMT
<1>8. SmTypes'
  BY <1>0, <1>1, <1>4, <1>6, <1>7, Zenon DEF SmTypes
<1>9. SmHeld'
  <2> SUFFICES ASSUME NEW u \in SmThreads PROVE SmHas(u)'
    BY Zenon DEF SmHeld
  <2>1. SmHas(u)
    BY <1>0, Zenon DEF SmHeld
  <2>2. CASE u = t
    <3>1. t \notin sm_queue'
      BY <1>1, <2>1, <2>2, Zenon DEF SmHas
    <3> QED
      BY <1>5, <2>2, <3>1, Zenon DEF SmHas, SmOpening, SmUses
  <2>3. CASE u # t
    <3>1. sm_p'[u] = sm_p[u]
      BY <1>4, <2>3, Zenon
    <3> QED
      BY <1>1, <2>1, <3>1, Zenon DEF SmHas, SmUses, SmOpening
  <2> QED
    BY <2>2, <2>3, Zenon
<1>10. SmUnmade'
  BY <1>0, <1>1, Zenon DEF SmUnmade
<1>11. ASSUME ~sm_raced PROVE SmQuiet'
  <2>1. SmQuiet /\ SmShared(t)
    BY <1>11, Zenon DEF SmInv, SmQuiet
  <2>2. Counted = {} /\ \A u \in SmThreads : SmMid(u) => u = t
    BY <1>1, <2>1, Zenon DEF SmShared, SmMid
  <2>3. \A u \in SmThreads : ~SmUses(u)' /\ ~SmMid(u)'
    <3> SUFFICES ASSUME NEW u \in SmThreads PROVE ~SmUses(u)' /\ ~SmMid(u)'
      BY Zenon
    <3>1. u \notin Counted'
      BY <1>6, <2>2, Zenon
    <3>2. sm_p'[u].pc \in {"closed", "sem_unlink"}
      BY <3>1, Zenon DEF Counted
    <3>3. sm_p'[u].pc # "sem_unlink"
      BY <1>4, <1>5, <2>2, Zenon DEF SmMid
    <3> QED
      BY <3>2, <3>3, Zenon DEF SmUses, SmMid
  <2>4. \A u \in SmThreads : SmShared(u)'
    BY <2>3, Zenon DEF SmShared, SmOpening, SmMid
  <2>5. sm_queue' = {}
    BY <1>1, <1>11, <2>2, SmNamed, Zenon
  <2> QED
    BY <1>1, <2>4, <2>5, Zenon DEF SmQuiet
<1> QED
  BY <1>1, <1>8, <1>9, <1>10, <1>11, Zenon DEF SmInv

LEMMA SmInvInit ==
  ASSUME SmInit
  PROVE  SmInv
<1>1. /\ sm_backend \in {"apple", "posix"} /\ sm_name = 0 /\ sm_refs = 0 /\ sm_made = 0
      /\ sm_val = [o \in SmObjects |-> 0] /\ sm_posted = sm_val /\ sm_taken = sm_val
      /\ sm_queue = {} /\ sm_raced = FALSE /\ sm_p = [t \in SmThreads |-> SmClosed]
  BY Zenon DEF SmInit
<1>2. /\ 0 \in Nat /\ 0 <= 0 /\ 0 <= SmObjs
  BY SmConstants, SMT DEF SmConstants
<1>3. SmClosed \in SmHandle /\ SmClosed.pc = "closed"
  BY <1>2, Zenon DEF SmHandle, SmLabels, SmClosed
<1>4. sm_p \in [SmThreads -> SmHandle] /\ \A t \in SmThreads : sm_p[t].pc = "closed"
  BY <1>1, <1>3, Zenon
<1>5. Counted = {} /\ Cardinality(Counted) = 0
  <2>1. Counted = {}
    BY <1>4, Zenon DEF Counted
  <2> QED
    BY <2>1, FS_EmptySet, Zenon
<1>6. sm_val \in [SmObjects -> Nat] /\ \A o \in SmObjects : sm_val[o] = 0
  BY <1>1, <1>2, Zenon
<1>7. SmTypes
  BY <1>1, <1>2, <1>4, <1>5, <1>6, Zenon DEF SmTypes
<1>8. \A t \in SmThreads : SmHas(t) /\ SmShared(t)
  BY <1>1, <1>4, Zenon DEF SmHas, SmShared, SmUses, SmOpening, SmMid
<1>9. SmUnmade
  BY <1>1, <1>6, Zenon DEF SmUnmade
<1> QED
  BY <1>1, <1>7, <1>8, <1>9, Zenon DEF SmInv, SmHeld, SmQuiet

LEMMA SmInvNext ==
  ASSUME SmInv, [SmNext]_sm_vars
  PROVE  SmInv'
<1>1. CASE UNCHANGED sm_vars
  <2>1. UNCHANGED <<sm_backend, sm_name, sm_refs, sm_made, sm_val, sm_posted, sm_taken, sm_queue,
                    sm_raced, sm_p>>
    BY <1>1, Zenon DEF sm_vars
  <2>2. Counted' = Counted /\ Helpers' = Helpers
    BY <2>1, Zenon DEF Counted, Helpers
  <2>3. SmTypes' /\ SmUnmade'
    BY <2>1, <2>2, Zenon DEF SmInv, SmTypes, SmUnmade
  <2>4. SmHeld'
    BY <2>1, Zenon DEF SmInv, SmHeld, SmHas, SmUses, SmOpening
  <2>5. ASSUME ~sm_raced PROVE SmQuiet'
    <3>1. SmQuiet
      BY <2>5, Zenon DEF SmInv
    <3>2. \A t \in SmThreads : SmShared(t)'
      BY <2>1, <2>2, <3>1, Zenon DEF SmQuiet, SmShared, SmUses, SmOpening, SmMid
    <3>3. SmGood' <=> SmGood
      BY <2>1, Zenon DEF SmGood
    <3>4. SmAlone' <=> SmAlone
      BY <2>1, <2>2, Zenon DEF SmAlone, SmOpening
    <3> QED
      BY <2>1, <2>2, <3>1, <3>2, <3>3, <3>4, Zenon DEF SmQuiet
  <2> QED
    BY <2>1, <2>3, <2>4, <2>5, Zenon DEF SmInv
<1> QED
  BY <1>1, SmInvAcquire, SmInvInitCheck, SmInvInitStore, SmInvSemOpen, SmInvWait, SmInvTimedOut,
     SmInvPost, SmInvPostWake, SmInvDrop, SmInvUnlink, Zenon DEF SmNext, SmStep, SmDone

\* SmInv is inductive.
THEOREM SmInvariance == SmSpec => []SmInv
<1>1. SmInit => SmInv
  BY SmInvInit, Zenon
<1>2. SmInv /\ [SmNext]_sm_vars => SmInv'
  BY SmInvNext, Zenon
<1> QED
  BY <1>1, <1>2, PTL DEF SmSpec

\* IpcSemaphore, for any number of threads, initial count and calls: unless an
\* open or close ran into another, permits are neither lost nor made up, nobody
\* sleeps on with a permit there, and handles open together share one object.
THEOREM SemaphoreSoundAlways == SmSpec => []SemaphoreSound
<1>1. SmInv => SemaphoreSound
  <2> SUFFICES ASSUME SmInv, ~sm_raced PROVE SmConserved /\ SmNoSleeper /\ SmOneObject
    BY Zenon DEF SemaphoreSound
  <2>1. SmTypes /\ SmQuiet
    BY Zenon DEF SmInv
  <2>2. \A t \in SmOpen : t \in Counted /\ ~SmOpening(t) /\ sm_p[t].obj = sm_name /\ sm_name # 0
    BY SmNamed, Zenon DEF SmOpen, Counted, SmOpening, SmUses
  <2>3. SmConserved
    <3> SUFFICES ASSUME NEW t \in SmOpen PROVE SmGood
      BY <2>2, Zenon DEF SmConserved, SmGood
    <3>1. ~SmAlone
      BY <2>2, Zenon DEF SmAlone
    <3> QED
      BY <2>1, <2>2, <3>1, Zenon DEF SmQuiet
  <2>4. SmOneObject
    BY <2>2, Zenon DEF SmOneObject
  <2>5. SmNoSleeper
    <3> SUFFICES ASSUME NEW t \in sm_queue, sm_val[sm_p[t].obj] > 0
                 PROVE  \E u \in SmThreads : /\ sm_p[u].obj = sm_p[t].obj
                                             /\ \/ sm_p[u].pc = "wake"
                                                \/ sm_p[u].pc = "wait" /\ u \notin sm_queue
      BY Zenon DEF SmNoSleeper
    <3>1. sm_p[t].obj = sm_name /\ sm_name # 0
      BY SmNamed, Zenon DEF SmUses
    <3>2. sm_val[sm_name] <= Cardinality(Helpers) /\ sm_val[sm_name] > 0
      BY <2>1, <3>1, Zenon DEF SmQuiet
    <3>3. sm_val[sm_name] \in Nat
      <4>1. sm_name \in SmObjects
        <5>1. sm_name \in Nat /\ sm_made \in Nat /\ sm_name <= sm_made /\ sm_made <= SmObjs
          BY <2>1, Zenon DEF SmTypes
        <5> QED
          BY <3>1, <5>1, SmConstants, SMT DEF SmObjects, SmConstants
      <4> QED
        BY <2>1, <4>1, Zenon DEF SmTypes
    <3>4. Cardinality(Helpers) # 0
      BY <3>2, <3>3, SmFinite, SMT
    <3>5. PICK u \in Helpers : TRUE
      BY <3>4, FS_EmptySet, Zenon
    <3>6. u \in SmThreads /\ SmUses(u)
      BY <3>5, Zenon DEF Helpers, SmUses
    <3>7. sm_p[u].obj = sm_name
      BY <3>6, SmNamed, Zenon
    <3> QED
      BY <3>1, <3>5, <3>6, <3>7, Zenon DEF Helpers
  <2> QED
    BY <2>3, <2>4, <2>5, Zenon
<1> QED
  BY <1>1, SmInvariance, PTL

-----------------------------------------------------------------------------
(* RwLock *)

RwLabels == {"out", "lock", "drain", "writing", "load", "cas", "reading"}
RwWords == [w : BOOLEAN, r : Nat]
RwTypes == /\ rw_lc \in RwWords /\ rw_old \in [RwThreads -> RwWords]
           /\ rw_pc \in [RwThreads -> RwLabels]

\* The word counts the readers.
RwCounted == IsFiniteSet(RwReaders) /\ rw_lc.r = Cardinality(RwReaders)

\* The flag is up for one writer, who writes when the readers are gone.
RwTurn(t) == rw_pc[t] \in {"drain", "writing"}
RwFlagged == \A t \in RwThreads : RwTurn(t) =>
               /\ rw_lc.w
               /\ rw_pc[t] = "writing" => rw_lc.r = 0
               /\ \A u \in RwThreads : RwTurn(u) => u = t

\* A reader's CAS expects the flag down.
RwNoFlag == \A t \in RwThreads : rw_pc[t] = "cas" => ~rw_old[t].w

RwInv == RwTypes /\ RwCounted /\ RwFlagged /\ RwNoFlag

-----------------------------------------------------------------------------
LEMMA RwInvInit ==
  ASSUME RwInit PROVE RwInv
<1>1. RwTypes
  BY Zenon DEF RwInit, RwTypes, RwWords, RwZero, RwLabels
<1>2. RwReaders = {}
  BY Zenon DEF RwInit, RwReaders
<1>3. RwCounted
  BY <1>2, FS_EmptySet, Zenon DEF RwCounted, RwInit, RwZero
<1>4. RwFlagged /\ RwNoFlag
  BY Zenon DEF RwInit, RwFlagged, RwTurn, RwNoFlag
<1> QED
  BY <1>1, <1>3, <1>4, Zenon DEF RwInv

\* With no reader counted there is none.
LEMMA NoReaders ==
  ASSUME RwCounted, rw_lc.r = 0 PROVE RwReaders = {}
BY FS_EmptySet, Zenon DEF RwCounted

\* A step of one thread.
LEMMA RwMoves ==
  ASSUME RwTypes, NEW t \in RwThreads, NEW l \in RwLabels, RwGoto(t, l)
  PROVE  /\ rw_pc' \in [RwThreads -> RwLabels]
         /\ rw_pc'[t] = l /\ \A u \in RwThreads : u # t => rw_pc'[u] = rw_pc[u]
         /\ l # "reading" /\ rw_pc[t] # "reading" => RwReaders' = RwReaders
         /\ l = "reading" => RwReaders' = RwReaders \cup {t}
         /\ l # "reading" => RwReaders' = RwReaders \ {t}
<1>1. rw_pc' \in [RwThreads -> RwLabels]
  BY Zenon DEF RwGoto, RwTypes
<1>2. rw_pc'[t] = l /\ \A u \in RwThreads : u # t => rw_pc'[u] = rw_pc[u]
  BY Zenon DEF RwGoto, RwTypes
<1> QED
  BY <1>1, <1>2, Zenon DEF RwReaders

LEMMA RwInvStep ==
  ASSUME RwInv, [RwNext]_rw_vars PROVE RwInv'
<1>0. RwTypes /\ RwCounted /\ RwFlagged /\ RwNoFlag
  BY Zenon DEF RwInv
<1>1. ASSUME NEW t \in RwThreads, RwCall(t) PROVE RwInv'
  <2>1. PICK l \in {"lock", "load"} : RwGoto(t, l)
    BY <1>1, Zenon DEF RwCall
  <2>2. rw_pc[t] = "out" /\ UNCHANGED <<rw_lc, rw_old>>
    BY <1>1, Zenon DEF RwCall, RwAt
  <2>3. /\ rw_pc' \in [RwThreads -> RwLabels] /\ rw_pc'[t] = l /\ \A u \in RwThreads : u # t => rw_pc'[u] = rw_pc[u]
        /\ RwReaders' = RwReaders
    BY <1>0, <2>1, <2>2, RwMoves, Zenon DEF RwLabels
  <2>4. RwTypes' /\ RwCounted'
    BY <1>0, <2>2, <2>3, Zenon DEF RwTypes, RwCounted
  <2>5. RwFlagged' /\ RwNoFlag'
    BY <1>0, <2>2, <2>3, Zenon DEF RwFlagged, RwNoFlag, RwTurn
  <2> QED
    BY <2>4, <2>5, Zenon DEF RwInv
<1>2. ASSUME NEW t \in RwThreads, Lock(t) PROVE RwInv'
  <2>1. PICK l \in {"writing", "drain", "lock"} :
          /\ RwGoto(t, l) /\ (l = "writing" => rw_lc = RwZero) /\ (l # "lock" => ~rw_lc.w)
    <3>1. rw_lc = RwZero => ~rw_lc.w
      BY DEF RwZero
    <3> QED
      BY <1>2, <3>1, Zenon DEF Lock
  <2>2. /\ rw_pc[t] = "lock" /\ UNCHANGED rw_old /\ rw_lc' \in RwWords /\ rw_lc'.w /\ rw_lc'.r = rw_lc.r
        /\ l = "writing" => rw_lc.r = 0
    <3>1. rw_pc[t] = "lock" /\ UNCHANGED rw_old /\ rw_lc' = [rw_lc EXCEPT !.w = TRUE] /\ rw_lc \in RwWords
      BY <1>0, <1>2, Zenon DEF Lock, RwAt, RwTypes
    <3>2. rw_lc' \in RwWords /\ rw_lc'.w /\ rw_lc'.r = rw_lc.r
      BY <3>1, Zenon DEF RwWords
    <3>3. l = "writing" => rw_lc.r = 0
      BY <2>1, SMT DEF RwZero
    <3> QED
      BY <3>1, <3>2, <3>3, Zenon
  <2>3. /\ rw_pc' \in [RwThreads -> RwLabels] /\ rw_pc'[t] = l /\ \A u \in RwThreads : u # t => rw_pc'[u] = rw_pc[u]
        /\ RwReaders' = RwReaders
    BY <1>0, <2>1, <2>2, RwMoves, Zenon DEF RwLabels
  <2>4. RwTypes' /\ RwCounted'
    BY <1>0, <2>2, <2>3, Zenon DEF RwTypes, RwCounted
  <2>5. RwFlagged'
    BY <1>0, <2>1, <2>2, <2>3, Zenon DEF RwFlagged, RwTurn
  <2>6. RwNoFlag'
    BY <1>0, <2>2, <2>3, Zenon DEF RwNoFlag
  <2> QED
    BY <2>4, <2>5, <2>6, Zenon DEF RwInv
<1>3. ASSUME NEW t \in RwThreads, Drain(t) PROVE RwInv'
  <2>2. rw_pc[t] = "drain" /\ UNCHANGED <<rw_lc, rw_old>> /\ rw_lc.r = 0 /\ RwGoto(t, "writing")
    BY <1>3, Zenon DEF Drain, RwAt
  <2>3. /\ rw_pc' \in [RwThreads -> RwLabels] /\ rw_pc'[t] = "writing" /\ \A u \in RwThreads : u # t => rw_pc'[u] = rw_pc[u]
        /\ RwReaders' = RwReaders
    BY <1>0, <2>2, RwMoves, Zenon DEF RwLabels
  <2>4. RwTypes' /\ RwCounted'
    BY <1>0, <2>2, <2>3, Zenon DEF RwTypes, RwCounted
  <2>5. RwFlagged' /\ RwNoFlag'
    BY <1>0, <2>2, <2>3, Zenon DEF RwFlagged, RwNoFlag, RwTurn
  <2> QED
    BY <2>4, <2>5, Zenon DEF RwInv
<1>4. ASSUME NEW t \in RwThreads, Unlock(t) PROVE RwInv'
  <2>1. rw_pc[t] = "writing" /\ UNCHANGED rw_old /\ rw_lc' = RwZero /\ RwGoto(t, "out")
    BY <1>4, Zenon DEF Unlock, RwAt
  <2>2. rw_lc.r = 0 /\ \A u \in RwThreads : RwTurn(u) => u = t
    BY <1>0, <2>1, Zenon DEF RwFlagged, RwTurn
  <2>3. /\ rw_pc' \in [RwThreads -> RwLabels] /\ rw_pc'[t] = "out" /\ \A u \in RwThreads : u # t => rw_pc'[u] = rw_pc[u]
        /\ RwReaders' = RwReaders
    BY <1>0, <2>1, RwMoves, Zenon DEF RwLabels
  <2>4. RwTypes'
    BY <1>0, <2>1, <2>3, Zenon DEF RwTypes, RwZero, RwWords
  <2>5. RwCounted'
    <3>1. rw_lc'.r = 0
      BY <2>1, Zenon DEF RwZero
    <3> QED
      BY <1>0, <2>2, <2>3, <3>1, Zenon DEF RwCounted
  <2>6. RwFlagged' /\ RwNoFlag'
    BY <1>0, <2>1, <2>2, <2>3, Zenon DEF RwFlagged, RwNoFlag, RwTurn
  <2> QED
    BY <2>4, <2>5, <2>6, Zenon DEF RwInv
<1>5. ASSUME NEW t \in RwThreads, LoadShared(t) PROVE RwInv'
  <2>1. rw_pc[t] = "load" /\ ~rw_lc.w /\ UNCHANGED rw_lc /\ rw_old' = [rw_old EXCEPT ![t] = rw_lc] /\ RwGoto(t, "cas")
    BY <1>5, Zenon DEF LoadShared, RwAt
  <2>2. /\ rw_old' \in [RwThreads -> RwWords] /\ rw_old'[t] = rw_lc /\ \A u \in RwThreads : u # t => rw_old'[u] = rw_old[u]
    BY <1>0, <2>1, Zenon DEF RwTypes
  <2>3. /\ rw_pc' \in [RwThreads -> RwLabels] /\ rw_pc'[t] = "cas" /\ \A u \in RwThreads : u # t => rw_pc'[u] = rw_pc[u]
        /\ RwReaders' = RwReaders
    BY <1>0, <2>1, RwMoves, Zenon DEF RwLabels
  <2>4. RwTypes' /\ RwCounted'
    BY <1>0, <2>1, <2>2, <2>3, Zenon DEF RwTypes, RwCounted
  <2>5. RwFlagged'
    BY <1>0, <2>1, <2>3, Zenon DEF RwFlagged, RwTurn
  <2>6. RwNoFlag'
    BY <1>0, <2>1, <2>2, <2>3, Zenon DEF RwNoFlag
  <2> QED
    BY <2>4, <2>5, <2>6, Zenon DEF RwInv
<1>6. ASSUME NEW t \in RwThreads, CasShared(t) PROVE RwInv'
  <2>1. rw_pc[t] = "cas" /\ rw_old' = [rw_old EXCEPT ![t] = RwZero]
    BY <1>6, Zenon DEF CasShared, RwAt
  <2>2. rw_old' \in [RwThreads -> RwWords] /\ \A u \in RwThreads : u # t => rw_old'[u] = rw_old[u]
    <3>1. RwZero \in RwWords
      BY Zenon DEF RwZero, RwWords
    <3> QED
      BY <1>0, <2>1, <3>1, Zenon DEF RwTypes
  <2>3. CASE rw_lc = rw_old[t] /\ rw_lc' = [rw_lc EXCEPT !.r = @ + 1] /\ RwGoto(t, "reading")
    <3>1. /\ rw_pc' \in [RwThreads -> RwLabels] /\ rw_pc'[t] = "reading" /\ \A u \in RwThreads : u # t => rw_pc'[u] = rw_pc[u]
          /\ RwReaders' = RwReaders \cup {t}
      BY <1>0, <2>3, RwMoves, Zenon DEF RwLabels
    <3>2. ~rw_lc.w /\ t \notin RwReaders
      BY <1>0, <2>1, <2>3, Zenon DEF RwNoFlag, RwReaders
    <3>3. rw_lc' \in RwWords /\ rw_lc'.r = rw_lc.r + 1
      BY <1>0, <2>3 DEF RwTypes, RwWords
    <3>4. RwTypes'
      BY <2>2, <3>1, <3>3, Zenon DEF RwTypes
    <3>5. RwCounted'
      <4>1. IsFiniteSet(RwReaders) /\ rw_lc.r = Cardinality(RwReaders)
        BY <1>0, Zenon DEF RwCounted
      <4>2. IsFiniteSet(RwReaders \cup {t}) /\ Cardinality(RwReaders \cup {t}) = Cardinality(RwReaders) + 1
        BY <3>2, <4>1, FS_AddElement, Zenon
      <4> QED
        BY <3>1, <3>3, <4>1, <4>2, Zenon DEF RwCounted
    <3>6. \A u \in RwThreads : ~RwTurn(u)
      BY <1>0, <3>2, Zenon DEF RwFlagged
    <3>7. RwFlagged'
      BY <3>1, <3>6, Zenon DEF RwFlagged, RwTurn
    <3>8. RwNoFlag'
      BY <1>0, <2>2, <3>1, Zenon DEF RwNoFlag
    <3> QED
      BY <3>4, <3>5, <3>7, <3>8, Zenon DEF RwInv
  <2>4. CASE RwGoto(t, "load") /\ UNCHANGED rw_lc
    <3>1. /\ rw_pc' \in [RwThreads -> RwLabels] /\ rw_pc'[t] = "load" /\ \A u \in RwThreads : u # t => rw_pc'[u] = rw_pc[u]
          /\ RwReaders' = RwReaders
      BY <1>0, <2>1, <2>4, RwMoves, Zenon DEF RwLabels
    <3>2. RwTypes' /\ RwCounted'
      BY <1>0, <2>2, <2>4, <3>1, Zenon DEF RwTypes, RwCounted
    <3>3. RwFlagged'
      BY <1>0, <2>1, <2>4, <3>1, Zenon DEF RwFlagged, RwTurn
    <3>4. RwNoFlag'
      BY <1>0, <2>2, <3>1, Zenon DEF RwNoFlag
    <3> QED
      BY <3>2, <3>3, <3>4, Zenon DEF RwInv
  <2> QED
    BY <1>6, <2>3, <2>4, Zenon DEF CasShared
<1>7. ASSUME NEW t \in RwThreads, UnlockShared(t) PROVE RwInv'
  <2>1. rw_pc[t] = "reading" /\ UNCHANGED rw_old /\ rw_lc' = [rw_lc EXCEPT !.r = @ - 1] /\ RwGoto(t, "out")
    BY <1>7, Zenon DEF UnlockShared, RwAt
  <2>2. /\ rw_pc' \in [RwThreads -> RwLabels] /\ rw_pc'[t] = "out" /\ \A u \in RwThreads : u # t => rw_pc'[u] = rw_pc[u]
        /\ RwReaders' = RwReaders \ {t} /\ t \in RwReaders
    BY <1>0, <2>1, RwMoves, Zenon DEF RwLabels, RwReaders
  <2>3. IsFiniteSet(RwReaders) /\ rw_lc.r = Cardinality(RwReaders)
    BY <1>0, Zenon DEF RwCounted
  <2>4. /\ IsFiniteSet(RwReaders \ {t}) /\ Cardinality(RwReaders \ {t}) = Cardinality(RwReaders) - 1
        /\ Cardinality(RwReaders \ {t}) \in Nat
    BY <2>2, <2>3, FS_RemoveElement, FS_CardinalityType, Zenon
  <2>5. rw_lc' \in RwWords /\ rw_lc'.r = rw_lc.r - 1 /\ rw_lc'.w = rw_lc.w
    BY <1>0, <2>1, <2>3, <2>4, Zenon DEF RwTypes, RwWords
  <2>6. RwTypes' /\ RwCounted'
    BY <1>0, <2>1, <2>2, <2>3, <2>4, <2>5, Zenon DEF RwTypes, RwCounted
  <2>7. \A u \in RwThreads : rw_pc[u] # "writing"
    <3>1. rw_lc.r # 0
      BY <1>0, <2>2, NoReaders, Zenon
    <3> QED
      BY <1>0, <3>1, Zenon DEF RwFlagged, RwTurn
  <2>8. RwFlagged'
    BY <1>0, <2>2, <2>5, <2>7, Zenon DEF RwFlagged, RwTurn
  <2>9. RwNoFlag'
    BY <1>0, <2>1, <2>2, Zenon DEF RwNoFlag
  <2> QED
    BY <2>6, <2>8, <2>9, Zenon DEF RwInv
<1>8. CASE UNCHANGED rw_vars
  <2>1. RwTypes' /\ RwCounted'
    BY <1>0, <1>8, Zenon DEF rw_vars, RwTypes, RwCounted, RwReaders
  <2>2. RwFlagged' /\ RwNoFlag'
    BY <1>0, <1>8, Zenon DEF rw_vars, RwFlagged, RwNoFlag, RwTurn
  <2> QED
    BY <2>1, <2>2, Zenon DEF RwInv
<1> QED
  BY <1>1, <1>2, <1>3, <1>4, <1>5, <1>6, <1>7, <1>8, Zenon DEF RwNext, RwStep

-----------------------------------------------------------------------------
\* A thread inside RwLock::lock is alone, whatever the number of threads and
\* however fetch_or, the draining load and the readers' CAS interleave.
THEOREM RwLockExclusive == RwSpec => []RwExclusive
<1>1. RwInit => RwInv
  BY RwInvInit, Zenon
<1>2. RwInv /\ [RwNext]_rw_vars => RwInv'
  BY RwInvStep, Zenon
<1>3. RwInv => RwExclusive
  <2>1. SUFFICES ASSUME RwInv, NEW t \in RwWriters PROVE RwReaders = {} /\ RwWriters = {t}
    BY Zenon DEF RwExclusive
  <2>2. t \in RwThreads /\ rw_pc[t] = "writing"
    BY Zenon DEF RwWriters
  <2>3. rw_lc.r = 0 /\ \A u \in RwThreads : rw_pc[u] = "writing" => u = t
    BY <2>1, <2>2, Zenon DEF RwInv, RwFlagged, RwTurn
  <2>4. RwReaders = {}
    BY <2>1, <2>3, NoReaders, Zenon DEF RwInv
  <2> QED
    BY <2>2, <2>3, <2>4, Zenon DEF RwWriters
<1> QED
  BY <1>1, <1>2, <1>3, PTL DEF RwSpec
=============================================================================
