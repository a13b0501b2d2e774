----------------------------- MODULE Semaphore -----------------------------
(***************************************************************************)
(* IpcSemaphore (semaphore.rs): on macOS a count in a shared segment slept *)
(* on with __ulock_wait, whose first opener stores the initial count; on   *)
(* other Unixes a named POSIX semaphore beside a segment that counts the   *)
(* open handles, whose last closer unlinks the semaphore.  Segments are    *)
(* acquired and released in one step here; Segment.tla opens those up.     *)
(***************************************************************************)
EXTENDS Integers, FiniteSets

CONSTANTS SmThreads,  \* each opens the name in a process of its own
          SmCount,    \* the initial count every opener asks for
          SmOps,      \* calls a thread makes
          SmObjs      \* objects created under the name

ASSUME SmConstants == IsFiniteSet(SmThreads) /\ SmCount \in Nat /\ SmOps \in Nat /\ SmObjs \in Nat

VARIABLES sm_backend,    \* "apple" or "posix"
          sm_name,       \* the object the name leads to, 0 none; posix: the semaphore
          sm_refs,       \* handles counted in the segment
          sm_made,       \* objects created
          sm_val,        \* each object's count
          sm_posted, sm_taken,  \* what was posted to and taken from each object
          sm_queue,      \* threads the kernel holds on a count
          sm_raced,      \* a handle was opened or closed during another's open or close
          sm_p

sm_vars == <<sm_backend, sm_name, sm_refs, sm_made, sm_val, sm_posted, sm_taken, sm_queue,
             sm_raced, sm_p>>
sm_counts == <<sm_val, sm_posted, sm_taken>>

SmObjects == 1 .. SmObjs
SmClosed == [pc |-> "closed", obj |-> 0, ops |-> 0, n |-> 0]

SmInit == /\ sm_backend \in {"apple", "posix"}
          /\ sm_name = 0 /\ sm_refs = 0 /\ sm_made = 0
          /\ sm_val = [o \in SmObjects |-> 0] /\ sm_posted = sm_val /\ sm_taken = sm_val
          /\ sm_queue = {} /\ sm_raced = FALSE
          /\ sm_p = [t \in SmThreads |-> SmClosed]

SmAt(t, l) == sm_p[t].pc = l
SmGoto(t, l) == sm_p' = [sm_p EXCEPT ![t].pc = l]
SmBetween(t) ==
  \E u \in SmThreads \ {t} : sm_p[u].pc \in {"init", "store", "sem_open", "sem_unlink"}

\* open: acquire the segment (macOS: the semaphore itself) ...
SemAcquire(t) ==
  /\ SmAt(t, "closed") /\ sm_p[t].ops < SmOps
  /\ LET o == IF sm_name # 0 THEN sm_name ELSE sm_made + 1
     IN IF sm_backend = "apple"
        THEN /\ o \in SmObjects /\ sm_name' = o /\ sm_made' = IF sm_name = 0 THEN o ELSE sm_made
             /\ sm_p' = [sm_p EXCEPT ![t] = [SmClosed EXCEPT !.pc = "init", !.obj = o,
                                                             !.ops = sm_p[t].ops + 1]]
        ELSE /\ sm_p' = [sm_p EXCEPT ![t] = [sm_p[t] EXCEPT !.pc = "sem_open", !.ops = @ + 1]]
             /\ UNCHANGED <<sm_name, sm_made>>
  /\ sm_refs' = sm_refs + 1
  /\ sm_raced' = (sm_raced \/ SmBetween(t))
  /\ UNCHANGED <<sm_backend, sm_counts, sm_queue>>

\* ... macOS: the only handle stores the count, after the check ...
SemInitCheck(t) ==
  /\ SmAt(t, "init")
  /\ SmGoto(t, IF sm_refs <= 1 THEN "store" ELSE "open")
  /\ UNCHANGED <<sm_backend, sm_name, sm_refs, sm_made, sm_counts, sm_queue, sm_raced>>

\* Seeded fault: the initial count is added to what is there.
SemInitStore_Adds(t) ==
  /\ SmAt(t, "store")
  /\ sm_val' = [sm_val EXCEPT ![sm_p[t].obj] = @ + SmCount + 1]
  /\ SmGoto(t, "open")
  /\ UNCHANGED <<sm_backend, sm_name, sm_refs, sm_made, sm_posted, sm_taken, sm_queue, sm_raced>>

SemInitStore(t) ==
  /\ SmAt(t, "store")
  /\ sm_val' = [sm_val EXCEPT ![sm_p[t].obj] = SmCount]
  /\ SmGoto(t, "open")
  /\ UNCHANGED <<sm_backend, sm_name, sm_refs, sm_made, sm_posted, sm_taken, sm_queue, sm_raced>>

\* ... elsewhere: sem_open creates the semaphore with its count, or finds it.
SemOpen(t) ==
  /\ SmAt(t, "sem_open")
  /\ IF sm_name # 0 THEN UNCHANGED <<sm_name, sm_made, sm_val>>
     ELSE /\ sm_made < SmObjs /\ sm_made' = sm_made + 1 /\ sm_name' = sm_made + 1
          /\ sm_val' = [sm_val EXCEPT ![sm_made + 1] = SmCount]
  /\ sm_p' = [sm_p EXCEPT ![t] = [sm_p[t] EXCEPT !.pc = "open", !.obj = sm_name']]
  /\ UNCHANGED <<sm_backend, sm_refs, sm_posted, sm_taken, sm_queue, sm_raced>>

\* wait: the decrement, or the kernel's sleep on a zero count.
SemWait(t) ==
  /\ \/ SmAt(t, "open") /\ sm_p[t].ops < SmOps
     \/ SmAt(t, "wait") /\ t \notin sm_queue
  /\ IF sm_val[sm_p[t].obj] > 0
     THEN /\ sm_val' = [sm_val EXCEPT ![sm_p[t].obj] = @ - 1]
          /\ sm_taken' = [sm_taken EXCEPT ![sm_p[t].obj] = @ + 1]
          /\ sm_p' = [sm_p EXCEPT ![t] = [sm_p[t] EXCEPT !.pc = "open", !.ops = @ + 1]] /\ UNCHANGED sm_queue
     ELSE SmGoto(t, "wait") /\ sm_queue' = sm_queue \cup {t} /\ UNCHANGED <<sm_val, sm_taken>>
  /\ UNCHANGED <<sm_backend, sm_name, sm_refs, sm_made, sm_posted, sm_raced>>

SemTimedOut(t) ==
  /\ SmAt(t, "wait") /\ t \in sm_queue
  /\ sm_queue' = sm_queue \ {t}
  /\ sm_p' = [sm_p EXCEPT ![t] = [sm_p[t] EXCEPT !.pc = "open", !.ops = @ + 1]]
  /\ UNCHANGED <<sm_backend, sm_name, sm_refs, sm_made, sm_counts, sm_raced>>

\* post(n) adds and wakes, one at a time; sem_post does the same in the kernel.
SemPost(t) ==
  /\ \/ SmAt(t, "open") /\ sm_p[t].ops < SmOps
     \/ SmAt(t, "post") /\ sm_p[t].n > 0
  /\ sm_val' = [sm_val EXCEPT ![sm_p[t].obj] = @ + 1]
  /\ sm_posted' = [sm_posted EXCEPT ![sm_p[t].obj] = @ + 1]
  /\ \E n \in IF SmAt(t, "open") THEN 0 .. 1 ELSE {sm_p[t].n - 1} :
       sm_p' = [sm_p EXCEPT ![t] = [sm_p[t] EXCEPT
         !.pc = "wake", !.n = n, !.ops = IF SmAt(t, "open") THEN @ + 1 ELSE @]]
  /\ UNCHANGED <<sm_backend, sm_name, sm_refs, sm_made, sm_taken, sm_queue, sm_raced>>

\* Seeded fault: post adds and does not wake.
SemPostWake_Never(t) ==
  /\ SmAt(t, "wake")
  /\ SmGoto(t, IF sm_p[t].n > 0 THEN "post" ELSE "open")
  /\ UNCHANGED <<sm_backend, sm_name, sm_refs, sm_made, sm_counts, sm_queue, sm_raced>>

SemPostWake(t) ==
  /\ SmAt(t, "wake")
  /\ LET Q == {u \in sm_queue : sm_p[u].obj = sm_p[t].obj}
     IN IF Q = {} THEN UNCHANGED sm_queue ELSE \E u \in Q : sm_queue' = sm_queue \ {u}
  /\ SmGoto(t, IF sm_p[t].n > 0 THEN "post" ELSE "open")
  /\ UNCHANGED <<sm_backend, sm_name, sm_refs, sm_made, sm_counts, sm_raced>>

\* Seeded fault: every closer unlinks the semaphore.
SemDrop_Unlinks(t) ==
  /\ SmAt(t, "open")
  /\ sm_refs' = sm_refs - 1
  /\ sm_name' = IF sm_backend = "apple" /\ sm_refs <= 1 THEN 0 ELSE sm_name
  /\ sm_p' = [sm_p EXCEPT ![t] = [sm_p[t] EXCEPT
       !.pc = IF sm_backend = "posix" THEN "sem_unlink" ELSE "closed", !.obj = 0]]
  /\ sm_raced' = (sm_raced \/ SmBetween(t))
  /\ UNCHANGED <<sm_backend, sm_made, sm_counts, sm_queue>>

\* Drop: the last handle of the segment unlinks it, and then the semaphore.
SemDrop(t) ==
  /\ SmAt(t, "open")
  /\ sm_refs' = sm_refs - 1
  /\ sm_name' = IF sm_backend = "apple" /\ sm_refs <= 1 THEN 0 ELSE sm_name
  /\ sm_p' = [sm_p EXCEPT ![t] = [sm_p[t] EXCEPT
       !.pc = IF sm_backend = "posix" /\ sm_refs <= 1 THEN "sem_unlink" ELSE "closed", !.obj = 0]]
  /\ sm_raced' = (sm_raced \/ SmBetween(t))
  /\ UNCHANGED <<sm_backend, sm_made, sm_counts, sm_queue>>

SemUnlink(t) ==
  /\ SmAt(t, "sem_unlink")
  /\ sm_name' = 0 /\ SmGoto(t, "closed")
  /\ UNCHANGED <<sm_backend, sm_refs, sm_made, sm_counts, sm_queue, sm_raced>>

SmDone == /\ \A t \in SmThreads : \/ SmAt(t, "closed") /\ sm_p[t].ops = SmOps
                                  \/ t \in sm_queue
                                  \/ sm_name = 0 /\ sm_made = SmObjs
          /\ UNCHANGED sm_vars

SmStep(t) == \/ SemInitCheck(t) \/ SemInitStore(t) \/ SemOpen(t) \/ SemWait(t) \/ SemPost(t)
             \/ SemPostWake(t) \/ SemUnlink(t)

SmNext == \/ \E t \in SmThreads : SemAcquire(t) \/ SmStep(t) \/ SemTimedOut(t) \/ SemDrop(t)
          \/ SmDone

SmSpec == SmInit /\ [][SmNext]_sm_vars

-----------------------------------------------------------------------------
SmOpen == {t \in SmThreads : sm_p[t].pc \in {"open", "wait", "post", "wake"}}

\* No permit is lost or made up: what is in an open semaphore, and what was
\* taken from it, is the initial count and what was posted.
SmConserved ==
  \A t \in SmOpen :
    sm_val[sm_p[t].obj] + sm_taken[sm_p[t].obj] = SmCount + sm_posted[sm_p[t].obj]

\* No waiter sleeps on with a permit there: someone has been woken for it, or
\* the wake is on the way.
SmNoSleeper ==
  \A t \in sm_queue : sm_val[sm_p[t].obj] > 0 =>
    \E u \in SmThreads : /\ sm_p[u].obj = sm_p[t].obj
                         /\ \/ sm_p[u].pc = "wake"
                            \/ sm_p[u].pc = "wait" /\ u \notin sm_queue

\* Handles open at the same time share one semaphore.
SmOneObject == \A t, u \in SmOpen : sm_p[t].obj = sm_p[u].obj

\* Unless a handle was opened or closed during another's open or close (the
\* store of the initial count, or the unlink, then hits a semaphore in use),
\* permits are neither lost nor made up, nobody sleeps on with a permit there,
\* and handles open together share one object.
SemaphoreSound == ~sm_raced => SmConserved /\ SmNoSleeper /\ SmOneObject
=============================================================================
