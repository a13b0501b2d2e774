------------------------------ MODULE Segment ------------------------------
(***************************************************************************)
(* PlatformShm on POSIX: one name, the objects it has stood for, and the   *)
(* handles of Procs.  A segment's reference counter trails the mapped size,*)
(* so an object has one counter for every size it has been mapped at.      *)
(* Sizing, mapping, counting and unlinking are separate system calls, and  *)
(* a process may be killed between any two of them.  Deadlines fire at any *)
(* time.                                                                   *)
(***************************************************************************)
EXTENDS Integers, FiniteSets

CONSTANTS
  Procs,
  Sizes,       \* total sizes asked for, an interval from 1
  MaxObj,      \* bound: objects created
  MaxOps       \* bound: calls

VARIABLES
  can_grow,    \* can_grow(): FALSE on macOS, where an object is sized once
  name,        \* the object the name stands for, 0 when it is unlinked
  size, cnt,   \* of each object: its size, its counters
  h,           \* each process's handle and call
  wiped,       \* objects an ftruncate has taken counters from
  made, ops

vars == <<can_grow, name, size, cnt, h, wiped, made, ops>>
Objects == 1 .. MaxObj
Idle == [pc |-> "idle", mode |-> "", obj |-> 0, want |-> 0, at |-> 0, fd |-> 0, prev |-> 0]

Init == /\ can_grow \in BOOLEAN /\ name = 0
        /\ size = [o \in Objects |-> 0]
        /\ cnt = [o \in Objects |-> [s \in Sizes |-> 0]]
        /\ h = [t \in Procs |-> Idle] /\ wiped = {} /\ made = 0 /\ ops = 0

At(t, l) == h[t].pc = l
Goto(t, l) == h' = [h EXCEPT ![t].pc = l]

-----------------------------------------------------------------------------
(* acquire *)

\* shm_open(O_CREAT | O_EXCL) makes the object ...
OpenExcl(t) ==
  /\ At(t, "idle") /\ ops < MaxOps /\ ops' = ops + 1
  /\ \E mode \in {"Create", "CreateOrOpen"}, want \in Sizes :
       IF name = 0
       THEN /\ made < MaxObj /\ made' = made + 1 /\ name' = made'
            /\ h' = [h EXCEPT ![t] = [Idle EXCEPT !.pc = "size", !.obj = made', !.want = want]]
       ELSE /\ h' = IF mode = "Create" THEN h
                    ELSE [h EXCEPT ![t] = [Idle EXCEPT !.pc = "open", !.want = want]]
            /\ UNCHANGED <<made, name>>
  /\ UNCHANGED <<can_grow, size, cnt, wiped>>

\* ... or it exists, unless it has been unlinked since; ShmMode::Open starts
\* here and does not wait for a size.
OpenName(t) ==
  /\ \/ At(t, "open") /\ UNCHANGED ops
        /\ h' = [h EXCEPT ![t] = IF name = 0 THEN Idle
                                 ELSE [@ EXCEPT !.pc = "wait", !.obj = name]]
     \/ At(t, "idle") /\ ops < MaxOps /\ ops' = ops + 1 /\ name # 0
        /\ \E want \in Sizes :
             h' = [h EXCEPT ![t] = [Idle EXCEPT !.pc = "map", !.mode = "Open",
                                                !.obj = name, !.want = want]]
  /\ UNCHANGED <<can_grow, name, size, cnt, wiped, made>>

\* ftruncate.  What lies past the new end is gone, counters included; on macOS
\* an object is sized once, and a second call fails "and can even zero the
\* object".
Ftruncate(o, want) ==
  IF can_grow \/ size[o] = 0
  THEN /\ size' = [size EXCEPT ![o] = want]
       /\ cnt' = [cnt EXCEPT ![o] = [s \in Sizes |-> IF s > want THEN 0 ELSE @[s]]]
       /\ wiped' = wiped \cup {x \in {o} : want < size[x]}
  ELSE /\ \/ cnt' = [cnt EXCEPT ![o] = [s \in Sizes |-> 0]] /\ wiped' = wiped \cup {o}
          \/ UNCHANGED <<cnt, wiped>>
       /\ UNCHANGED size

\* ftruncate_to_size: the failure is fine if the object is large enough.
FtruncateToSize(t, o, ok, err) ==
  /\ Ftruncate(o, h[t].want)
  /\ h' = [h EXCEPT ![t] = IF size'[o] >= @.want THEN [@ EXCEPT !.pc = ok] ELSE err]

\* The creator sizes the object; an opener waits for that, and sizes it itself
\* when the deadline has passed.
Size(t) ==
  /\ At(t, "size") \/ At(t, "recover")
  /\ FtruncateToSize(t, h[t].obj, "map", Idle)
  /\ UNCHANGED <<can_grow, name, made, ops>>

WaitUntilSized(t) ==
  /\ At(t, "wait")
  /\ Goto(t, IF size[h[t].obj] >= h[t].want THEN "map" ELSE "recover")
  /\ UNCHANGED <<can_grow, name, size, cnt, wiped, made, ops>>

\* mmap_and_finish: the count from before tells the first handle apart; a
\* mapping longer than its object faults at the counter.
Map(t) ==
  LET o == h[t].obj s == h[t].want
  IN /\ At(t, "map")
     /\ IF size[o] < s THEN h' = [h EXCEPT ![t] = Idle] /\ UNCHANGED cnt
        ELSE /\ cnt' = [cnt EXCEPT ![o][s] = @ + 1]
             /\ h' = [h EXCEPT ![t].pc = IF cnt[o][s] = 0 THEN "init" ELSE "held",
                               ![t].at = s, ![t].prev = cnt[o][s]]
     /\ UNCHANGED <<can_grow, name, size, wiped, made, ops>>

\* cached_shm_acquire: the first handle initialises the contents.
InitFn(t) ==
  /\ At(t, "init") /\ Goto(t, "held")
  /\ UNCHANGED <<can_grow, name, size, cnt, wiped, made, ops>>

-----------------------------------------------------------------------------
(* grow *)

GrowOpen(t) ==
  /\ At(t, "held") /\ ops < MaxOps /\ ops' = ops + 1
  /\ \E want \in Sizes :
       /\ want > h[t].at
       /\ h' = IF ~can_grow \/ name = 0 THEN h
               ELSE [h EXCEPT ![t].fd = name, ![t].want = want,
                              ![t].pc = IF size[name] < want THEN "g_size" ELSE "g_map"]
  /\ UNCHANGED <<can_grow, name, size, cnt, wiped, made>>

GrowSize(t) ==
  /\ At(t, "g_size")
  /\ FtruncateToSize(t, h[t].fd, "g_map", [h[t] EXCEPT !.pc = "held", !.fd = 0])
  /\ UNCHANGED <<can_grow, name, made, ops>>

\* Seeded fault: the grown handle holds no reference on the new counter.
GrowMap_NoRef(t) ==
  /\ At(t, "g_map")
  /\ h' = [h EXCEPT ![t].pc = "g_drop", ![t].prev = cnt[h[t].fd][h[t].want]]
  /\ UNCHANGED <<can_grow, name, size, cnt, wiped, made, ops>>

\* A reference on the new counter ...
GrowMap(t) ==
  LET o == h[t].fd s == h[t].want
  IN /\ At(t, "g_map")
     /\ IF size[o] < s THEN h' = [h EXCEPT ![t] = Idle] /\ UNCHANGED cnt
        ELSE /\ cnt' = [cnt EXCEPT ![o][s] = @ + 1]
             /\ h' = [h EXCEPT ![t].pc = "g_drop", ![t].prev = cnt[o][s]]
     /\ UNCHANGED <<can_grow, name, size, wiped, made, ops>>

\* ... for the one on the old.
GrowDrop(t) ==
  /\ At(t, "g_drop")
  /\ cnt' = [cnt EXCEPT ![h[t].obj][h[t].at] = @ - 1]
  /\ h' = [h EXCEPT ![t].pc = "held", ![t].obj = h[t].fd, ![t].at = h[t].want, ![t].fd = 0]
  /\ UNCHANGED <<can_grow, name, size, wiped, made, ops>>

-----------------------------------------------------------------------------
(* release_mapping: give the reference up; the last one unlinks the name.  *)

Release(t) ==
  LET o == h[t].obj s == h[t].at
  IN /\ At(t, "held")
     /\ cnt' = [cnt EXCEPT ![o][s] = @ - 1]
     /\ h' = [h EXCEPT ![t] = IF cnt[o][s] <= 1 THEN [Idle EXCEPT !.pc = "unlink"] ELSE Idle]
     /\ UNCHANGED <<can_grow, name, size, wiped, made, ops>>

Unlink(t) ==
  /\ At(t, "unlink") /\ name' = 0 /\ h' = [h EXCEPT ![t] = Idle]
  /\ UNCHANGED <<can_grow, size, cnt, wiped, made, ops>>

\* clear_storage, unlink_by_name.
ClearStorage(t) ==
  /\ At(t, "idle") /\ name # 0 /\ ops < MaxOps /\ ops' = ops + 1 /\ name' = 0
  /\ UNCHANGED <<can_grow, size, cnt, h, wiped, made>>

\* A killed process leaves its reference behind.
Die(t) ==
  /\ h[t].pc # "idle" /\ h' = [h EXCEPT ![t] = Idle]
  /\ UNCHANGED <<can_grow, name, size, cnt, wiped, made, ops>>

Done ==
  /\ \A t \in Procs : At(t, "idle")
  /\ ops = MaxOps \/ made = MaxObj
  /\ UNCHANGED vars

Next == \/ \E t \in Procs :
             \/ OpenExcl(t) \/ OpenName(t) \/ Size(t) \/ WaitUntilSized(t) \/ Map(t) \/ InitFn(t)
             \/ GrowOpen(t) \/ GrowSize(t) \/ GrowMap(t) \/ GrowDrop(t)
             \/ Release(t) \/ Unlink(t) \/ ClearStorage(t) \/ Die(t)
        \/ Done

Spec == Init /\ [][Next]_vars

-----------------------------------------------------------------------------
Mapped(t) == h[t].pc \in {"init", "held", "g_size", "g_map", "g_drop"}

\* Two handles mapped at one size never both found the counter at zero: one of
\* prev_ref_count's users at most takes itself for the first, whatever grew,
\* died or was unlinked meanwhile.  (Objects whose counters an ftruncate took
\* away, by shrinking or, on macOS, by coming second, are left out.)
SegOneFirst ==
  \A t, u \in Procs :
    /\ t # u /\ Mapped(t) /\ Mapped(u) /\ h[t].obj = h[u].obj /\ h[t].at = h[u].at
    /\ h[t].pc # "g_drop" /\ h[u].pc # "g_drop" /\ h[t].obj \notin wiped
    => h[t].prev > 0 \/ h[u].prev > 0

\* t has a reference on o's counter for size s; while it grows, on two.
Refers(t, o, s) == \/ Mapped(t) /\ h[t].obj = o /\ h[t].at = s
                   \/ At(t, "g_drop") /\ h[t].fd = o /\ h[t].want = s

\* A handle that counts itself the last at its size, and unlinks the name, is
\* the last: every live handle is on the counter of the size it is mapped at,
\* through a grow too.
SegCounted ==
  \A o \in Objects \ wiped, s \in Sizes :
    Cardinality({t \in Procs : Refers(t, o, s)}) <= cnt[o][s]
=============================================================================
