------------------------------ MODULE Registry ------------------------------
(***************************************************************************)
(* The service registry (service_registry.rs): a table of named services   *)
(* in shared memory under a spin lock, whose entries are cleaned when the  *)
(* process id they name is dead.  Process ids are used again.              *)
(***************************************************************************)
EXTENDS Integers, FiniteSets

CONSTANTS
  RegNames,
  RegPids,       \* process ids the system hands out
  MAX_SERVICES,
  MaxBirths      \* bound: processes started

VARIABLES
  spinlock,      \* the pid of the process that holds it, 0 if none
  count,
  entries,       \* [slot -> [name, pid, life]]; life is a ghost
  reg_life,      \* the incarnation running under each pid, 0 if none
  births,
  call,          \* what the holder of the lock is doing
  found,         \* the entry a find has just returned
  reuse          \* ghost: some pid has been used again while an entry names it

reg_vars == <<spinlock, count, entries, reg_life, births, call, found, reuse>>

RegSlots == 1 .. MAX_SERVICES
EmptyEntry == [name |-> "", pid |-> 0, life |-> 0]
RegIdle == [op |-> "idle", name |-> ""]

RegInit == /\ spinlock = 0 /\ count = 0 /\ entries = [i \in RegSlots |-> EmptyEntry]
           /\ reg_life = [p \in RegPids |-> 0] /\ births = 0
           /\ call = RegIdle /\ found = EmptyEntry /\ reuse = FALSE

active(e) == e.name # ""
is_alive(e) == e.pid # 0 /\ reg_life[e.pid] # 0

RegStart(p) ==
  /\ reg_life[p] = 0 /\ births < MaxBirths /\ births' = births + 1
  /\ reg_life' = [reg_life EXCEPT ![p] = births']
  /\ reuse' = (reuse \/ \E i \in RegSlots : entries[i].pid = p)
  /\ UNCHANGED <<spinlock, count, entries, call, found>>

\* A process ends outside the registry: inside, it takes the lock with it.
RegExit(p) ==
  /\ reg_life[p] # 0 /\ spinlock # p
  /\ reg_life' = [reg_life EXCEPT ![p] = 0]
  /\ UNCHANGED <<spinlock, count, entries, births, call, found, reuse>>

\* A call spins until the compare-exchange of lock() takes the lock.
RegLock(p) ==
  /\ reg_life[p] # 0 /\ spinlock = 0 /\ spinlock' = p /\ found' = EmptyEntry
  /\ call' \in [op : {"register", "unregister", "find"}, name : RegNames]
             \cup [op : {"list", "clear"}, name : {""}]
  /\ UNCHANGED <<count, entries, reg_life, births, reuse>>

RegReturn(p) == spinlock = p /\ spinlock' = 0 /\ call' = RegIdle

\* The slot of S that a loop over the entries meets first.
First(S) == {i \in S : \A j \in S : i <= j}
Named(n) == {i \in RegSlots : entries[i].name = n}
Usable == {i \in RegSlots : ~active(entries[i]) \/ ~is_alive(entries[i])}

fill_entry(i, n, p) == [entries EXCEPT ![i] = [name |-> n, pid |-> p, life |-> reg_life[p]]]

\* Seeded fault: a slot is taken without looking for the name first.
Register_NoDuplicateCheck(p) ==
  /\ call.op = "register" /\ RegReturn(p) /\ Usable # {}
  /\ \E i \in First(Usable) : entries' = fill_entry(i, call.name, p)
  /\ UNCHANGED <<count, reg_life, births, found, reuse>>

\* register_service_as: the name's own slot when its process is dead, else the
\* first slot that is empty or dead.
Register(p) ==
  LET n == call.name
  IN /\ call.op = "register" /\ RegReturn(p)
     /\ IF Named(n) # {}
        THEN /\ \E i \in First(Named(n)) :
                  entries' = IF is_alive(entries[i]) THEN entries ELSE fill_entry(i, n, p)
             /\ UNCHANGED count
        ELSE IF Usable # {}
        THEN /\ \E i \in First(Usable) : entries' = fill_entry(i, n, p)
             /\ count' = IF count < MAX_SERVICES THEN count + 1 ELSE count
        ELSE UNCHANGED <<entries, count>>
     /\ UNCHANGED <<reg_life, births, found, reuse>>

\* Seeded fault: whoever asks may unregister a name.
Unregister_Any(p) ==
  LET own == Named(call.name)
  IN /\ call.op = "unregister" /\ RegReturn(p)
     /\ IF own = {} THEN UNCHANGED entries
        ELSE \E i \in First(own) : entries' = [entries EXCEPT ![i] = EmptyEntry]
     /\ UNCHANGED <<count, reg_life, births, found, reuse>>

\* unregister_service_as: the entry that carries the caller's pid.
Unregister(p) ==
  LET own == {i \in Named(call.name) : entries[i].pid = p}
  IN /\ call.op = "unregister" /\ RegReturn(p)
     /\ IF own = {} THEN UNCHANGED entries
        ELSE \E i \in First(own) : entries' = [entries EXCEPT ![i] = EmptyEntry]
     /\ UNCHANGED <<count, reg_life, births, found, reuse>>

\* Seeded fault: find does not ask whether the process is alive.
Find_Stale(p) ==
  LET n == Named(call.name)
  IN /\ call.op = "find" /\ RegReturn(p)
     /\ IF n = {} THEN found' = EmptyEntry ELSE \E i \in First(n) : found' = entries[i]
     /\ UNCHANGED <<entries, count, reg_life, births, reuse>>

\* find: the first live entry of the name; dead ones before it are cleaned.
Find(p) ==
  LET n == Named(call.name)
      live == {i \in n : is_alive(entries[i])}
  IN /\ call.op = "find" /\ RegReturn(p)
     /\ IF live = {} THEN found' = EmptyEntry ELSE \E f \in First(live) : found' = entries[f]
     /\ entries' = [i \in RegSlots |-> IF i \in n \ live /\ \A f \in live : i < f
                                       THEN EmptyEntry ELSE entries[i]]
     /\ UNCHANGED <<count, reg_life, births, reuse>>

\* list, find_all and gc: every dead entry is cleaned.
List(p) ==
  /\ call.op = "list" /\ RegReturn(p)
  /\ entries' = [i \in RegSlots |-> IF is_alive(entries[i]) THEN entries[i] ELSE EmptyEntry]
  /\ UNCHANGED <<count, reg_life, births, found, reuse>>

RegClear(p) ==
  /\ call.op = "clear" /\ RegReturn(p)
  /\ entries' = [i \in RegSlots |-> EmptyEntry] /\ count' = 0
  /\ UNCHANGED <<reg_life, births, found, reuse>>

\* The last process is gone, with or without the lock.
RegDone == births = MaxBirths /\ (\A p \in RegPids : reg_life[p] = 0) /\ UNCHANGED reg_vars

RegNext == \/ \E p \in RegPids : \/ RegStart(p) \/ RegExit(p) \/ RegLock(p)
                                 \/ Register(p) \/ Unregister(p) \/ Find(p) \/ List(p) \/ RegClear(p)
           \/ RegDone

RegSpec == RegInit /\ [][RegNext]_reg_vars

-----------------------------------------------------------------------------
\* A name is never in two slots, so find and unregister cannot pick the wrong
\* one, however registrations, deaths and cleanings interleave.
RegUnique == \A i, j \in RegSlots : active(entries[i]) /\ entries[i].name = entries[j].name => i = j

Kept ==
  \A i \in RegSlots :
    active(entries[i]) /\ is_alive(entries[i]) /\ entries'[i] # entries[i]
      => call.op = "clear" \/ (call.op = "unregister" /\ spinlock = entries[i].pid)
Honest ==
  ~reuse /\ found' # EmptyEntry /\ found' # found => reg_life[found'.pid] = found'.life

\* The entry of a process that is alive goes only by its own unregister or a
\* clear: no other process's register, find or cleaning takes it.  And unless
\* a pid was used again, find returns the process that registered the name,
\* and returns it alive.
RegKept == [][Kept /\ Honest]_reg_vars
=============================================================================
