---------------------------- MODULE ServiceGroup ----------------------------
(***************************************************************************)
(* A group of redundant instances (service_group.rs) over child processes  *)
(* (process_manager.rs) that register themselves (Registry: a name has one *)
(* entry).  The supervisor is one thread; children start, register, crash  *)
(* and obey or ignore SIGTERM on their own.                                *)
(***************************************************************************)
EXTENDS Integers, FiniteSets

CONSTANTS
  replicas,
  MaxSpawn,      \* bound: processes spawned
  MaxCalls       \* bound: calls of the supervisor

VARIABLES
  auto_respawn,
  unix,          \* a crashed child stays a zombie until it is waited for
  proc,          \* [pid -> [st, name]]
  reg,           \* [instance name -> pid in the registry, 0 if none]
  inst,          \* instances
  primary,       \* primary_idx, 0 if None
  sv,            \* the supervisor: pc and locals
  calls,
  dead0,         \* ghost: children dead when the running health_check began
  leaked, outage \* ghosts: a child given up at its deadline; an election found none

vars == <<auto_respawn, unix, proc, reg, inst, primary, sv, calls, dead0, leaked, outage>>

Insts == 1 .. replicas
Pids == 1 .. MaxSpawn
Idle == [pc |-> "idle", i |-> 0, h |-> 0, failover |-> FALSE, then |-> "idle"]
NoInst == [role |-> "Dead", proc |-> 0, entry |-> 0]

Init == /\ unix \in BOOLEAN /\ auto_respawn \in BOOLEAN
        /\ proc = [p \in Pids |-> [st |-> "none", name |-> 0]]
        /\ reg = [i \in Insts |-> 0] /\ inst = [i \in Insts |-> NoInst]
        /\ primary = 0 /\ sv = Idle /\ calls = 0
        /\ dead0 = {} /\ leaked = FALSE /\ outage = FALSE

Runs(p) == p # 0 /\ proc[p].st \in {"starting", "serving"}

\* Seeded fault: a handle that was once valid is alive.
is_alive_Valid(p) == p # 0 /\ proc[p].st # "gone"

\* ProcessHandle::is_alive: kill(pid, 0) also succeeds for a zombie.
is_alive(p) == p # 0 /\ (Runs(p) \/ (unix /\ proc[p].st = "zombie"))

-----------------------------------------------------------------------------
\* The children.
ChildRegisters(p) ==
  /\ proc[p].st = "starting"
  /\ proc' = [proc EXCEPT ![p].st = "serving"]
  /\ reg' = [reg EXCEPT ![proc[p].name] = IF is_alive(@) THEN @ ELSE p]
  /\ UNCHANGED <<auto_respawn, unix, inst, primary, sv, calls, dead0, leaked, outage>>

ChildCrashes(p) ==
  /\ Runs(p) /\ proc' = [proc EXCEPT ![p].st = "zombie"]
  /\ UNCHANGED <<auto_respawn, unix, reg, inst, primary, sv, calls, dead0, leaked, outage>>

-----------------------------------------------------------------------------
\* The calls.
Call(pc, i, then) == /\ sv = Idle /\ calls < MaxCalls /\ calls' = calls + 1
                     /\ sv' = [Idle EXCEPT !.pc = pc, !.i = i, !.then = then]

Start == /\ calls = 0 /\ Call("spawn", 1, "elect")
         /\ UNCHANGED <<auto_respawn, unix, proc, reg, inst, primary, dead0, leaked, outage>>

HealthCheck == /\ calls > 0 /\ Call("check", 1, "idle")
               /\ dead0' = {p \in Pids : proc[p].st = "zombie"}
               /\ UNCHANGED <<auto_respawn, unix, proc, reg, inst, primary, leaked, outage>>

Respawning == IF auto_respawn THEN [sv EXCEPT !.pc = "respawn", !.i = 1] ELSE Idle

\* Seeded fault: any instance that is not the primary counts as dead.
CheckOne_StandbyDead ==
  LET i == sv.i
      gone == inst[i].role # "Dead" /\ (inst[i].role = "Standby" \/ ~is_alive(inst[i].proc))
  IN /\ sv.pc = "check"
     /\ inst' = IF gone THEN [inst EXCEPT ![i].role = "Dead"] ELSE inst
     /\ LET f == sv.failover \/ (gone /\ inst[i].role = "Primary")
        IN sv' = IF i < replicas THEN [sv EXCEPT !.i = @ + 1, !.failover = f]
                 ELSE IF f THEN [sv EXCEPT !.pc = "elect"] ELSE Respawning
     /\ UNCHANGED <<auto_respawn, unix, proc, reg, primary, calls, dead0, leaked, outage>>

\* health_check's loop over the instances.
CheckOne ==
  LET i == sv.i
      gone == inst[i].role # "Dead" /\ ~is_alive(inst[i].proc)
      f == sv.failover \/ (gone /\ inst[i].role = "Primary")
  IN /\ sv.pc = "check"
     /\ inst' = IF gone THEN [inst EXCEPT ![i].role = "Dead"] ELSE inst
     /\ sv' = IF i < replicas THEN [sv EXCEPT !.i = @ + 1, !.failover = f]
              ELSE IF f THEN [sv EXCEPT !.pc = "elect"] ELSE Respawning
     /\ UNCHANGED <<auto_respawn, unix, proc, reg, primary, calls, dead0, leaked, outage>>

Live == {i \in Insts : is_alive(inst[i].proc)}
First(S) == CHOOSE i \in S : \A j \in S : i <= j

\* elect_primary: the first live instance, the other live ones standing by.
Elect ==
  /\ sv.pc = "elect"
  /\ primary' = IF Live = {} THEN 0 ELSE First(Live)
  /\ inst' = [i \in Insts |->
       [inst[i] EXCEPT !.role = IF i = primary' THEN "Primary"
                                ELSE IF i \in Live THEN "Standby" ELSE @]]
  /\ outage' = (outage \/ Live = {})
  /\ sv' = IF sv.then = "elect" THEN Idle ELSE Respawning
  /\ UNCHANGED <<auto_respawn, unix, proc, reg, calls, dead0, leaked>>

\* respawn_dead: the next instance whose role is Dead.
Respawn ==
  /\ sv.pc = "respawn"
  /\ sv' = IF inst[sv.i].role = "Dead" THEN [sv EXCEPT !.pc = "spawn"]
           ELSE IF sv.i < replicas THEN [sv EXCEPT !.i = @ + 1] ELSE Idle
  /\ UNCHANGED <<auto_respawn, unix, proc, reg, inst, primary, calls, dead0, leaked, outage>>

\* spawn_instance is through with instance i.
Spawned == IF sv.i = replicas
           THEN IF sv.then = "elect" THEN [sv EXCEPT !.pc = "elect", !.h = 0] ELSE Idle
           ELSE [sv EXCEPT !.i = @ + 1, !.h = 0,
                           !.pc = IF sv.then = "elect" THEN "spawn" ELSE "respawn"]

\* spawn_instance: gc, then spawn; it may fail.
Spawn ==
  /\ sv.pc = "spawn"
  /\ reg' = [i \in Insts |-> IF is_alive(reg[i]) THEN reg[i] ELSE 0]
  /\ \/ sv' = Spawned /\ UNCHANGED proc
     \/ \E p \in Pids :
          /\ proc[p].st = "none" /\ \A q \in Pids : q < p => proc[q].st # "none"
          /\ proc' = [proc EXCEPT ![p] = [st |-> "starting", name |-> sv.i]]
          /\ sv' = [sv EXCEPT !.pc = "wait", !.h = p]
  /\ UNCHANGED <<auto_respawn, unix, inst, primary, calls, dead0, leaked, outage>>

\* The registry has the name: find (which drops a dead entry).
WaitFinds ==
  /\ sv.pc = "wait" /\ is_alive(reg[sv.i])
  /\ inst' = [inst EXCEPT ![sv.i] = [role |-> "Standby", proc |-> sv.h, entry |-> reg[sv.i]]]
  /\ sv' = Spawned
  /\ UNCHANGED <<auto_respawn, unix, proc, reg, primary, calls, dead0, leaked, outage>>

\* Both handles are dead, or the deadline has passed: the child is let go.
WaitGivesUp ==
  /\ sv.pc = "wait" /\ ~is_alive(reg[sv.i])
  /\ reg' = [reg EXCEPT ![sv.i] = 0]
  /\ leaked' = (leaked \/ is_alive(sv.h))
  /\ sv' = Spawned
  /\ UNCHANGED <<auto_respawn, unix, proc, inst, primary, calls, dead0, outage>>

\* wait_for_exit: waitpid takes the zombie away.
Reaped(p) == [proc EXCEPT ![p].st = "gone"]

\* Seeded fault: force_failover leaves the role of the one it killed.
ForceFailover_KeepsRole ==
  /\ calls > 0 /\ Call("elect", 1, "idle")
  /\ proc' = IF primary # 0 /\ is_alive(inst[primary].proc) THEN Reaped(inst[primary].proc) ELSE proc
  /\ dead0' = {}
  /\ UNCHANGED <<auto_respawn, unix, reg, inst, primary, leaked, outage>>

\* force_failover: kill and reap the primary, then elect and respawn.
ForceFailover ==
  /\ calls > 0 /\ Call("elect", 1, "idle") /\ dead0' = {}
  /\ proc' = IF primary # 0 /\ is_alive(inst[primary].proc) THEN Reaped(inst[primary].proc) ELSE proc
  /\ inst' = IF primary # 0 THEN [inst EXCEPT ![primary].role = "Dead"] ELSE inst
  /\ UNCHANGED <<auto_respawn, unix, reg, primary, leaked, outage>>

Stop == /\ calls > 0 /\ Call("stop", 1, "idle") /\ dead0' = {}
        /\ UNCHANGED <<auto_respawn, unix, proc, reg, inst, primary, leaked, outage>>

\* shutdown of the next instance: SIGTERM, wait, SIGKILL, wait.
StopOne ==
  LET i == sv.i
  IN /\ sv.pc = "stop"
     /\ proc' = IF is_alive(inst[i].proc) THEN Reaped(inst[i].proc) ELSE proc
     /\ inst' = [inst EXCEPT ![i].role = "Dead"]
     /\ sv' = IF i < replicas THEN [sv EXCEPT !.i = @ + 1] ELSE Idle
     /\ primary' = IF i = replicas THEN 0 ELSE primary
     /\ outage' = (outage \/ i = replicas)
     /\ UNCHANGED <<auto_respawn, unix, reg, calls, dead0, leaked>>

Done == sv = Idle /\ calls = MaxCalls /\ UNCHANGED vars

Next == \/ \E p \in Pids : ChildRegisters(p) \/ ChildCrashes(p)
        \/ Start \/ HealthCheck \/ CheckOne \/ Elect \/ Respawn \/ Spawn
        \/ WaitFinds \/ WaitGivesUp \/ ForceFailover \/ Stop \/ StopOne \/ Done

Spec == Init /\ [][Next]_vars

-----------------------------------------------------------------------------
Primaries == {i \in Insts : inst[i].role = "Primary"}

\* Between calls the group has at most one primary, primary_idx names it, and
\* it has one as soon as an election has found a live instance.
GrpOnePrimary ==
  sv = Idle => /\ Primaries \subseteq {primary}
               /\ calls > 0 /\ ~outage => Primaries = {primary}

\* Unless a child was let go at its deadline, every running child is the one
\* being spawned or an instance's own, and the entry an instance keeps is that
\* of its own process: no respawn loses or doubles a service.
GrpManaged ==
  ~leaked => /\ \A p \in Pids : Runs(p) => p = sv.h \/ \E i \in Insts : inst[i].proc = p
             /\ \A i \in Insts : inst[i].role # "Dead" => inst[i].entry = inst[i].proc

\* Where a crashed child does not linger as a zombie, a health check never
\* returns with a primary that was dead before it began.
GrpFailsOver == ~unix /\ sv = Idle /\ primary # 0 => inst[primary].proc \notin dead0

\* "Manages a group of redundant service instances with automatic failover",
\* on Unix too.
GrpAlwaysFailsOver == sv = Idle /\ primary # 0 => inst[primary].proc \notin dead0
=============================================================================
