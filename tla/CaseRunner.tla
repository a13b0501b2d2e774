----------------------------- MODULE CaseRunner -----------------------------
(***************************************************************************)
(* tools/xlang-runner/src/exec.rs: a pool of workers runs the cases of the *)
(* cross-language matrix.  A case is a group of readers and writers, or a  *)
(* holder that is probed, alive or killed, with perhaps a group after it,  *)
(* or two harnesses whose traces must agree; each is a script of           *)
(* instructions here, in the order of the code's statements.               *)
(***************************************************************************)
EXTENDS Integers, Sequences, FiniteSets, SequencesExt

CONSTANTS
  Cases,       \* planned cases
  Jobs,        \* worker threads
  retries

VARIABLES
  next,        \* the case the next free worker takes
  w,           \* workers: the rest of the script, and whether all is well
  proc,        \* each worker's processes, as the system has them
  results,     \* one slot per case
  lost         \* workers that let go of a process: a wait failed, or was given up

vars == <<next, w, proc, results, lost>>

None == "none"
Names == {"reader", "writer", "holder", "keeper", "first", "second", "reference", "subject"}

I(op, x, part) == [op |-> op, x |-> x, part |-> part]
Instr(op, xs, part) == [k \in DOMAIN xs |-> I(op, xs[k], part)]

\* run_group_inner: all readers, then all writers; then writers and readers
\* are waited for, last started first.
Group(c) == Instr("spawn", c.group, "group") \o Instr("collect", Reverse(c.group), "group")

\* Seeded fault: the probes run without waiting for the killed holder's exit.
run_hold_probe_NoWait(c) ==
  LET probe(x) == <<I("spawn", x, "probe"), I("collect", x, "probe")>>
  IN <<I("ready", "holder", "hold")>>
     \o (IF c.kill THEN <<I("kill", "holder", "hold")>> ELSE <<>>)
     \o probe("first") \o probe("second") \o Group(c) \o <<I("reap", "holder", "end")>>

run_hold_probe(c) ==
  LET probe(x) == <<I("spawn", x, "probe"), I("collect", x, "probe")>>
  IN <<I("ready", "holder", "hold")>>
     \o (IF c.windows /\ c.kill THEN <<I("ready", "keeper", "hold")>> ELSE <<>>)
     \o (IF c.kill THEN <<I("kill", "holder", "hold"),
                          I(IF c.zombie THEN "zombie" ELSE "wait", "holder", "hold")>> ELSE <<>>)
     \o probe("first") \o probe("second") \o Group(c)
     \o <<I("reap", "holder", "end"), I("reap", "keeper", "end")>>

run_conform == LET probe(x) == <<I("spawn", x, "conform"), I("collect", x, "conform")>>
               IN probe("reference") \o probe("subject")

Script(c) == CASE c.kind = "group" -> Group(c)
               [] c.kind = "hold" -> run_hold_probe(c)
               [] c.kind = "conform" -> run_conform

Init == /\ next = 1 /\ results = [i \in DOMAIN Cases |-> None] /\ lost = {}
        /\ w = [j \in Jobs |-> [pc |-> "take", i |-> 0, attempts |-> 0, todo |-> <<>>, ok |-> TRUE]]
        /\ proc = [j \in Jobs |-> [x \in Names |-> "off"]]

\* run_all: take the next case, or end.
Take(j) ==
  /\ w[j].pc = "take" /\ next' = next + 1
  /\ w' = [w EXCEPT ![j].pc = IF next \in DOMAIN Cases THEN "begin" ELSE "done",
                    ![j].i = next, ![j].attempts = 0]
  /\ UNCHANGED <<proc, results, lost>>

\* run_once, after the channel's storage is cleared.
Begin(j) ==
  /\ w[j].pc = "begin"
  /\ w' = [w EXCEPT ![j].pc = "run", ![j].attempts = @ + 1, ![j].ok = TRUE,
                    ![j].todo = Script(Cases[w[j].i])]
  /\ proc' = [proc EXCEPT ![j] = [x \in Names |-> "off"]]
  /\ lost' = lost \ {j} /\ UNCHANGED <<next, results>>

\* What is left to do after an instruction.  A probe that fails spares the
\* group; a process of a group that fails is one among the others; every other
\* failure, and one to start a process of a group, ends the case.
Proceed(j, fine) ==
  LET s == w[j].todo
      rest == CASE fine -> Tail(s)
                [] s[1].part = "probe" -> SelectSeq(Tail(s), LAMBDA m : m.part # "group")
                [] s[1].part = "group" /\ s[1].op = "collect" -> Tail(s)
                [] OTHER -> SelectSeq(s, LAMBDA m : m.part = "end")
      \* a probe's wait goes with its start
  IN w' = [w EXCEPT ![j].ok = @ /\ fine, ![j].todo =
             IF ~fine /\ s[1].part = "probe" /\ s[1].op = "spawn" THEN Tail(rest) ELSE rest]

Does(j, op) == w[j].pc = "run" /\ w[j].todo # <<>> /\ w[j].todo[1].op = op
X(j) == w[j].todo[1].x

\* Seeded fault: a process that cannot be started leaves the ones before it.
Spawn_Leaves(j, starts) ==
  /\ Does(j, "spawn") /\ proc' = IF starts THEN [proc EXCEPT ![j][X(j)] = "run"] ELSE proc
  /\ Proceed(j, starts) /\ UNCHANGED <<next, results, lost>>

\* Start a process.  If one of a group cannot be started, those before it are
\* killed and reaped.
Spawn(j, starts) ==
  /\ Does(j, "spawn")
  /\ proc' = [proc EXCEPT ![j] = [x \in Names |->
                IF x = X(j) /\ starts THEN "run"
                ELSE IF ~starts /\ x \in {"reader", "writer"} /\ @[x] = "run" THEN "bad" ELSE @[x]]]
  /\ Proceed(j, starts) /\ UNCHANGED <<next, results, lost>>

\* wait_collect: the process has exited, as expected or not (the reference is
\* what a subject is compared with, however it exits); a kill at the deadline;
\* or the wait itself fails, and the process is let go.
Collect(j) ==
  /\ Does(j, "collect") /\ proc[j][X(j)] \in {"ok", "bad"}
  /\ Proceed(j, proc[j][X(j)] = "ok" \/ X(j) = "reference") /\ UNCHANGED <<next, proc, results, lost>>
TimesOut(j) ==
  /\ Does(j, "collect") /\ proc' = [proc EXCEPT ![j][X(j)] = IF @ = "run" THEN "bad" ELSE @]
  /\ Proceed(j, FALSE) /\ UNCHANGED <<next, results, lost>>
WaitFails(j) ==
  /\ Does(j, "collect") /\ lost' = lost \cup {j}
  /\ Proceed(j, FALSE) /\ UNCHANGED <<next, proc, results>>

\* spawn_ready: started and READY, or killed and reaped.
SpawnReady(j, ready) ==
  /\ Does(j, "ready") /\ proc' = [proc EXCEPT ![j][X(j)] = IF ready THEN "run" ELSE "bad"]
  /\ Proceed(j, ready) /\ UNCHANGED <<next, results, lost>>

\* kill sends the signal; wait reaps.
Kill(j) ==
  /\ Does(j, "kill") /\ proc' = [proc EXCEPT ![j][X(j)] = IF @ = "run" THEN "dying" ELSE @]
  /\ Proceed(j, TRUE) /\ UNCHANGED <<next, results, lost>>
Gone(j, x) == proc[j][x] \notin {"run", "dying"}
WaitGone(j) ==
  /\ Does(j, "wait") \/ Does(j, "zombie")
  /\ Gone(j, X(j))
  /\ Proceed(j, TRUE) /\ UNCHANGED <<next, proc, results, lost>>

\* wait_until_zombie gives up after five seconds.
ZombieGivenUp(j) ==
  /\ Does(j, "zombie") /\ ~Gone(j, X(j)) /\ lost' = lost \cup {j}
  /\ Proceed(j, TRUE) /\ UNCHANGED <<next, proc, results>>

Reap(j) ==
  /\ Does(j, "reap") /\ proc' = [proc EXCEPT ![j][X(j)] = IF Gone(j, X(j)) THEN @ ELSE "bad"]
  /\ Proceed(j, TRUE) /\ UNCHANGED <<next, results, lost>>

\* run_case: keep the result, or try again.
Judge(j) ==
  LET c == Cases[w[j].i]
      again == ~w[j].ok /\ ~c.xfail /\ w[j].attempts <= retries
      status == CASE w[j].ok /\ c.xfail -> "XPass"
                  [] w[j].ok /\ ~c.xfail -> IF w[j].attempts > 1 THEN "Flaky" ELSE "Pass"
                  [] ~w[j].ok -> IF c.xfail THEN "XFail" ELSE "Fail"
  IN /\ w[j].pc = "run" /\ w[j].todo = <<>>
     /\ w' = [w EXCEPT ![j].pc = IF again THEN "begin" ELSE "take"]
     /\ results' = IF again THEN results ELSE [results EXCEPT ![w[j].i] = status]
     /\ UNCHANGED <<next, proc, lost>>

\* A process exits by itself, as expected or not (an exit code, or a trace or
\* answer that is the one the case expects); a killed one dies.
Exits(j, x, code) ==
  /\ proc[j][x] = "run" \/ (proc[j][x] = "dying" /\ code = "bad")
  /\ proc' = [proc EXCEPT ![j][x] = code] /\ UNCHANGED <<next, w, results, lost>>

Done == (\A j \in Jobs : w[j].pc = "done") /\ UNCHANGED vars

Step(j) == \/ Take(j) \/ Begin(j) \/ (\E b \in BOOLEAN : Spawn(j, b) \/ SpawnReady(j, b))
           \/ Collect(j) \/ TimesOut(j) \/ WaitFails(j)
           \/ Kill(j) \/ WaitGone(j) \/ ZombieGivenUp(j) \/ Reap(j) \/ Judge(j)
Next == \/ \E j \in Jobs : Step(j) \/ \E x \in Names, code \in {"ok", "bad"} : Exits(j, x, code)
        \/ Done

Spec == Init /\ [][Next]_vars

-----------------------------------------------------------------------------
Left(j) == {x \in Names : proc[j][x] = "run" \/ proc[j][x] = "dying"}

\* A case leaves no process behind, on whichever of its paths it ended, unless
\* the system refused a wait; and it passes only if each process it judges
\* had exited by itself as expected.
XrClean ==
  \A j \in Jobs : Judge(j) /\ j \notin lost =>
    /\ Left(j) = {}
    /\ results'[w[j].i] \in {"Pass", "Flaky", "XPass"} =>
         \A x \in Names \ {"holder", "keeper", "reference"} : proc[j][x] \in {"off", "ok"}

\* No probe is started while the holder it is to find dead still runs.
XrProbesMeetDead ==
  \A j \in Jobs : /\ w[j].pc = "run" /\ Cases[w[j].i].kind = "hold" /\ Cases[w[j].i].kill
                  /\ proc[j]["first"] = "run" /\ j \notin lost
                  => Gone(j, "holder")
=============================================================================
