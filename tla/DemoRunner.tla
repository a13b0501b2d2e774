----------------------------- MODULE DemoRunner -----------------------------
(***************************************************************************)
(* tools/xlang-runner/src/demo/run.rs: a pool of workers runs the planned  *)
(* demo cases, each a few processes started one after the other, awaited   *)
(* under one deadline, killed if need be, judged, and perhaps tried again. *)
(* Cases of one serial group use the same IPC names.                       *)
(***************************************************************************)
EXTENDS Integers, Sequences, FiniteSets, SequencesExt

CONSTANTS
  Cases,       \* planned cases: serial group or None, xfail, whether each process has a ready line
  Jobs,        \* worker threads
  retries

VARIABLES
  next,        \* the unit the next free worker takes
  w,           \* workers
  proc,        \* the processes of each worker's case, as the system has them
  held,        \* processes whose output a child of theirs has inherited
  results      \* one slot per case

vars == <<next, w, proc, held, results>>

None == "none"
Procs(i) == DOMAIN Cases[i].ready
Group(i) == Cases[i].group

\* Seeded fault: a unit per case, serial or not.
ordered_Flat == [u \in DOMAIN Cases |-> <<u>>]

\* Work units: a serial group's cases in order, then every other case.
ordered ==
  LET groups == SetToSeq({Group(i) : i \in DOMAIN Cases} \ {None})
      Members(g) == SelectSeq([i \in DOMAIN Cases |-> i], LAMBDA i : Group(i) = g)
      rest == Members(None)
  IN [k \in DOMAIN groups |-> Members(groups[k])] \o [k \in DOMAIN rest |-> <<rest[k]>>]

Idle == [pc |-> "take", unit |-> 0, k |-> 1, attempts |-> 0, running |-> 0, failure |-> FALSE,
         exit |-> <<>>]

Init == /\ next = 1 /\ w = [j \in Jobs |-> Idle] /\ proc = [j \in Jobs |-> <<>>]
        /\ held = {} /\ results = [i \in DOMAIN Cases |-> None]

Case(j) == ordered[w[j].unit][w[j].k]
At(j, pc) == w[j].pc = pc

\* run_all: take the next unit, or end.
Take(j) ==
  /\ At(j, "take") /\ next' = next + 1
  /\ w' = [w EXCEPT ![j].pc = IF next \in DOMAIN ordered THEN "begin" ELSE "done",
                    ![j].unit = next, ![j].k = 1, ![j].attempts = 0]
  /\ UNCHANGED <<proc, held, results>>

\* run_once: clear the demo's objects and start from nothing.
Begin(j) ==
  /\ At(j, "begin")
  /\ w' = [w EXCEPT ![j].pc = "spawn", ![j].attempts = @ + 1, ![j].running = 0,
                    ![j].failure = FALSE, ![j].exit = [x \in Procs(Case(j)) |-> None]]
  /\ proc' = [proc EXCEPT ![j] = [x \in Procs(Case(j)) |-> "off"]]
  /\ UNCHANGED <<next, held, results>>

\* Start the next process; one with a ready line is awaited.  A process that
\* cannot be started, or shows no line in time, ends the starting.
Spawn(j, starts) ==
  LET x == w[j].running + 1
      waits == Cases[Case(j)].ready[x]
  IN /\ At(j, "spawn") /\ x \in Procs(Case(j))
     /\ proc' = IF starts THEN [proc EXCEPT ![j][x] = "run"] ELSE proc
     /\ w' = [w EXCEPT ![j].pc = IF ~starts THEN "wait" ELSE IF waits THEN "ready" ELSE "spawn",
                       ![j].running = IF starts THEN x ELSE @,
                       ![j].failure = ~starts]
     /\ UNCHANGED <<next, held, results>>

Ready(j, seen) ==
  /\ At(j, "ready")
  /\ w' = [w EXCEPT ![j].pc = IF seen THEN "spawn" ELSE "wait", ![j].failure = ~seen]
  /\ UNCHANGED <<next, proc, held, results>>

AllStarted(j) ==
  /\ At(j, "spawn") /\ w[j].running = Len(Cases[Case(j)].ready)
  /\ w' = [w EXCEPT ![j].pc = "wait"] /\ UNCHANGED <<next, proc, held, results>>

\* A process prints, may start a child that inherits its output, and exits, as
\* expected ("ok": the exit code and the printed lines) or not; so may that child.
Live(j) == {x \in DOMAIN proc[j] : proc[j][x] = "run"}
Exits(j, x, code) ==
  /\ x \in Live(j) /\ proc' = [proc EXCEPT ![j][x] = code]
  /\ UNCHANGED <<next, w, held, results>>
Forks(j, x) ==
  /\ x \in Live(j) /\ held' = held \cup {<<j, x>>} /\ UNCHANGED <<next, w, proc, results>>
ChildExits(j, x) ==
  /\ held' = held \ {<<j, x>>} /\ UNCHANGED <<next, w, proc, results>>

Poll(j, x) == IF w[j].exit[x] = None /\ proc[j][x] # "run" THEN proc[j][x] ELSE w[j].exit[x]

\* One round of the wait: what has exited is noted.  The wait ends when all
\* have exited, at once after a failed start, and otherwise at the deadline or
\* at the end of the grace that an unexpected exit leaves the others (over).
Wait(j, over) ==
  LET exit == [x \in Procs(Case(j)) |-> IF x <= w[j].running THEN Poll(j, x) ELSE None]
      started == 1 .. w[j].running
      all == \A x \in started : exit[x] # None
  IN /\ At(j, "wait")
     /\ w' = [w EXCEPT ![j].exit = exit, ![j].pc = IF all \/ over \/ w[j].failure THEN "kill" ELSE "wait"]
     /\ UNCHANGED <<next, proc, held, results>>

\* Running::kill: look once more, then kill and reap; the process may exit by
\* itself just before.
Kill(j, x, code) ==
  /\ At(j, "kill") /\ x \in 1 .. w[j].running /\ w[j].exit[x] = None
  /\ w' = [w EXCEPT ![j].exit[x] = IF Poll(j, x) = None THEN "killed" ELSE Poll(j, x)]
  /\ proc' = [proc EXCEPT ![j][x] = IF @ = "run" THEN code ELSE @]
  /\ UNCHANGED <<next, held, results>>

\* Seeded fault: the attempt is judged by the exits alone.
ok_NoFailure(j) == \A x \in 1 .. w[j].running : w[j].exit[x] = "ok"

\* The verdict on an attempt.
ok(j) == ~w[j].failure /\ \A x \in 1 .. w[j].running : w[j].exit[x] = "ok"

\* Join the readers, which end only when nobody holds the outputs any more;
\* then judge, and keep the result or try again (run_case).
Judge(j) ==
  LET i == Case(j)
      again == ~ok(j) /\ ~Cases[i].xfail /\ w[j].attempts <= retries
      status == IF ok(j) THEN IF Cases[i].xfail THEN "XPass"
                              ELSE IF w[j].attempts > 1 THEN "Flaky" ELSE "Pass"
                ELSE IF Cases[i].xfail THEN "XFail" ELSE "Fail"
      more == w[j].k < Len(ordered[w[j].unit])
  IN /\ At(j, "kill") /\ \A x \in 1 .. w[j].running : w[j].exit[x] # None /\ <<j, x>> \notin held
     /\ results' = IF again THEN results ELSE [results EXCEPT ![i] = status]
     /\ w' = [w EXCEPT ![j].pc = IF again \/ more THEN "begin" ELSE "take",
                       ![j].k = IF again \/ ~more THEN @ ELSE @ + 1,
                       ![j].attempts = IF again THEN @ ELSE 0]
     /\ UNCHANGED <<next, proc, held>>

Done == (\A j \in Jobs : At(j, "done")) /\ UNCHANGED vars

Step(j) == \/ Take(j) \/ Begin(j) \/ Spawn(j, TRUE) \/ Spawn(j, FALSE) \/ AllStarted(j)
           \/ (\E seen \in BOOLEAN : Ready(j, seen)) \/ Wait(j, FALSE) \/ Wait(j, TRUE)
           \/ Judge(j)
           \/ \E x \in 1 .. w[j].running, code \in {"ok", "bad"} : Kill(j, x, code)
Next == \/ \E j \in Jobs : Step(j) \/ \E x \in DOMAIN proc[j] :
                                        Forks(j, x) \/ \E code \in {"ok", "bad"} : Exits(j, x, code)
        \/ \E h \in held : ChildExits(h[1], h[2])
        \/ Done

Spec == Init /\ [][Next]_vars

-----------------------------------------------------------------------------
Working(j) == w[j].pc \notin {"take", "done"}

\* Two workers are never at cases of one serial group, whose names collide.
DrSerial == \A j, m \in Jobs : j # m /\ Working(j) /\ Working(m) =>
              Group(Case(j)) = None \/ Group(Case(j)) # Group(Case(m))

\* When an attempt is over nothing of it is left running, and it passes only
\* if every process of its case was started and exited by itself as expected,
\* however exits raced the deadline, the grace and the kills.
DrHonest ==
  \A j \in Jobs : Judge(j) =>
    /\ Live(j) = {}
    /\ results'[Case(j)] \in {"Pass", "Flaky", "XPass"}
         => \A x \in DOMAIN proc[j] : proc[j][x] = "ok"
=============================================================================
