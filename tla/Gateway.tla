------------------------------- MODULE Gateway -------------------------------
(***************************************************************************)
(* demo_async_gateway.rs: one agent process per device sends readings over *)
(* a route of its own; the gateway awaits all routes at once, one task per *)
(* device on one thread, next to a task that prints statistics and a       *)
(* deadline for the whole run.  A route is the queue Route promises, its   *)
(* readiness signal (Notify) the wake-up of a task.                        *)
(***************************************************************************)
EXTENDS Integers, Sequences, FiniteSets, FiniteSetsExt

CONSTANTS Devices,
          readings,   \* what each agent sends and the gateway waits for
          Cap         \* messages a ring holds

VARIABLES q,          \* what each device's task has still to receive
          conn,       \* devices whose route has a receiver
          agent, task, stats, exit,
          got         \* what each task has received

vars == <<q, conn, agent, task, stats, exit, got>>

Init == /\ q = [d \in Devices |-> <<>>] /\ conn = {}
        /\ agent = [d \in Devices |-> [pc |-> "wait", n |-> 0]]
        /\ task = [d \in Devices |-> "connect"] /\ stats = "tick" /\ exit = -1
        /\ got = [d \in Devices |-> <<>>]

AgentTo(d, pc) == agent' = [agent EXCEPT ![d].pc = pc]

\* agent: wait_for_recv(1, 10 s), and give up without a reading sent.
WaitForRecv(d) ==
  /\ agent[d].pc = "wait" /\ d \in conn /\ AgentTo(d, "send")
  /\ UNCHANGED <<q, conn, task, stats, exit, got>>

NeverSubscribed(d) ==
  /\ agent[d].pc = "wait" /\ d \notin conn /\ AgentTo(d, "exit")
  /\ UNCHANGED <<q, conn, task, stats, exit, got>>

\* Send a reading.  The agent looks at an error only: a send that returned
\* false because nobody listens counts as sent, and so does one that threw a
\* receiver off which left the ring full for five seconds.
Send(d) ==
  /\ agent[d].pc = "send" /\ agent[d].n < readings
  /\ IF d \in conn /\ Len(q[d]) = Cap
     THEN conn' = conn \ {d} /\ UNCHANGED q
     ELSE q' = [q EXCEPT ![d] = IF d \in conn THEN Append(@, agent[d].n) ELSE @] /\ UNCHANGED conn
  /\ agent' = [agent EXCEPT ![d].n = @ + 1]
  /\ UNCHANGED <<task, stats, exit, got>>

AgentDone(d) ==
  /\ agent[d].pc = "send" /\ agent[d].n = readings /\ AgentTo(d, "exit")
  /\ UNCHANGED <<q, conn, task, stats, exit, got>>

\* A task connects; one that cannot just returns.
Connect(d, ok) ==
  /\ exit = -1 /\ task[d] = "connect"
  /\ task' = [task EXCEPT ![d] = IF ok THEN "recv" ELSE "done"]
  /\ conn' = IF ok THEN conn \cup {d} ELSE conn
  /\ UNCHANGED <<q, agent, stats, exit, got>>

\* rx.recv().await, once per reading; then the route is dropped.  A receiver
\* that was thrown off still reads what it had (its cursor is its own).
Recv(d) ==
  /\ exit = -1 /\ task[d] = "recv" /\ q[d] # <<>>
  /\ got' = [got EXCEPT ![d] = Append(@, Head(q[d]))]
  /\ q' = [q EXCEPT ![d] = Tail(@)]
  /\ IF Len(got'[d]) = readings
     THEN task' = [task EXCEPT ![d] = "done"] /\ conn' = conn \ {d}
     ELSE UNCHANGED <<task, conn>>
  /\ UNCHANGED <<agent, stats, exit>>

\* A recv that fails or brings nothing ends the task.
RecvFails(d) ==
  /\ exit = -1 /\ task[d] = "recv" /\ task' = [task EXCEPT ![d] = "done"] /\ conn' = conn \ {d}
  /\ UNCHANGED <<q, agent, stats, exit, got>>

\* The shared counter: one thread, so no increment is lost.
Received == MapThenSumSet(LAMBDA d : Len(got[d]), Devices)

\* Seeded fault: the statistics task ends with the tasks it reports on.
Tick_TasksDone ==
  /\ exit = -1 /\ stats = "tick" /\ (\A d \in Devices : task[d] = "done") /\ stats' = "done"
  /\ UNCHANGED <<q, conn, agent, task, exit, got>>

\* A tick of the statistics: the task ends once every reading is counted.
Tick ==
  /\ exit = -1 /\ stats = "tick" /\ Received >= readings * Cardinality(Devices) /\ stats' = "done"
  /\ UNCHANGED <<q, conn, agent, task, exit, got>>

\* All tasks and the statistics awaited; or the deadline, which drops them.
Finish ==
  /\ exit = -1 /\ (\A d \in Devices : task[d] = "done") /\ stats = "done" /\ exit' = 0
  /\ UNCHANGED <<q, conn, agent, task, stats, got>>

\* Seeded fault: no deadline on the run.
Deadline_None == exit = -1 /\ UNCHANGED vars

Deadline ==
  /\ exit = -1 /\ exit' = 5 /\ conn' = {}
  /\ UNCHANGED <<q, agent, task, stats, got>>

\* demo waits for its agents and then exits with the gateway's code.
Ended == exit # -1 /\ \A d \in Devices : agent[d].pc = "exit"
Done == Ended /\ UNCHANGED vars

Agent(d) == WaitForRecv(d) \/ NeverSubscribed(d) \/ Send(d) \/ AgentDone(d)
Next == \/ \E d \in Devices : Agent(d) \/ Recv(d) \/ RecvFails(d) \/ \E ok \in BOOLEAN : Connect(d, ok)
        \/ Tick \/ Finish \/ Deadline \/ Done

Spec == Init /\ [][Next]_vars

-----------------------------------------------------------------------------
\* Exit code 0 means every reading of every device was received, in order,
\* although a task may have failed to connect and an agent may have lost its
\* receiver without noticing.
GwComplete == exit = 0 => \A d \in Devices : got[d] = [i \in 1 .. readings |-> i - 1]
=============================================================================
