------------------------------- MODULE Relay -------------------------------
(***************************************************************************)
(* The demos that move numbered messages over routes and channels:         *)
(* demo_pipeline (source, stage, sink), demo_channel_aggregator (producers *)
(* and a collector), demo_msg_que and demo_send_recv (one of each, for a   *)
(* count or until a signal).  A hop is the queue Route and Channel promise *)
(* to a receiver that keeps up; what a timed-out send does to one that     *)
(* does not is part of it.                                                 *)
(***************************************************************************)
EXTENDS Integers, Sequences

CONSTANTS count,   \* messages each source sends
          Cap      \* messages a ring holds

VARIABLES demo,    \* the demo that runs
          q,       \* what each hop's receiver has still to read
          conn,    \* hops with a receiver's connection bit set
          p,       \* each process
          got,     \* what each process has received
          quit,    \* processes a signal has been delivered to
          late     \* some wait has timed out

vars == <<demo, q, conn, p, got, quit, late>>

\* Who reads and who writes which hop, whether hops are routes, and what a
\* process does when send returns false: try again, exit, or carry on.
Demo(in, out, route, fail) == [in |-> in, out |-> out, route |-> route, fail |-> fail]
One(x, y, h, i) == [z \in {x, y} |-> IF z = x THEN h ELSE i]
Pipeline == Demo([z \in {"source", "stage", "sink"} |->
                    CASE z = "source" -> 0 [] z = "stage" -> 1 [] z = "sink" -> 2],
                 [z \in {"source", "stage", "sink"} |->
                    CASE z = "source" -> 1 [] z = "stage" -> 2 [] z = "sink" -> 0],
                 TRUE, "retry")
Aggregator == Demo([z \in {"p1", "p2", "collect"} |-> IF z = "collect" THEN 1 ELSE 0],
                   [z \in {"p1", "p2", "collect"} |-> IF z = "collect" THEN 0 ELSE 1],
                   FALSE, "retry")
MsgQue(fail) == Demo(One("send", "recv", 0, 1), One("send", "recv", 1, 0), TRUE, fail)
SendRecv(fail) == [MsgQue(fail) EXCEPT !.route = FALSE]
Demos == {Pipeline, Aggregator}
         \cup {MsgQue(f) : f \in {"exit", "ignore"}} \cup {SendRecv(f) : f \in {"exit", "ignore"}}

Procs == DOMAIN demo.in
Hops == {1, 2}
Sources(x) == IF demo.in[x] = 0 THEN {x}
              ELSE {y \in Procs : demo.in[y] = 0}
\* Seeded fault: every reader waits for one message more.
Total_OneMore(x) == (IF demo = Aggregator /\ x = "collect" THEN 2 * count ELSE count)
                    + (IF demo.in[x] = 0 THEN 0 ELSE 1)

\* What a process counts up to: collect is told the total.
Total(x) == IF demo = Aggregator /\ x = "collect" THEN 2 * count ELSE count

Init == /\ demo \in Demos
        /\ q = [h \in Hops |-> <<>>] /\ conn = {} /\ quit = {} /\ late = FALSE
        /\ p = [x \in Procs |-> [pc |-> "start", n |-> 0, deaf |-> FALSE, exit |-> -1]]
        /\ got = [x \in Procs |-> <<>>]

At(x, l) == x \in Procs /\ p[x].pc = l
Goto(x, l) == p' = [p EXCEPT ![x].pc = l]

End(x, code) == p' = [p EXCEPT ![x].pc = "end", ![x].exit = code]

\* The process ends.  Where the code returns, its receiver is dropped and
\* gives up its bit; where it calls process::exit, the bit stays set.
Exit(x, code) ==
  /\ End(x, code)
  /\ conn' = IF code = 0 \/ demo.fail # "retry" THEN conn \ {demo.in[x]} ELSE conn

-----------------------------------------------------------------------------
\* Connect.  The unbounded sender of demo_msg_que clears the storage first:
\* a receiver that is already there stays on the segment that was removed.
Open(x) ==
  LET clears == demo = MsgQue("ignore") /\ x = "send"
      next == IF demo.out[x] # 0 THEN "wait" ELSE "recv"
  IN /\ At(x, "start")
     /\ p' = [y \in Procs |->
                IF y = x THEN [p[y] EXCEPT !.pc = next]
                ELSE IF clears /\ p[y].pc # "start" THEN [p[y] EXCEPT !.deaf = TRUE]
                ELSE p[y]]
     /\ conn' = IF clears THEN {} ELSE conn \cup ({demo.in[x]} \ {0})
     /\ UNCHANGED <<demo, q, got, quit, late>>

WaitForRecv(x) ==
  /\ At(x, "wait") /\ demo.out[x] \in conn
  /\ Goto(x, IF demo.in[x] = 0 THEN "send" ELSE "recv")
  /\ UNCHANGED <<demo, q, conn, got, quit, late>>

\* Five seconds without a receiver: exit 2.
NoReceiver(x) ==
  /\ At(x, "wait") /\ demo.out[x] \notin conn /\ demo.fail # "ignore"
  /\ Exit(x, 2) /\ late' = TRUE
  /\ UNCHANGED <<demo, q, got, quit>>

\* The next message: a source's own, or the one a stage has just received.
Item(x) == IF demo.in[x] = 0 THEN [src |-> x, k |-> p[x].n] ELSE got[x][Len(got[x])]

Sent(x) == p' = [p EXCEPT ![x].pc = IF demo.in[x] = 0 THEN "send" ELSE "recv", ![x].n = @ + 1]

\* Seeded fault: a send that returned false is not tried again.
SendFails_Forgets(x) == IF demo.fail = "exit" THEN End(x, 4) ELSE Sent(x)

\* What the process does when send returns false.
SendFails(x) == CASE demo.fail = "retry" -> UNCHANGED p
                  [] demo.fail = "exit" -> End(x, 4)
                  [] demo.fail = "ignore" -> Sent(x)

More(x) == p[x].n < Total(x) /\ x \notin quit

\* send: room in the ring, or no receiver connected.
Send(x) ==
  LET h == demo.out[x]
  IN /\ At(x, "send") /\ More(x)
     /\ IF h \in conn
        THEN Len(q[h]) < Cap /\ q' = [q EXCEPT ![h] = Append(@, Item(x))] /\ Sent(x)
        ELSE SendFails(x) /\ UNCHANGED q
     /\ UNCHANGED <<demo, conn, got, quit, late>>

\* The ring stays full: a route disconnects its receiver, which is not told;
\* a channel leaves it alone.
SendTimesOut(x) ==
  LET h == demo.out[x]
  IN /\ At(x, "send") /\ More(x) /\ h \in conn /\ Len(q[h]) = Cap
     /\ SendFails(x)
     /\ conn' = IF demo.route THEN conn \ {h} ELSE conn
     /\ late' = TRUE
     /\ UNCHANGED <<demo, q, got, quit>>

Recv(x) ==
  LET h == demo.in[x]
  IN /\ At(x, "recv") /\ More(x) /\ ~p[x].deaf /\ q[h] # <<>>
     /\ q' = [q EXCEPT ![h] = Tail(@)]
     /\ got' = [got EXCEPT ![x] = Append(@, Head(q[h]))]
     /\ IF demo.out[x] = 0 THEN p' = [p EXCEPT ![x].n = @ + 1] ELSE Goto(x, "send")
     /\ UNCHANGED <<demo, conn, quit, late>>

\* Ten seconds without a message: exit 5; the unbounded receivers go on.
RecvTimesOut(x) ==
  /\ At(x, "recv") /\ More(x) /\ demo.fail # "ignore" /\ q[demo.in[x]] = <<>>
  /\ Exit(x, 5) /\ late' = TRUE
  /\ UNCHANGED <<demo, q, got, quit>>

Finish(x) == /\ \/ (At(x, "send") \/ At(x, "recv")) /\ ~More(x)
                \/ At(x, "wait") /\ x \in quit /\ demo = SendRecv("ignore")
             /\ Exit(x, 0)
             /\ UNCHANGED <<demo, q, got, quit, late>>

Signal(x) == /\ demo.fail = "ignore" /\ x \notin quit /\ quit' = quit \cup {x}
             /\ UNCHANGED <<demo, q, conn, p, got, late>>

Ended(x) == p[x].pc = "end"
Done == /\ \A x \in Procs : Ended(x) \/ (demo = MsgQue("ignore") /\ At(x, "wait"))
        /\ UNCHANGED vars

Step(x) == Open(x) \/ WaitForRecv(x) \/ Send(x) \/ Recv(x) \/ Finish(x)
Timeout(x) == NoReceiver(x) \/ SendTimesOut(x) \/ RecvTimesOut(x)
Next == \/ \E x \in Procs : Step(x) \/ Timeout(x) \/ Signal(x)
        \/ Done

Spec == Init /\ [][Next]_vars

-----------------------------------------------------------------------------
Ks(x, s) == SelectSeq(got[x], LAMBDA i : i.src = s)

\* What a process has received from each source is what that source sent,
\* in its order: without a gap too, where senders look at what send returns,
\* whatever timed out and whoever was disconnected on the way.
RelayFifo ==
  \A x \in Procs : \A s \in Sources(x) :
    LET ks == Ks(x, s)
    IN \A i \in 1 .. Len(ks) :
         /\ demo.fail # "ignore" => ks[i].k = i - 1
         /\ i > 1 => ks[i].k > ks[i - 1].k

\* Every process has ended, each reader with everything that was sent to it;
\* or a wait has timed out, or the demo has no count to end at.
Settled ==
  \/ late \/ demo.fail = "ignore"
  \/ \A x \in Procs : Ended(x) /\ (demo.in[x] # 0 => Len(got[x]) = Total(x))
=============================================================================
