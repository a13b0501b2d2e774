------------------------------- MODULE Notify -------------------------------
(***************************************************************************)
(* The readiness layer and AsyncRoute::recv on top of it: one sender, and  *)
(* receivers that take one connection slot after one another.  A node is a *)
(* FIFO (named by the slot's path), a libnotify registration (one for each *)
(* receiver) or the slot's Event, with its unconsumed wake-up.  The epoll  *)
(* reactor, the Win32 thread pool and tokio run on their own.              *)
(***************************************************************************)
EXTENDS Integers

CONSTANTS
  Readers,     \* 1 .. N
  MaxSent      \* bound: messages sent

VARIABLES
  backend,     \* "fifo", "libnotify" or "event"
  bit,         \* the receiver that holds the slot, 0 when it is free
  q,           \* messages in the ring for each receiver
  path, made,  \* FIFO under the slot's path (0: none), FIFOs made
  open, tok,   \* of each node: receivers that have it open, wake-up pending
  p,           \* each receiver
  wfd, snd,    \* the sender: cached handle, step of send
  sent,
  stale        \* a slot changed hands under a cached handle or an open sink

vars == <<backend, bit, q, path, made, open, tok, p, wfd, snd, sent, stale>>
Nodes == 1 .. 2
unix == backend # "event"

\* A receiver: where it is, its node, reactor edge on its way, readiness
\* cached by tokio, whether it was renewed since the guard was taken (for an
\* Event: the permit of the tokio Notify).
Fresh == [pc |-> "new", node |-> 0, edge |-> FALSE, ready |-> FALSE, renewed |-> FALSE]

Init == /\ backend \in {"fifo", "libnotify", "event"}
        /\ bit = 0 /\ q = [r \in Readers |-> 0]
        /\ path = 0 /\ made = 0
        /\ open = [n \in Nodes |-> {}] /\ tok = [n \in Nodes |-> FALSE]
        /\ p = [r \in Readers |-> Fresh] /\ wfd = 0 /\ snd = "idle" /\ sent = 0
        /\ stale = FALSE

At(r, l) == p[r].pc = l
Goto(r, l) == p' = [p EXCEPT ![r].pc = l]

-----------------------------------------------------------------------------
(* The sender: the message is in the ring before anyone is woken.          *)

Enqueue ==
  /\ snd = "idle" /\ sent < MaxSent /\ bit # 0
  /\ q' = [q EXCEPT ![bit] = @ + 1] /\ sent' = sent + 1 /\ snd' = "signal"
  /\ UNCHANGED <<backend, bit, path, made, open, tok, p, wfd, stale>>

\* NotifySource::signal, a slot that is not connected: drop the handle.
SignalNone ==
  /\ snd = "signal" /\ bit = 0 /\ backend # "libnotify"
  /\ wfd' = 0 /\ snd' = "idle"
  /\ UNCHANGED <<backend, bit, q, path, made, open, tok, p, sent, stale>>

\* Open the FIFO unless it is cached: ENXIO while no one reads it.
SignalOpen ==
  /\ snd = "signal" /\ bit # 0 /\ backend = "fifo"
  /\ wfd' = IF wfd # 0 THEN wfd ELSE IF path # 0 /\ open[path] # {} THEN path ELSE 0
  /\ snd' = IF wfd' = 0 THEN "idle" ELSE "write"
  /\ UNCHANGED <<backend, bit, q, path, made, open, tok, p, sent, stale>>

Poked(ns) == [r \in Readers |-> [p[r] EXCEPT !.edge = @ \/ (unix /\ \E n \in ns : r \in open[n])]]

\* A byte for whoever has the FIFO open; without a reader (EPIPE) the handle
\* is dropped.
SignalWrite ==
  /\ snd = "write" /\ snd' = "idle"
  /\ IF open[wfd] # {} THEN tok' = [tok EXCEPT ![wfd] = TRUE] /\ p' = Poked({wfd}) /\ UNCHANGED wfd
     ELSE wfd' = 0 /\ UNCHANGED <<tok, p>>
  /\ UNCHANGED <<backend, bit, q, path, made, open, sent, stale>>

\* notify_post wakes every registration; SetEvent the slot's Event, made if
\* need be.
SignalPost ==
  /\ snd = "signal" /\ snd' = "idle"
  /\ \/ /\ backend = "libnotify"
        /\ tok' = [n \in Nodes |-> open[n] # {} \/ tok[n]] /\ p' = Poked(Nodes) /\ UNCHANGED wfd
     \/ /\ backend = "event" /\ bit # 0
        /\ wfd' = 1 /\ tok' = [tok EXCEPT ![1] = TRUE] /\ UNCHANGED p
  /\ UNCHANGED <<backend, bit, q, path, made, open, sent, stale>>

-----------------------------------------------------------------------------
(* A receiver connects, and opens its sink on the first native_wait_handle.*)

Connect(r) ==
  /\ At(r, "new") /\ bit = 0
  /\ bit' = r /\ Goto(r, "mkfifo")
  /\ stale' = (stale \/ (backend = "fifo" /\ wfd # 0)
                    \/ (backend # "libnotify" /\ \E n \in Nodes : open[n] # {}))
  /\ UNCHANGED <<backend, q, path, made, open, tok, wfd, snd, sent>>

\* mkfifo, which may find the path taken.
MkFifo(r) ==
  /\ At(r, "mkfifo") /\ Goto(r, "open")
  /\ IF backend = "fifo" /\ path = 0 THEN made' = made + 1 /\ path' = made'
     ELSE UNCHANGED <<made, path>>
  /\ UNCHANGED <<backend, bit, q, open, tok, wfd, snd, sent, stale>>

\* Seeded fault: the first call parks before it has tried.
OpenSink_ParkFirst(r) ==
  LET n == CASE backend = "fifo" -> path [] backend = "libnotify" -> r [] OTHER -> 1
  IN /\ At(r, "open")
     /\ IF n = 0 THEN Goto(r, "gone") /\ bit' = 0 /\ UNCHANGED open
        ELSE /\ open' = [open EXCEPT ![n] = @ \cup {r}]
             /\ p' = [p EXCEPT ![r].pc = "park", ![r].node = n, ![r].edge = unix /\ tok[n]]
             /\ UNCHANGED bit
     /\ UNCHANGED <<backend, q, path, made, tok, wfd, snd, sent, stale>>

\* Open the node and register it with the reactor or the thread pool; pending
\* readiness is reported at once.  A path unlinked meanwhile fails the open.
OpenSink(r) ==
  LET n == CASE backend = "fifo" -> path [] backend = "libnotify" -> r [] OTHER -> 1
  IN /\ At(r, "open")
     /\ IF n = 0 THEN Goto(r, "gone") /\ bit' = 0 /\ UNCHANGED open
        ELSE /\ open' = [open EXCEPT ![n] = @ \cup {r}]
             /\ p' = [p EXCEPT ![r].pc = "try", ![r].node = n, ![r].edge = unix /\ tok[n]]
             /\ UNCHANGED bit
     /\ UNCHANGED <<backend, q, path, made, tok, wfd, snd, sent, stale>>

\* The reactor and the thread pool (whose Event resets itself).
Reactor(r) ==
  /\ p[r].edge
  /\ p' = [p EXCEPT ![r].edge = FALSE, ![r].ready = TRUE, ![r].renewed = TRUE]
  /\ UNCHANGED <<backend, bit, q, path, made, open, tok, wfd, snd, sent, stale>>

wake_cb(r) ==
  /\ backend = "event" /\ r \in open[1] /\ tok[1]
  /\ tok' = [tok EXCEPT ![1] = FALSE] /\ p' = [p EXCEPT ![r].ready = TRUE]
  /\ UNCHANGED <<backend, bit, q, path, made, open, wfd, snd, sent, stale>>

-----------------------------------------------------------------------------
(* AsyncRoute::recv, call after call.                                      *)

Take(r, next, empty) ==
  IF q[r] > 0 THEN q' = [q EXCEPT ![r] = @ - 1] /\ Goto(r, next)
  ELSE Goto(r, empty) /\ UNCHANGED q

\* try_recv, before parking; on Windows once more with the wait armed.
TryRecv(r) ==
  /\ \/ At(r, "try") /\ Take(r, "try", IF unix THEN "park" ELSE "armed")
     \/ At(r, "armed") /\ Take(r, "try", "park")
  /\ UNCHANGED <<backend, bit, path, made, open, tok, wfd, snd, sent, stale>>

\* readable().await, notified.await: a Notify's permit is used up.
Wake(r) ==
  /\ At(r, "park") /\ p[r].ready
  /\ p' = [p EXCEPT ![r].pc = IF unix THEN "drain" ELSE "try",
                    ![r].ready = unix, ![r].renewed = FALSE]
  /\ UNCHANGED <<backend, bit, q, path, made, open, tok, wfd, snd, sent, stale>>

\* Seeded fault: having drained, park without another try.
Drain_Parks(r) ==
  /\ At(r, "drain") /\ tok' = [tok EXCEPT ![p[r].node] = FALSE]
  /\ p' = [p EXCEPT ![r].pc = "park", ![r].ready = FALSE]
  /\ UNCHANGED <<backend, bit, q, path, made, open, wfd, snd, sent, stale>>

Drain(r) ==
  /\ At(r, "drain") /\ tok' = [tok EXCEPT ![p[r].node] = FALSE] /\ Goto(r, "retry")
  /\ UNCHANGED <<backend, bit, q, path, made, open, wfd, snd, sent, stale>>

Retry(r) ==
  /\ At(r, "retry") /\ Take(r, "try", "clear")
  /\ UNCHANGED <<backend, bit, path, made, open, tok, wfd, snd, sent, stale>>

\* clear_ready keeps readiness that came after the guard was taken.
ClearReady(r) ==
  /\ At(r, "clear") /\ p' = [p EXCEPT ![r].pc = "try", ![r].ready = p[r].renewed]
  /\ UNCHANGED <<backend, bit, q, path, made, open, tok, wfd, snd, sent, stale>>

\* disconnect frees the slot; the sink is closed, and its path unlinked, when
\* the endpoint is dropped.
Disconnect(r) ==
  /\ p[r].pc \in {"try", "park"} /\ bit' = 0 /\ Goto(r, "gone")
  /\ q' = [q EXCEPT ![r] = 0]
  /\ UNCHANGED <<backend, path, made, open, tok, wfd, snd, sent, stale>>

CloseSink(r) ==
  /\ At(r, "gone") /\ p' = [p EXCEPT ![r] = [Fresh EXCEPT !.pc = "closed"]]
  /\ open' = [n \in Nodes |-> open[n] \ {r}]
  /\ path' = IF p[r].node # 0 THEN 0 ELSE path
  /\ UNCHANGED <<backend, bit, q, made, tok, wfd, snd, sent, stale>>

\* notify::clear_storage.
ClearStorage ==
  /\ path # 0 /\ path' = 0 /\ stale' = TRUE
  /\ UNCHANGED <<backend, bit, q, made, open, tok, p, wfd, snd, sent>>

\* Every receiver has gone.
Done == snd = "idle" /\ (\A r \in Readers : At(r, "closed")) /\ UNCHANGED vars

Sender == Enqueue \/ SignalNone \/ SignalOpen \/ SignalWrite \/ SignalPost
Receiver(r) == \/ MkFifo(r) \/ OpenSink(r) \/ Reactor(r) \/ wake_cb(r) \/ TryRecv(r)
               \/ Wake(r) \/ Drain(r) \/ Retry(r) \/ ClearReady(r) \/ CloseSink(r)
Next == \/ Sender \/ ClearStorage
        \/ \E r \in Readers : Receiver(r) \/ Connect(r) \/ Disconnect(r)
        \/ Done

Spec == Init /\ [][Next]_vars

-----------------------------------------------------------------------------
Asleep(r) == At(r, "park") /\ ~p[r].ready /\ ~p[r].edge /\ q[r] > 0 /\ snd = "idle"
             /\ ~(p[r].node # 0 /\ ~unix /\ tok[1])

\* No wake-up is lost: a receiver is never parked on an empty readiness handle
\* with a message in the ring and no sender about to signal it, wherever the
\* enqueue, the reactor, the drain and the re-check fall.
NtAwake == ~stale => \A r \in Readers : ~Asleep(r)

\* Something was sent to r that it has not received, and r stays.
Unreceived(r) == q[r] > 0 /\ ~stale /\ bit = r
=============================================================================
