-------------------------------- MODULE Rpc --------------------------------
(***************************************************************************)
(* Requests and replies over a pair of channels.  demo_audio_host sends    *)
(* its script of commands to the primary of a group of two                 *)
(* demo_audio_service instances, makes it fail over, and goes on with the  *)
(* new primary; demo_linux_service greets demo_linux_client and waits for  *)
(* its copy, a number of times or for ever.                                *)
(***************************************************************************)
EXTENDS Integers, Sequences

VARIABLES demo,   \* "audio", "count" or "forever"
          up,     \* instances that run
          ctrl,   \* each instance's unread requests
          rep,    \* each instance's replies the requester has not read
          gain,   \* the parameter each instance keeps
          host,   \* the requester
          late,   \* a reply did not come in time over this connection
          taken   \* the last reply taken, with the request it was taken for

vars == <<demo, up, ctrl, rep, gain, host, late, taken>>
service == <<up, ctrl, rep, gain>>

Insts == {1, 2}
Default == 100                           \* StreamState::default's gain
None == [ref |-> 0, kind |-> "none", val |-> 0, asked |-> 0]

\* The requester's main, one entry per step.
Script == IF demo = "audio"
          THEN <<"connect", "start", "set", "failover", "connect", "start", "get", "stop">>
          ELSE <<"connect", "hello", "hello", "hello", "stop">>

Init == /\ demo \in {"audio", "count", "forever"}
        /\ up = IF demo = "audio" THEN Insts ELSE {1}
        /\ ctrl = [i \in Insts |-> <<>>] /\ rep = [i \in Insts |-> <<>>]
        /\ gain = [i \in Insts |-> Default]
        /\ host = [step |-> 1, at |-> 1, linked |-> FALSE, waits |-> FALSE, seq |-> 0]
        /\ late = FALSE /\ taken = None

Does(s) == host.step <= Len(Script) /\ Script[host.step] = s /\ ~host.waits
Ended == host.step > Len(Script)
Proceed == host' = [host EXCEPT !.step = @ + 1, !.waits = FALSE]

-----------------------------------------------------------------------------
\* Open (or reopen) both channels of the primary: the reply receiver starts
\* behind whatever was sent before.
Connect ==
  /\ Does("connect")
  /\ host' = [host EXCEPT !.step = @ + 1, !.linked = TRUE]
  /\ late' = FALSE
  /\ rep' = [rep EXCEPT ![host.at] = <<>>]
  /\ UNCHANGED <<demo, up, ctrl, gain, taken>>

\* send_and_recv up to its wait: a send that reaches nobody is not noticed.
Request(kind, val) ==
  /\ Does(kind)
  /\ host' = [host EXCEPT !.seq = @ + 1, !.waits = TRUE]
  /\ ctrl' = IF host.linked
             THEN [ctrl EXCEPT ![host.at] = Append(@, [seq |-> host.seq + 1, kind |-> kind, val |-> val])]
             ELSE ctrl
  /\ UNCHANGED <<demo, up, rep, gain, late, taken>>

\* A greeting that reaches nobody is noticed: the counted greeter exits, the
\* endless one does not wait for the copy.
GreetingFails ==
  /\ Does("hello") /\ host.at \notin up
  /\ host' = [host EXCEPT !.step = IF demo = "count" THEN Len(Script) + 1 ELSE @ + 1]
  /\ UNCHANGED <<demo, service, late, taken>>

\* The reply at the head of the queue, whatever it replies to.
TakeReply ==
  /\ host.waits /\ host.linked /\ rep[host.at] # <<>>
  /\ taken' = [Head(rep[host.at]) EXCEPT !.asked = host.seq]
  /\ rep' = [rep EXCEPT ![host.at] = Tail(@)]
  /\ Proceed
  /\ UNCHANGED <<demo, up, ctrl, gain, late>>

\* No reply in time: the audio host and the endless greeter go on, the
\* counted greeter exits.
ReplyTimesOut ==
  /\ host.waits /\ (~host.linked \/ rep[host.at] = <<>>)
  /\ IF demo = "count" THEN host' = [host EXCEPT !.step = Len(Script) + 1, !.waits = FALSE]
     ELSE Proceed
  /\ late' = TRUE
  /\ UNCHANGED <<demo, service, taken>>

\* force_failover kills the primary, elects the standby and respawns the
\* other.  A standby that has crashed is elected too where its zombie counts
\* as alive (ServiceGroup); elsewhere the host finds no primary and exits.
Failover ==
  /\ Does("failover")
  /\ LET old == host.at   new == 3 - host.at
     IN \/ /\ host' = [host EXCEPT !.step = @ + 1, !.at = new, !.linked = FALSE]
           /\ ctrl' = [ctrl EXCEPT ![old] = <<>>] /\ rep' = [rep EXCEPT ![old] = <<>>]
           /\ gain' = [gain EXCEPT ![old] = Default]
           /\ up' = up \cup {old}
        \/ /\ new \notin up /\ host' = [host EXCEPT !.step = Len(Script) + 1]
           /\ up' = up \ {old} /\ UNCHANGED <<ctrl, rep, gain>>
  /\ UNCHANGED <<demo, late, taken>>

\* group.stop, or the greeter's return.
Stop == /\ Does("stop") /\ Proceed /\ up' = {}
        /\ UNCHANGED <<demo, ctrl, rep, gain, late, taken>>

-----------------------------------------------------------------------------
Reply(r, kind, val) == [ref |-> r.seq, kind |-> kind, val |-> val, asked |-> 0]

\* Seeded fault: a change of a parameter is acknowledged twice, and nothing
\* but acknowledgements is sent.
Answers_Twice(i, r) ==
  <<Reply(r, "ack", 0)>> \o (IF r.kind = "set" THEN <<Reply(r, "ack", 0)>> ELSE <<>>)

\* What the service sends back for a command, once it has carried it out.
Answers(i, r) ==
  CASE r.kind = "get" -> <<Reply(r, "value", gain[i])>>
    [] r.kind = "hello" -> <<Reply(r, "copy", 0)>>
    [] r.kind \in {"start", "set"} -> <<Reply(r, "ack", 0)>>

\* One turn of the service's loop.  A reply nobody is connected for is lost.
Serve(i) ==
  /\ i \in up /\ ctrl[i] # <<>>
  /\ LET r == Head(ctrl[i])
     IN /\ gain' = [gain EXCEPT ![i] = IF r.kind = "set" THEN r.val ELSE @]
        /\ rep' = IF host.at = i /\ host.linked
                  THEN [rep EXCEPT ![i] = @ \o Answers(i, r)] ELSE rep
  /\ ctrl' = [ctrl EXCEPT ![i] = Tail(@)]
  /\ UNCHANGED <<demo, up, host, late, taken>>

\* The instance is killed, or the linux client gives up on its peer.
Crash(i) == /\ i \in up /\ up' = up \ {i}
            /\ UNCHANGED <<demo, ctrl, rep, gain, host, late, taken>>

Done == Ended /\ UNCHANGED vars
Requester == \/ Connect \/ GreetingFails \/ TakeReply \/ ReplyTimesOut \/ Failover \/ Stop
             \/ Request("start", 0) \/ Request("set", 75) \/ Request("get", 0)
             \/ Request("hello", 0)
Next == Requester \/ (\E i \in Insts : Serve(i) \/ Crash(i)) \/ Done

Spec == Init /\ [][Next]_vars

-----------------------------------------------------------------------------
\* The requester never compares a reply's ref_seq with its own.  It is right
\* to do so as long as every wait over this connection was answered in time:
\* the reply is the one to the request it is waiting on, of its kind, across
\* crashes and the failover.
RpcMatched ==
  taken' # taken /\ ~late =>
    /\ taken'.ref = host.seq
    /\ Script[host.step] = "get" <=> taken'.kind = "value"
=============================================================================
