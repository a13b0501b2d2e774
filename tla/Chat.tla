-------------------------------- MODULE Chat --------------------------------
(***************************************************************************)
(* demo_chat: every chatter sends to and receives from one channel.  Bots  *)
(* meet, send all their lines and only then read; interactive users read   *)
(* in a thread of their own until their own quit marker comes back.        *)
(***************************************************************************)
EXTENDS Integers, Sequences, FiniteSets

CONSTANTS Chatters,   \* the processes; a bot is told there are this many peers
          lines,      \* lines each sends
          Cap         \* messages the ring holds

VARIABLES bots,    \* scripted chatters, or interactive users
          acc,     \* the shared id counter
          log,     \* everything ever sent on the channel
          pos,     \* receivers that are connected, with their position
          c,       \* each chatter
          late     \* a wait timed out, or a user's send found no room

vars == <<bots, acc, log, pos, c, late>>
peers == Cardinality(Chatters)

Init == /\ bots \in BOOLEAN /\ acc = 0 /\ log = <<>> /\ late = FALSE
        /\ pos = <<>>                      \* the function without arguments
        /\ c = [x \in Chatters |-> [pc |-> "id", id |-> -1, sent |-> 0, got |-> [i \in 0 .. peers |-> 0],
                                    hears |-> FALSE]]

At(x, l) == c[x].pc = l
Without(x) == [y \in DOMAIN pos \ {x} |-> pos[y]]
Joined == {x \in Chatters : c[x].id >= 0 /\ c[x].pc # "end"}

calc_unique_id(x) ==
  /\ At(x, "id") /\ c' = [c EXCEPT ![x].pc = "open", ![x].id = acc]
  /\ acc' = acc + 1
  /\ UNCHANGED <<bots, log, pos, late>>

\* Connect the sender and the receiver, which starts at the write cursor.
Open(x) ==
  /\ At(x, "open")
  /\ pos' = [y \in DOMAIN pos \cup {x} |-> IF y = x THEN Len(log) ELSE pos[y]]
  /\ c' = [c EXCEPT ![x].pc = IF bots THEN "meet" ELSE "send", ![x].hears = ~bots]
  /\ UNCHANGED <<bots, acc, log, late>>

\* Seeded fault: waits for as many peers besides itself.
WaitForRecv_Others(x) ==
  /\ At(x, "meet")
  /\ c' = [c EXCEPT ![x].pc = IF Cardinality(DOMAIN pos) > peers THEN "send" ELSE "meet"]
  /\ UNCHANGED <<bots, acc, log, pos, late>>

WaitForRecv(x) ==
  /\ At(x, "meet") /\ Cardinality(DOMAIN pos) >= peers
  /\ c' = [c EXCEPT ![x].pc = "send"]
  /\ UNCHANGED <<bots, acc, log, pos, late>>

Room == \A y \in DOMAIN pos : Len(log) - pos[y] < Cap
\* A user's last line is the quit marker.
Says(x) == [id |-> c[x].id, quit |-> ~bots /\ c[x].sent = lines]
Said(x) == /\ log' = Append(log, Says(x))
           /\ c' = [c EXCEPT ![x].sent = @ + 1]
MoreToSay(x) == c[x].sent < lines + (IF bots THEN 0 ELSE 1)

Send(x) == /\ At(x, "send") /\ MoreToSay(x) /\ Room /\ Said(x)
           /\ UNCHANGED <<bots, acc, pos, late>>

\* A user's send does not wait for room, and what it returns is not looked at.
SendLost(x) == /\ At(x, "send") /\ MoreToSay(x) /\ ~bots /\ ~Room
               /\ c' = [c EXCEPT ![x].sent = @ + 1] /\ late' = TRUE
               /\ UNCHANGED <<bots, acc, log, pos>>

\* All is sent: a bot reads, a user's main thread joins its reader.
SentAll(x) == /\ At(x, "send") /\ ~MoreToSay(x)
              /\ c' = [c EXCEPT ![x].pc = IF bots THEN "read" ELSE "join"]
              /\ UNCHANGED <<bots, acc, log, pos, late>>

Heard(x) == log[pos[x] + 1]
\* Seeded fault: content with the lines of all but one of the others.
Complete_AllButOne(x) == Cardinality({i \in DOMAIN c[x].got : c[x].got[i] >= lines}) + 2 >= peers

\* The bot has every line of all others, as it knows them by their ids.
Complete(x) == Cardinality({i \in DOMAIN c[x].got : c[x].got[i] >= lines}) + 1 >= peers

\* recv: a bot counts lines that are not its own, a user's reader ends on
\* its own quit marker.
Recv(x) ==
  /\ (At(x, "read") /\ ~Complete(x)) \/ c[x].hears
  /\ x \in DOMAIN pos /\ pos[x] < Len(log)
  /\ pos' = [pos EXCEPT ![x] = @ + 1]
  /\ c' = [c EXCEPT ![x].got = IF Heard(x).id = c[x].id \/ ~bots THEN @
                               ELSE [@ EXCEPT ![Heard(x).id] = @ + 1],
                    ![x].hears = @ /\ ~(Heard(x).id = c[x].id /\ Heard(x).quit)]
  /\ UNCHANGED <<bots, acc, log, late>>

\* The chatter ends: its receiver disconnects, and the last one to leave
\* takes the id counter's segment with it.
Leave(x) == /\ c' = [c EXCEPT ![x].pc = "end"]
            /\ pos' = Without(x)
            /\ acc' = IF Joined = {x} THEN 0 ELSE acc

End(x) == /\ \/ bots /\ At(x, "read") /\ Complete(x)
             \/ ~bots /\ At(x, "join") /\ ~c[x].hears
          /\ Leave(x) /\ UNCHANGED <<bots, log, late>>

\* Exit 2, 4 or 5 of a bot: peers missing, ring full, nothing to read.
GiveUp(x) == /\ bots
             /\ \/ At(x, "meet") /\ Cardinality(DOMAIN pos) < peers
                \/ At(x, "send") /\ MoreToSay(x) /\ ~Room
                \/ At(x, "read") /\ ~Complete(x) /\ pos[x] = Len(log)
             /\ late' = TRUE /\ Leave(x) /\ UNCHANGED <<bots, log>>

\* A user whose quit marker found no room waits for its reader for ever.
Done == /\ \A x \in Chatters : At(x, "end") \/ (~bots /\ late /\ At(x, "join"))
        /\ UNCHANGED vars

Step(x) == \/ calc_unique_id(x) \/ Open(x) \/ WaitForRecv(x) \/ Send(x) \/ SentAll(x)
           \/ Recv(x) \/ End(x)
Next == (\E x \in Chatters : Step(x) \/ SendLost(x) \/ GiveUp(x)) \/ Done

Spec == Init /\ [][Next]_vars

-----------------------------------------------------------------------------
\* As long as nobody has given up: no bot leaves the meeting while another
\* has not yet seen that all are there, and nobody takes another chatter's
\* lines for its own because they share an id.
ChatMeets ==
  bots /\ ~late =>
    /\ \A x, y \in Chatters : At(x, "meet") => ~At(y, "end")
    /\ \A x, y \in Joined : x # y => c[x].id # c[y].id

\* All have left, a bot with every line of every other; or someone gave up.
Settled == late \/ \A x \in Chatters : At(x, "end") /\ (bots => Complete(x))
=============================================================================
