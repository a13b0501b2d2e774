------------------------------ MODULE Messages ------------------------------
(***************************************************************************)
(* Messages over a ring: send cuts one into fragments, recv puts them      *)
(* together again by id (assemble_message), on a route whose ids are the   *)
(* sender's own counter or on a channel whose ids come from the shared one.*)
(* The ring is a queue for each receiver (Route and Channel say why).      *)
(* Lengths are in fragments of DATA_LENGTH.                                *)
(***************************************************************************)
EXTENDS Integers, Sequences

CONSTANTS
  Senders, Receivers,
  MaxFrag,     \* bound: fragments of a message
  MaxMsg,      \* bound: messages begun
  MaxOpen      \* bound: endpoints opened

VARIABLES
  multi,       \* Channel or Route
  cc,          \* CA_CONN__: endpoint identities handed out
  ac,          \* AC_CONN__: the channel's message counter
  snd, rcv,    \* the endpoints
  q,           \* fragments in the ring for each receiver
  begun,       \* messages begun, the ghost name of a message
  owed,        \* messages pushed whole to each receiver and not delivered yet
  out,         \* the last message each receiver was given, as fragments
  reused       \* a sender started over with ids its predecessor had used

vars == <<multi, cc, ac, snd, rcv, q, begun, owed, out, reused>>

NoSend == [cc |-> 0, seq |-> 0, id |-> 0, n |-> 0, k |-> 0, m |-> 0, to |-> {}]
NoRecv == [cc |-> 0, cache |-> <<>>]
NoEntry == [off |-> 0, buf |-> <<>>]

Init == /\ multi \in BOOLEAN /\ cc = 0 /\ ac = 0
        /\ snd = [s \in Senders |-> NoSend] /\ rcv = [r \in Receivers |-> NoRecv]
        /\ q = [r \in Receivers |-> <<>>] /\ begun = 0
        /\ owed = [r \in Receivers |-> {}] /\ out = [r \in Receivers |-> <<>>]
        /\ reused = FALSE

connections == {r \in Receivers : rcv[r].cc # 0}
Sending(s) == snd[s].n > 0

\* ChanInner::open draws an identity; a route takes one sender at a time.
OpenSender(s) ==
  /\ snd[s].cc = 0 /\ cc < MaxOpen
  /\ multi \/ \A t \in Senders : snd[t].cc = 0
  /\ cc' = cc + 1
  /\ snd' = [snd EXCEPT ![s].cc = cc + 1]
  /\ reused' = (reused \/ (~multi /\ begun > 0))
  /\ UNCHANGED <<multi, ac, rcv, q, begun, owed, out>>

\* Seeded fault: the identity is read and not drawn.
OpenReceiver_SharedId(r) ==
  /\ rcv[r].cc = 0 /\ cc < MaxOpen
  /\ rcv' = [rcv EXCEPT ![r].cc = cc]
  /\ UNCHANGED <<multi, cc, ac, snd, q, begun, owed, out, reused>>

OpenReceiver(r) ==
  /\ rcv[r].cc = 0 /\ cc < MaxOpen
  /\ cc' = cc + 1
  /\ rcv' = [rcv EXCEPT ![r].cc = cc + 1]
  /\ UNCHANGED <<multi, ac, snd, q, begun, owed, out, reused>>

\* send: an id for the message, then fragment after fragment.
Send(s) ==
  /\ snd[s].cc # 0 /\ ~Sending(s) /\ connections # {} /\ begun < MaxMsg
  /\ begun' = begun + 1
  /\ \E n \in 1 .. MaxFrag :
       snd' = [snd EXCEPT ![s].n = n, ![s].k = 1, ![s].m = begun', ![s].to = connections,
                          ![s].id = IF multi THEN ac ELSE @, ![s].seq = IF multi THEN @ ELSE @ + 1]
  /\ ac' = IF multi THEN ac + 1 ELSE ac
  /\ UNCHANGED <<multi, cc, rcv, q, owed, out, reused>>

Id(s) == IF multi THEN snd[s].id ELSE snd[s].seq - 1
Finished(s) == [snd EXCEPT ![s].n = 0, ![s].k = 0, ![s].m = 0, ![s].to = {}, ![s].id = 0]

\* push_fragment: remain fragments follow this one; with none it is the last.
PushFragment(s) ==
  LET x == snd[s]
      f == [cc |-> x.cc, id |-> Id(s), remain |-> x.n - x.k, data |-> <<x.m, x.k, x.n>>]
  IN /\ Sending(s) /\ connections # {}
     /\ q' = [r \in Receivers |-> IF r \in connections THEN Append(q[r], f) ELSE q[r]]
     /\ snd' = IF x.k < x.n THEN [snd EXCEPT ![s].k = @ + 1, ![s].to = @ \cap connections]
               ELSE Finished(s)
     /\ owed' = [r \in Receivers |-> IF x.k = x.n /\ r \in x.to \cap connections
                                     THEN owed[r] \cup {x.m} ELSE owed[r]]
     /\ UNCHANGED <<multi, cc, ac, rcv, begun, out, reused>>

\* No room before the deadline, or no receiver: send returns false, and what
\* was pushed of the message stays.
PushFails(s) ==
  /\ Sending(s) /\ snd' = Finished(s)
  /\ UNCHANGED <<multi, cc, ac, rcv, q, begun, owed, out, reused>>

\* The sender disconnects or is killed, between two fragments too.
CloseSender(s) ==
  /\ snd[s].cc # 0 /\ snd' = [snd EXCEPT ![s] = NoSend]
  /\ UNCHANGED <<multi, cc, ac, rcv, q, begun, owed, out, reused>>

-----------------------------------------------------------------------------
Cached(r, id) == id + 1 \in DOMAIN rcv[r].cache /\ rcv[r].cache[id + 1].off > 0

\* recv_cache[id] = entry.
Cache(r, id, entry) ==
  [i \in 1 .. (IF Len(rcv[r].cache) > id THEN Len(rcv[r].cache) ELSE id + 1) |->
     IF i = id + 1 THEN entry ELSE IF i \in DOMAIN rcv[r].cache THEN rcv[r].cache[i] ELSE NoEntry]

Zeroed(n) == [i \in 1 .. n |-> <<0, 0, 0>>]

\* A fragment at the fill offset.
Filled(e, data) == [off |-> e.off + 1, buf |-> [e.buf EXCEPT ![e.off + 1] = data]]

\* A fragment past the end of the buffer: the slice panics the receiver.
Overruns(r, f) ==
  Cached(r, f.id) /\ rcv[r].cache[f.id + 1].off = Len(rcv[r].cache[f.id + 1].buf)

\* recv: take the fragment, skip our own, assemble.
Recv(r) ==
  LET f == Head(q[r])
      e == IF Cached(r, f.id) THEN Filled(rcv[r].cache[f.id + 1], f.data)
           ELSE Filled([off |-> 0, buf |-> Zeroed(f.remain + 1)], f.data)
  IN /\ rcv[r].cc # 0 /\ q[r] # <<>> /\ ~Overruns(r, f)
     /\ q' = [q EXCEPT ![r] = Tail(@)]
     /\ IF f.cc = rcv[r].cc THEN UNCHANGED <<rcv, out, owed>>
        ELSE IF f.remain > 0
        THEN rcv' = [rcv EXCEPT ![r].cache = Cache(r, f.id, e)] /\ UNCHANGED <<out, owed>>
        ELSE /\ rcv' = IF Cached(r, f.id) THEN [rcv EXCEPT ![r].cache = Cache(r, f.id, NoEntry)]
                       ELSE rcv
             /\ out' = [out EXCEPT ![r] = e.buf]
             /\ owed' = [owed EXCEPT ![r] = @ \ {f.data[1]}]
     /\ UNCHANGED <<multi, cc, ac, snd, begun, reused>>

Panic(r) ==
  /\ rcv[r].cc # 0 /\ q[r] # <<>> /\ Overruns(r, Head(q[r]))
  /\ rcv' = [rcv EXCEPT ![r] = NoRecv]
  /\ q' = [q EXCEPT ![r] = <<>>] /\ owed' = [owed EXCEPT ![r] = {}]
  /\ UNCHANGED <<multi, cc, ac, snd, begun, out, reused>>

\* Seeded fault: half-assembled messages survive a disconnect.
CloseReceiver_KeepsCache(r) ==
  /\ rcv[r].cc # 0 /\ rcv' = [rcv EXCEPT ![r].cc = 0]
  /\ q' = [q EXCEPT ![r] = <<>>] /\ owed' = [owed EXCEPT ![r] = {}]
  /\ UNCHANGED <<multi, cc, ac, snd, begun, out, reused>>

\* disconnect clears recv_cache; the next connection starts at the cursor.
CloseReceiver(r) ==
  /\ rcv[r].cc # 0 /\ rcv' = [rcv EXCEPT ![r] = NoRecv]
  /\ q' = [q EXCEPT ![r] = <<>>] /\ owed' = [owed EXCEPT ![r] = {}]
  /\ UNCHANGED <<multi, cc, ac, snd, begun, out, reused>>

\* Every endpoint is closed.
Done == /\ cc = MaxOpen /\ connections = {} /\ \A s \in Senders : snd[s].cc = 0
        /\ UNCHANGED vars

Next == \/ \E s \in Senders : \/ OpenSender(s) \/ Send(s) \/ PushFragment(s) \/ PushFails(s)
                              \/ CloseSender(s)
        \/ \E r \in Receivers : OpenReceiver(r) \/ Recv(r) \/ Panic(r) \/ CloseReceiver(r)
        \/ Done

Spec == Init /\ [][Next]_vars

-----------------------------------------------------------------------------
\* The suffix of a message a receiver that connected in the middle of it gets.
Whole(buf) ==
  /\ \A i \in DOMAIN buf : buf[i][1] = buf[1][1]
  /\ \A i \in DOMAIN buf : buf[i][2] = buf[1][2] + i - 1
  /\ buf # <<>> => buf[Len(buf)][2] = buf[1][3]

\* Fragments of different messages never meet in one buffer, however senders
\* interleave, give up, die and receivers come and go (a route's ids starting
\* over apart).
MsgWhole == ~reused => \A r \in Receivers : Whole(out[r])

\* A message pushed whole to a receiver that stays is delivered by the time its
\* ring is empty.
MsgDelivered == \A r \in Receivers : q[r] = <<>> => owed[r] = {}

\* "A later message reusing that id would be treated as its continuation":
\* no two messages are spliced into one buffer, on a route taken over either.
MsgNoSplice == \A r \in Receivers : Whole(out[r])
=============================================================================
