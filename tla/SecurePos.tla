----------------------------- MODULE SecurePos -----------------------------
(***************************************************************************)
(* demo_secure_pos.rs: a pinpad broadcasts sealed card events to a gateway *)
(* that holds the key and to a point-of-sale program that does not.  The   *)
(* events' wire format is byte for byte the code's, with Group instead of  *)
(* 128 values in a varint byte; the envelope around it is Envelope's.      *)
(* count stays below the number of slots of the bus, so no send times out. *)
(***************************************************************************)
EXTENDS Integers, Sequences, FiniteSetsExt

CONSTANTS Group,     \* values of a varint byte without its continuation bit
          Word,      \* 2^64 in the code: what get_varint computes in
          Half,      \* 2^32: what seq must fit in
          count

VARIABLES sub,       \* receivers on the bus
          bus,       \* what each has still to receive
          p,         \* each process: pc, events so far, exit code
          opened     \* the events each receiver has opened

vars == <<sub, bus, p, opened>>

Receivers == {"gateway", "pos"}
Procs == {"pinpad"} \cup Receivers
None == [ok |-> FALSE]

\* Seeded fault: a value of exactly Group is taken to fit one byte.
put_varint_Off(v) ==
  LET n == Min({n \in 1 .. 9 : v <= Group ^ n})
  IN [i \in 1 .. n |-> ((v \div Group ^ (i - 1)) % Group) + (IF i < n THEN Group ELSE 0)]

\* Groups, lowest first, all but the last with the continuation bit.
put_varint(v) ==
  LET n == Min({n \in 1 .. 9 : v < Group ^ n})
  IN [i \in 1 .. n |-> ((v \div Group ^ (i - 1)) % Group) + (IF i < n THEN Group ELSE 0)]

\* Up to the first byte without that bit, unless the data or the word ends
\* before it; bits shifted out of the word are gone.
get_varint(data, pos) ==
  LET ends == {j \in pos .. Len(data) : data[j] < Group}
      last == Min(ends)
  IN IF ends = {} \/ Group ^ (last - pos) >= Word THEN None
     ELSE [ok |-> TRUE, pos |-> last + 1,
           v |-> MapThenSumSet(LAMBDA i : (data[i] % Group) * Group ^ (i - pos), pos .. last) % Word]

\* CardEvent: pan with its length, amount and seq, each after its tag.
PAN == 10
AMOUNT == 16
SEQ == 24
encode(ev) == <<PAN>> \o put_varint(Len(ev.pan)) \o ev.pan
              \o <<AMOUNT>> \o put_varint(ev.amount_cents)
              \o <<SEQ>> \o put_varint(ev.seq)

TagAt(data, pos, tag) == pos <= Len(data) /\ data[pos] = tag

decode(data) ==
  LET len == get_varint(data, 2)
      after == len.pos + len.v
      amount == get_varint(data, after + 1)
      seq == get_varint(data, amount.pos + 1)
  IN IF /\ TagAt(data, 1, PAN) /\ len.ok /\ after - 1 <= Len(data)
        /\ TagAt(data, after, AMOUNT) /\ amount.ok
        /\ TagAt(data, amount.pos, SEQ) /\ seq.ok /\ seq.v < Half
     THEN [ok |-> TRUE, pan |-> SubSeq(data, len.pos, after - 1),
           amount_cents |-> amount.v, seq |-> seq.v]
     ELSE None

\* What the pinpad captures.
Event(seq) == [pan |-> <<4, 1, 1>>, amount_cents |-> 4 + 12 * seq, seq |-> seq]

-----------------------------------------------------------------------------
Init == /\ sub = {} /\ bus = [r \in Receivers |-> <<>>]
        /\ p = [x \in Procs |-> [pc |-> "start", n |-> 0, exit |-> -1]]
        /\ opened = [r \in Receivers |-> <<>>]

Exit(x, code) == p' = [p EXCEPT ![x].pc = "end", ![x].exit = code]

\* gateway, pos: connect.
Subscribe(r) ==
  /\ p[r].pc = "start" /\ p' = [p EXCEPT ![r].pc = "recv"] /\ sub' = sub \cup {r}
  /\ UNCHANGED <<bus, opened>>

\* pinpad: wait for both receivers, thirty seconds at most.
WaitForRecv ==
  /\ p["pinpad"].pc = "start" /\ sub = Receivers /\ p' = [p EXCEPT !["pinpad"].pc = "send"]
  /\ UNCHANGED <<sub, bus, opened>>

NotSubscribed ==
  /\ p["pinpad"].pc = "start" /\ sub # Receivers /\ Exit("pinpad", 1)
  /\ UNCHANGED <<sub, bus, opened>>

\* Seal the next event and broadcast it; what send returns is not looked at.
Send ==
  LET n == p["pinpad"].n
  IN /\ p["pinpad"].pc = "send" /\ n < count
     /\ bus' = [r \in Receivers |->
                  IF r \in sub THEN Append(bus[r], [key |-> "processor", data |-> encode(Event(n))])
                  ELSE bus[r]]
     /\ p' = [p EXCEPT !["pinpad"].n = n + 1]
     /\ UNCHANGED <<sub, opened>>

\* Open the next event with the receiver's key: the gateway must succeed, the
\* point of sale must not.
Recv(r) ==
  LET m == Head(bus[r])
      ev == IF r = "gateway" /\ m.key = "processor" THEN decode(m.data) ELSE None
  IN /\ p[r].pc = "recv" /\ p[r].n < count /\ bus[r] # <<>>
     /\ bus' = [bus EXCEPT ![r] = Tail(@)]
     /\ opened' = IF ev.ok THEN [opened EXCEPT ![r] = Append(@, ev)] ELSE opened
     /\ IF ev.ok = (r = "gateway")
        THEN p' = [p EXCEPT ![r].n = @ + 1] /\ UNCHANGED sub
        ELSE Exit(r, 1) /\ sub' = sub \ {r}

\* No event for thirty seconds.
RecvTimesOut(r) ==
  /\ p[r].pc = "recv" /\ p[r].n < count /\ bus[r] = <<>>
  /\ Exit(r, 1) /\ sub' = sub \ {r}
  /\ UNCHANGED <<bus, opened>>

Finish(x) ==
  /\ p[x].pc \in {"send", "recv"} /\ p[x].n = count /\ Exit(x, 0)
  /\ sub' = sub \ {x} /\ UNCHANGED <<bus, opened>>

Done == (\A x \in Procs : p[x].pc = "end") /\ UNCHANGED vars

Next == \/ \E r \in Receivers : Subscribe(r) \/ Recv(r) \/ RecvTimesOut(r)
        \/ WaitForRecv \/ NotSubscribed \/ Send \/ (\E x \in Procs : Finish(x)) \/ Done

Spec == Init /\ [][Next]_vars

-----------------------------------------------------------------------------
\* The gateway opens the events in the order they were captured, every field
\* as it was, and rejects none: it ends with an error only if it has waited in
\* vain.
PosIntact ==
  /\ \A i \in DOMAIN opened["gateway"] :
       LET ev == opened["gateway"][i]
       IN [pan |-> ev.pan, amount_cents |-> ev.amount_cents, seq |-> ev.seq] = Event(i - 1)
  /\ opened["pos"] = <<>>
  /\ p["gateway"].exit = 1 => bus["gateway"] = <<>> /\ Len(opened["gateway"]) = p["gateway"].n
=============================================================================
