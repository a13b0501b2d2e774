------------------------------- MODULE Xlang --------------------------------
(***************************************************************************)
(* bin/xlang.rs, the harness of the cross-language matrix, under the cases *)
(* that CasePlan plans and the order in which exec.rs starts the processes *)
(* of a case.  The library is what it promises its users: a channel, a     *)
(* mutex, a semaphore and a condition under the name of the case.  A       *)
(* deadline passes when no process of the case can move any more.          *)
(***************************************************************************)
EXTENDS CasePlan, TLC

CONSTANTS
  Hosts,       \* [language -> what of it is on the host]
  Filters,     \* sets of scenarios asked for
  BROADCASTS   \* how often cvnotify broadcasts

VARIABLES
  host,        \* the host and the filter while nothing is chosen, then None
  case,        \* the case that runs
  env,         \* Windows?  Are readers late, connecting only after the warm-up?
  run,         \* the runner's phase, its probe, and whether all is well
  p,           \* processes started so far
  obj          \* the shared objects of the case's name

vars == <<host, case, env, run, p, obj>>

NoOne == <<None, 0>>
Fresh == [recv |-> {}, q |-> <<>>, owner |-> NoOne, mutex |-> NoOne, sem |-> 0, cond |-> {}]

Init == /\ host \in [on : Hosts, filter : Filters]
        /\ case = None /\ p = <<>> /\ obj = Fresh
        /\ env \in [windows : BOOLEAN, late : BOOLEAN]
        /\ run = [phase |-> "plan", i |-> 0, ok |-> TRUE]

Seq0(pre, procs) == [i \in DOMAIN procs |-> <<pre, i>>]
New(proc) == [do |-> proc, pc |-> "start", got |-> 0, out |-> None]
Spawned(pre, procs) ==
  [x \in Range(Seq0(pre, procs)) |-> New(procs[x[2]])] @@ p

Alive(x) == x \in DOMAIN p /\ p[x].pc # "gone"
Ended(x) == x \in DOMAIN p /\ p[x].pc = "gone"

\* On Windows the objects go with the last process that has them open.
Left(o, x) ==
  IF env.windows /\ \A y \in DOMAIN p \ {x} : p[y].pc \in {"start", "gone"} THEN Fresh ELSE o

Exit(x, code, o) ==
  /\ p' = [p EXCEPT ![x].pc = "gone", ![x].out = code] /\ obj' = Left(o, x)
  /\ UNCHANGED <<host, case, env, run>>
Goes(x, pc, o) == /\ p' = [p EXCEPT ![x].pc = pc] /\ obj' = o
                  /\ UNCHANGED <<host, case, env, run>>
At(x, pc, verbs) == Alive(x) /\ p[x].pc = pc /\ p[x].do.verb \in verbs

-----------------------------------------------------------------------------
\* The verbs.
Readers == {"read", "cread", "tread", "aread", "sread", "sread-reject", "sread-badkey",
            "sread-badkeyid"}
Writers == {"write", "cwrite", "twrite", "swrite", "swrite-tamper"}

\* What a build dispatches; another verb is unknown.
Knows(feats, verb) ==
  CASE verb \in {"twrite", "tread"} -> "codec-protobuf" \in feats
    [] verb = "aread" -> "async-tokio" \in feats
    [] verb \in {"swrite", "swrite-tamper", "sread", "sread-reject", "sread-badkey",
                 "sread-badkeyid"} -> "secure-crypto-openssl" \in feats
    [] OTHER -> TRUE

Begins(x, verbs) == At(x, "start", verbs)
Starts(x, pc, o) == IF Knows(p[x].do.feats, p[x].do.verb) THEN Goes(x, pc, o) ELSE Exit(x, 1, obj)

\* A receiver that connects reclaims the slots of the dead.
\* Seeded fault: it takes a slot and leaves the others as they are.
ConnectReceiver_NoReap(x) ==
  [obj EXCEPT !.recv = @ \cup {x}, !.q = (x :> <<>>) @@ @]

ConnectReceiver(x) ==
  [obj EXCEPT !.recv = {y \in @ : Alive(y)} \cup {x}, !.q = (x :> <<>>) @@ @]
\* A route has one sender: the claim of a dead one is taken over.
Claim(o, x) == IF ~Alive(o.owner) THEN [o EXCEPT !.owner = x] ELSE o
ConnectSender(x) == IF p[x].do.verb = "cwrite" THEN obj ELSE Claim(obj, x)
Disconnect(o, x) == [o EXCEPT !.recv = @ \ {x}, !.owner = IF @ = x THEN NoOne ELSE @]

\* What a writer sends as its i-th message. A pattern is told from another by
\* its size alone; swrite seals it, twrite numbers it.
pattern(size) == [form |-> "plain", size |-> size]
do_swrite(d) == [form |-> "sealed", size |-> d.size, alg |-> d.alg, key |-> "test", id |-> 1,
                 whole |-> d.verb # "swrite-tamper"]
twrite(d, i) == [form |-> "typed", size |-> d.size, seq |-> i]
Message(d, i) == CASE d.verb = "twrite" -> twrite(d, i)
                   [] d.verb \in {"swrite", "swrite-tamper"} -> do_swrite(d)
                   [] OTHER -> pattern(d.size)

WriteBegin(x) == Begins(x, Writers) /\ Starts(x, "await", ConnectSender(x))
AwaitRecv(x) == /\ At(x, "await", Writers) /\ Cardinality(obj.recv) >= p[x].do.min
                /\ Goes(x, "send", obj)
Sent(x, o) ==
  LET m == Message(p[x].do, p[x].got)
      sent == [o EXCEPT !.q = [y \in DOMAIN @ |-> IF y \in o.recv THEN Append(@[y], m) ELSE @[y]]]
  IN IF o.recv = {} THEN Exit(x, 4, Disconnect(o, x))
     ELSE IF p[x].got + 1 = p[x].do.n THEN Exit(x, 0, Disconnect(sent, x))
     ELSE /\ p' = [p EXCEPT ![x].got = @ + 1] /\ obj' = sent
          /\ UNCHANGED <<host, case, env, run>>
\* The sender of a route claims it with every send until the claim is its own;
\* the senders of a channel need none.
Send(x) ==
  /\ At(x, "send", Writers \ {"cwrite"})
  /\ LET o == Claim(obj, x) IN IF o.owner = x THEN Sent(x, o) ELSE Exit(x, 4, Disconnect(o, x))
ChannelSend(x) == At(x, "send", {"cwrite"}) /\ Sent(x, obj)

\* The key of a reader, and whether an envelope opens under it.
Key(verb) == [key |-> IF verb = "sread-badkey" THEN "wrong" ELSE "test",
              id |-> IF verb = "sread-badkeyid" THEN 2 ELSE 1]
Opens(m, d) == /\ m.form = "sealed" /\ m.alg = d.alg /\ m.whole
               /\ m.key = Key(d.verb).key /\ m.id = Key(d.verb).id

\* The exit code of a reader for its i-th message, 0 to go on.
do_read(d, m) == IF m = pattern(d.size) THEN 0 ELSE 6
do_sread(d, m) ==
  IF m = pattern(d.size) THEN 10
  ELSE IF d.verb # "sread" THEN IF Opens(m, d) THEN 11 ELSE 0
  ELSE IF ~Opens(m, d) THEN 8 ELSE IF m.size # d.size THEN 6 ELSE 0
tread(d, m, i) ==
  IF m.form # "typed" THEN 8 ELSE IF m.seq # i THEN 6 ELSE IF m.size # d.size THEN 7 ELSE 0
Verdict(d, m, i) == CASE d.verb \in {"read", "cread", "aread"} -> do_read(d, m)
                      [] d.verb = "tread" -> tread(d, m, i)
                      [] OTHER -> do_sread(d, m)

ReadBegin(x) == Begins(x, Readers) /\ Starts(x, "recv", ConnectReceiver(x))
Recv(x) ==
  /\ At(x, "recv", Readers) /\ obj.q[x] # <<>>
  /\ LET code == Verdict(p[x].do, Head(obj.q[x]), p[x].got)
         o == [obj EXCEPT !.q[x] = Tail(@)]
     IN IF code # 0 \/ p[x].got + 1 = p[x].do.n THEN Exit(x, code, Disconnect(o, x))
        ELSE /\ p' = [p EXCEPT ![x].got = @ + 1] /\ obj' = o
             /\ UNCHANGED <<host, case, env, run>>

\* hold, shold, mhold and keep: READY once the resource is held; they end
\* without giving anything back.
Hold(x) == Begins(x, {"hold"}) /\ Goes(x, "hold", ConnectReceiver(x))
Shold(x) == /\ Begins(x, {"shold"})
            /\ IF Claim(obj, x).owner = x THEN Goes(x, "hold", Claim(obj, x)) ELSE Exit(x, 1, obj)
Mhold(x) == /\ Begins(x, {"mhold"}) /\ ~Alive(obj.mutex)
            /\ Goes(x, "hold", [obj EXCEPT !.mutex = x])
Keep(x) == Begins(x, {"keep"}) /\ Goes(x, "hold", Disconnect(Claim(obj, x), x))

\* count, probe, sclaim: what they print, and what they leave behind.
Count(x) == Begins(x, {"count"}) /\ LET o == ConnectReceiver(x)
                                   IN Exit(x, Cardinality(o.recv), o)
ProbeVerb(x) == Begins(x, {"probe"}) /\ Exit(x, Cardinality(obj.recv), Claim(obj, x))
Sclaim(x) == /\ Begins(x, {"sclaim"})
             /\ LET o == Claim(obj, x) IN Exit(x, IF o.owner = x THEN 1 ELSE 0, o)

\* mtry and mlock, over a mutex that recovers from a dead holder.
Mtry(x) == /\ Begins(x, {"mtry"})
           /\ IF Alive(obj.mutex) THEN Exit(x, "busy", obj)
              ELSE Exit(x, "acquired", [obj EXCEPT !.mutex = NoOne])
MlockBegin(x) == Begins(x, {"mlock"}) /\ Goes(x, "lock", obj)
Mlock(x) == /\ At(x, "lock", {"mlock"}) /\ ~Alive(obj.mutex)
            /\ Exit(x, "acquired", [obj EXCEPT !.mutex = NoOne])

\* spost and swait: all the tokens, then none.
Spost(x) == Begins(x, {"spost"}) /\ Exit(x, 0, [obj EXCEPT !.sem = @ + p[x].do.n])
SwaitBegin(x) == Begins(x, {"swait"}) /\ Goes(x, "sem", obj)
Swait(x) ==
  /\ At(x, "sem", {"swait"}) /\ obj.sem > 0
  /\ LET o == [obj EXCEPT !.sem = @ - 1]
     IN IF p[x].got = p[x].do.n THEN Exit(x, 6, o)
        ELSE /\ p' = [p EXCEPT ![x].got = @ + 1] /\ obj' = o
             /\ UNCHANGED <<host, case, env, run>>

\* cvwait and cvnotify.
CvwaitBegin(x) == Begins(x, {"cvwait"}) /\ Goes(x, "cond", [obj EXCEPT !.cond = @ \cup {x}])
CvwaitWoken(x) == At(x, "cond", {"cvwait"}) /\ x \notin obj.cond /\ Exit(x, 0, obj)
CvnotifyBegin(x) == Begins(x, {"cvnotify"}) /\ Goes(x, "bcast", obj)
Cvnotify(x) ==
  /\ At(x, "bcast", {"cvnotify"})
  /\ IF p[x].got + 1 = BROADCASTS THEN Exit(x, 0, [obj EXCEPT !.cond = {}])
     ELSE /\ p' = [p EXCEPT ![x].got = @ + 1] /\ obj' = [obj EXCEPT !.cond = {}]
          /\ UNCHANGED <<host, case, env, run>>

\* Waiting for something that is not there, or asleep with a resource.
Stuck(x) == CASE p[x].pc = "recv" -> obj.q[x] = <<>>
              [] p[x].pc = "await" -> Cardinality(obj.recv) < p[x].do.min
              [] p[x].pc = "lock" -> Alive(obj.mutex)
              [] p[x].pc = "sem" -> obj.sem = 0
              [] p[x].pc = "cond" -> x \in obj.cond
              [] OTHER -> p[x].pc \in {"hold", "gone"}

\* A wait's deadline.  Only swait's last wait is meant to end this way;
\* aread has none and is ended by the runner's.
TimesOut(x) ==
  /\ p[x].pc \in {"recv", "await", "lock", "sem", "cond"} /\ run.phase \in {"probe", "wait"}
  /\ \A y \in DOMAIN p : Stuck(y)
  /\ Exit(x, CASE p[x].pc = "sem" -> IF p[x].got = p[x].do.n THEN 0 ELSE 5
               [] p[x].pc = "await" -> 2
               [] p[x].pc = "lock" -> "timeout"
               [] p[x].do.verb = "tread" -> 8
               [] OTHER -> 5,
          Disconnect(obj, x))

Verb(x) ==
  \/ WriteBegin(x) \/ AwaitRecv(x) \/ Send(x) \/ ChannelSend(x) \/ ReadBegin(x) \/ Recv(x)
  \/ Hold(x) \/ Shold(x) \/ Mhold(x) \/ Keep(x) \/ Count(x) \/ ProbeVerb(x) \/ Sclaim(x)
  \/ Mtry(x) \/ MlockBegin(x) \/ Mlock(x) \/ Spost(x) \/ SwaitBegin(x) \/ Swait(x)
  \/ CvwaitBegin(x) \/ CvwaitWoken(x) \/ CvnotifyBegin(x) \/ Cvnotify(x) \/ TimesOut(x)

-----------------------------------------------------------------------------
\* The planned cases that share anything: a conformance trace has no peer.
Runnable == {c \in Range(plan(resolve(host.on), host.filter)) : c.scenario # "conform"}

\* exec.rs.  The case starts on cleared storage: its holder, or its readers.
Take ==
  /\ run.phase = "plan"
  /\ \E c \in Runnable :
       /\ case' = c
       /\ IF c.holder # <<>>
          THEN p' = Spawned("holder", c.holder) /\ run' = [run EXCEPT !.phase = "hold"]
          ELSE p' = Spawned("reader", c.readers) /\ run' = [run EXCEPT !.phase = "warm"]
  /\ host' = None /\ UNCHANGED <<env, obj>>

Phase(ph) == run' = [run EXCEPT !.phase = ph]

\* The holder is READY, or its end fails the case.  On Windows a keeper is
\* started before the holder is killed.
HolderReady ==
  LET x == <<"holder", 1>>
  IN /\ run.phase = "hold" /\ p[x].pc # "start"
     /\ IF Ended(x) THEN run' = [run EXCEPT !.phase = "done", !.ok = FALSE] /\ UNCHANGED p
        ELSE IF env.windows /\ case.kill
        THEN p' = Spawned("keeper", <<[case.holder[1] EXCEPT !.verb = "keep"]>>) /\ Phase("keep")
        ELSE Phase(IF case.kill THEN "kill" ELSE "probe") /\ UNCHANGED p
     /\ UNCHANGED <<host, case, env, obj>>
KeeperReady == /\ run.phase = "keep" /\ p[<<"keeper", 1>>].pc # "start"
               /\ Phase("kill") /\ UNCHANGED <<host, case, env, p, obj>>

\* The kill, and the wait for the exit; a zombie is waited for at the end.
KillHolder ==
  /\ run.phase = "kill" /\ Phase("probe")
  /\ p' = [p EXCEPT ![<<"holder", 1>>].pc = "gone"] /\ obj' = Left(obj, <<"holder", 1>>)
  /\ UNCHANGED <<host, case, env>>

\* One probe after the other, each compared with what the plan expects.
NextProbe ==
  /\ run.phase = "probe" /\ run.i < Len(case.probes)
  /\ run.i = 0 \/ Ended(<<"probe", run.i>>)
  /\ p' = (<<"probe", run.i + 1>> :> New(case.probes[run.i + 1].proc)) @@ p
  /\ run' = [run EXCEPT !.i = @ + 1] /\ UNCHANGED <<host, case, env, obj>>
Probed ==
  /\ run.phase = "probe" /\ run.i = Len(case.probes) /\ (run.i = 0 \/ Ended(<<"probe", run.i>>))
  /\ LET ok == \A i \in 1..run.i : p[<<"probe", i>>].out = case.probes[i].expect
     IN IF ok /\ case.readers # <<>>
        THEN p' = Spawned("reader", case.readers) /\ Phase("warm")
        ELSE run' = [run EXCEPT !.phase = "done", !.ok = ok] /\ UNCHANGED p
  /\ UNCHANGED <<host, case, env, obj>>

\* The warm-up, then the writers; everyone must exit with 0.
WarmUp ==
  /\ run.phase = "warm"
  /\ env.late \/ \A i \in DOMAIN case.readers : p[<<"reader", i>>].pc # "start"
  /\ p' = Spawned("writer", case.writers) /\ Phase("wait")
  /\ UNCHANGED <<host, case, env, obj>>
Judge ==
  /\ run.phase = "wait"
  /\ LET group == Range(Seq0("reader", case.readers)) \cup Range(Seq0("writer", case.writers))
     IN /\ \A x \in group : Ended(x)
        /\ run' = [run EXCEPT !.phase = "done", !.ok = \A x \in group : p[x].out = 0]
  /\ UNCHANGED <<host, case, env, p, obj>>

\* There is nothing to run, or the case is over.
Done == /\ \/ run.phase = "done"
           \/ run.phase = "plan" /\ Runnable = {}
        /\ UNCHANGED vars

Next == \/ \E x \in DOMAIN p : Verb(x)
        \/ Take \/ HolderReady \/ KeeperReady \/ KillHolder \/ NextProbe \/ Probed
        \/ WarmUp \/ Judge \/ Done

Spec == Init /\ [][Next]_vars

-----------------------------------------------------------------------------
Over == run.phase = "done"

\* Cases that rely on the warm-up: a writer that counts the slot of a dead
\* receiver as its reader, a broadcast before the wait, and on Windows posts to
\* a semaphore nobody else has open.
NeedsWarmUp(c) == \/ c.readers # <<>> /\ c.holder # <<>> /\ c.holder[1].verb = "hold"
                  \/ \E i \in DOMAIN c.writers : c.writers[i].verb = "cvnotify"
                  \/ env.windows /\ \E i \in DOMAIN c.writers : c.writers[i].verb = "spost"

\* Property.  Every case of every plan passes when each process gets the time
\* it is given: counts, verbs, keys and expected answers fit the harness, and
\* no case is planned for a build without its verbs (cases.rs plan, xlang.rs).
XlPasses == Over /\ ~env.late => run.ok

\* Property.  A case passes even when its readers connect after the writers
\* have started (wait_for_recv in the writers), except those that are known to
\* rely on the warm-up of run_group_inner.
XlRobust == Over /\ env.late /\ ~NeedsWarmUp(case) => run.ok

\* Property.  Two languages configured for a scenario meet in it in either
\* role, or the plan's notes name one of them (participants, PlanNote).
PlanCovers ==
  run.phase = "plan" =>
    LET ready == resolve(host.on)
        cases == Range(plan(ready, host.filter))
        Noted(s, h) == {<<s, h.name>>, <<IF s = "secure-badkey" THEN "secure" ELSE s, h.name>>}
                         \cap notes(ready, host.filter) # {}
        First(c) == {c.writers[i].lang : i \in DOMAIN c.writers}
                      \cup {c.holder[i].lang : i \in DOMAIN c.holder}
        Second(c) == {c.readers[i].lang : i \in DOMAIN c.readers}
                       \cup {c.probes[i].proc.lang : i \in DOMAIN c.probes}
    IN \A s \in enabled(host.filter), g, h \in Range(ready) :
         Mode(s) \in g.modes \cap h.modes =>
           \/ Noted(s, g) \/ Noted(s, h)
           \/ s = "conform" /\ (g.name # Reference \/ h.name = Reference
                                \/ <<s, Reference>> \in notes(ready, host.filter))
           \/ s \in {"contend", "fanout", "channel"} /\ g = h
           \/ \E c \in cases : c.scenario = s /\ g.name \in First(c) /\ h.name \in Second(c)
=============================================================================
