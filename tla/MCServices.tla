---------------------------- MODULE MCServices ----------------------------
(***************************************************************************)
(* The services above the channels, the demos and the case runners, one    *)
(* small instance of each. Each behaviour is one of the component that     *)
(* part names: the components do not meet, so they take turns with one set *)
(* of variables.  Registry and ShmRing are extended and keep their own, so *)
(* that the run checks the very properties that RouteProof and             *)
(* PlatformProof prove.                                                    *)
(***************************************************************************)
EXTENDS Registry, ShmRing, Sequences

VARIABLES part, v1, v2, v3, v4, v5, v6, v7, v8, v9, v10, v11, v12

Plains == {<<>>, <<1>>, <<0, 3>>, <<1, 2, 3, 0, 1>>}
Ciphers == {[algorithm_id |-> 1, key_id |-> k, key |-> y] : k \in {2, 21},
                                                           y \in {<<1, 1, 1>>, <<2, 2, 2>>}}
DemoCases == <<[group |-> "g", xfail |-> FALSE, ready |-> <<TRUE, FALSE>>],
               [group |-> "none", xfail |-> TRUE, ready |-> <<FALSE>>],
               [group |-> "g", xfail |-> FALSE, ready |-> <<FALSE>>]>>
RW == <<"reader", "writer">>
XlangCase(kind, group, kill, zombie, windows, xfail) ==
  [kind |-> kind, group |-> group, kill |-> kill, zombie |-> zombie, windows |-> windows,
   xfail |-> xfail]
XlangCases == <<XlangCase("hold", RW, TRUE, TRUE, TRUE, FALSE),
                XlangCase("hold", <<>>, TRUE, FALSE, FALSE, TRUE),
                XlangCase("group", RW, FALSE, FALSE, FALSE, FALSE),
                XlangCase("conform", <<>>, FALSE, FALSE, FALSE, FALSE)>>

Role(role, slot, bin, paths, spawned) ==
  [role |-> role, slot |-> slot, bin |-> bin, paths |-> paths, spawned |-> spawned]
AllLangs == {"cpp", "ffi", "rust"}
PlannedDemos ==
  {[bins |-> [main |-> {"cpp", "rust"}], languages |-> {}, clear |-> TRUE, count |-> 3,
    procs |-> <<Role("consumer", "c", "main", {}, FALSE), Role("producer", "none", "main", {}, FALSE),
                Role("agent", "none", "main", {}, FALSE)>>],
   [bins |-> [main |-> {"cpp", "rust"}, client |-> {"cpp", "rust"}], languages |-> {"cpp", "rust"},
    clear |-> TRUE, count |-> 1,
    procs |-> <<Role("client", "client", "client", {}, FALSE), Role("service", "service", "main", {}, FALSE),
                Role("monitor", "service", "client", {}, FALSE)>>],
   [bins |-> [main |-> {"cpp", "rust"}, service |-> AllLangs], languages |-> {}, clear |-> FALSE,
    count |-> 1,
    procs |-> <<Role("host", "host", "main", {[bin |-> "service", slot |-> "service"]}, FALSE),
                Role("service", "service", "service", {}, TRUE)>>]}
Features == {"notify", "async-tokio", "codec-protobuf", "secure-crypto-openssl"}
Modes == {"sync", "async", "channel", "reap", "secure", "primitives", "typed"}
Harness(present, modes, feats, answers) ==
  [present |-> present, modes |-> modes, feats |-> feats, answers |-> answers]
Builds == {Harness(TRUE, Modes, f, a) : a \in BOOLEAN,
             f \in {Features, {}} \cup {Features \ g : g \in {{"codec-protobuf"}, {"async-tokio"},
                                           {"notify", "async-tokio"}, {"secure-crypto-openssl"}}}}
XlangHosts == [cpp : {Harness(b, Modes, Features, TRUE) : b \in BOOLEAN}, rust : Builds,
               xasync : {Harness(TRUE, {"async"}, Features, TRUE)}]

Sg == INSTANCE ServiceGroup WITH
  replicas <- 2, MaxSpawn <- 4, MaxCalls <- 3, auto_respawn <- v1, unix <- v2,
  proc <- v3, reg <- v4, inst <- v5, primary <- v6, sv <- v7, calls <- v8, dead0 <- v9,
  leaked <- v10, outage <- v11
Bb == INSTANCE BoundedBuffer WITH
  Producers <- {"p1", "p2"}, CAP <- 2, count <- 2, users <- v1, head <- v2, tail <- v3,
  slot <- v4, mutex <- v5, empty <- v6, full <- v7, p <- v8, log <- v9, got <- v10,
  raced <- v11, stale <- v12
Rl == INSTANCE Relay WITH
  count <- 3, Cap <- 2, demo <- v1, q <- v2, conn <- v3, p <- v4, got <- v5, quit <- v6,
  late <- v7
Ct == INSTANCE Chat WITH
  Chatters <- {1, 2}, lines <- 2, Cap <- 3, bots <- v1, acc <- v2, log <- v3, pos <- v4,
  c <- v5, late <- v6
Rp == INSTANCE Rpc WITH
  demo <- v1, up <- v2, ctrl <- v3, rep <- v4, gain <- v5, host <- v6, late <- v7,
  taken <- v8
Rt == INSTANCE RtAudio WITH
  MaxBlocks <- 3, N <- 2, up <- v1, state <- v2, ring <- v3, svc <- v4, host <- v5,
  heard <- v6, met <- v7
Gw == INSTANCE Gateway WITH
  Devices <- {1, 2}, readings <- 2, Cap <- 1, q <- v1, conn <- v2, agent <- v3,
  task <- v4, stats <- v5, exit <- v6, got <- v7
En == INSTANCE Envelope WITH
  Base <- 4, Plains <- Plains, Ciphers <- Ciphers, frame <- v1
Ps == INSTANCE SecurePos WITH
  Group <- 4, Word <- 128, Half <- 16, count <- 5, sub <- v1, bus <- v2, p <- v3,
  opened <- v4
Dr == INSTANCE DemoRunner WITH
  Cases <- DemoCases, Jobs <- {1, 2}, retries <- 1, next <- v1, w <- v2, proc <- v3,
  held <- v4, results <- v5
Xr == INSTANCE CaseRunner WITH
  Cases <- XlangCases, Jobs <- {1}, retries <- 1, next <- v1, w <- v2, proc <- v3,
  results <- v4, lost <- v5

Xl == INSTANCE Xlang WITH
  Langs <- <<"cpp", "rust", "xasync">>, Reference <- "cpp", Traces <- <<"spinlock">>,
  Sizes <- <<65>>, Algorithms <- <<"aes256gcm", "chacha20poly1305">>, Codecs <- <<"protobuf">>,
  COUNT <- 2, badkey_size <- 200, Hosts <- XlangHosts,
  Filters <- {{}, {"secure-badkey"}, {"conform", "fanout"}}, BROADCASTS <- 2,
  host <- v1, case <- v2, env <- v3, run <- v4, p <- v5, obj <- v6

Dp == INSTANCE DemoPlan WITH
  Langs <- <<"cpp", "ffi", "rust">>, Demos <- PlannedDemos, demo <- v1, dirs <- v2, built <- v3,
  result <- v4

\* The variables a component does not need stay at 0.
r12 == <<v12>>
r11 == <<v11, r12>>
r10 == <<v10, r11>>
r9 == <<v9, r10>>
r8 == <<v8, r9>>
r7 == <<v7, r8>>
r6 == <<v6, r7>>
r5 == <<v5, r6>>
r4 == <<v4, r5>>
r3 == <<v3, r4>>
r2 == <<v2, r3>>
r1 == <<v1, r2>>
own == <<reg_vars, ring_vars>>
vars == <<part, r1, own>>
Z12 == v12 = 0
Z11 == v11 = 0 /\ Z12
Z10 == v10 = 0 /\ Z11
Z9 == v9 = 0 /\ Z10
Z8 == v8 = 0 /\ Z9
Z7 == v7 = 0 /\ Z8
Z6 == v6 = 0 /\ Z7
Z5 == v5 = 0 /\ Z6
Z4 == v4 = 0 /\ Z5
Z3 == v3 = 0 /\ Z4
Z2 == v2 = 0 /\ Z3
Z1 == v1 = 0 /\ Z2

Init == /\ RegInit /\ RingInit
        /\ part = "ring" \/ ~(over \/ creates)
        /\ \/ part \in {"registry", "ring"} /\ Z1
           \/ part = "group"    /\ Sg!Init /\ Z12
           \/ part = "buffer"   /\ Bb!Init
           \/ part = "relay"    /\ Rl!Init /\ Z8
           \/ part = "chat"     /\ Ct!Init /\ Z7
           \/ part = "rpc"      /\ Rp!Init /\ Z9
           \/ part = "rt"       /\ Rt!Init /\ Z8
           \/ part = "gateway"  /\ Gw!Init /\ Z8
           \/ part = "envelope" /\ En!Init /\ Z2
           \/ part = "pos"      /\ Ps!Init /\ Z5
           \/ part = "demos"    /\ Dr!Init /\ Z6
           \/ part = "cases"    /\ Xr!Init /\ Z6
           \/ part = "harness"  /\ Xl!Init /\ Z7
           \/ part = "plan"     /\ Dp!Init /\ Z5

Next == \/ part = "registry" /\ RegNext /\ UNCHANGED <<part, r1, ring_vars>>
        \/ part = "ring"     /\ RingNext /\ UNCHANGED <<part, r1, reg_vars>>
        \/ part = "group"    /\ Sg!Next /\ UNCHANGED <<part, r12, own>>
        \/ part = "buffer"   /\ Bb!Next /\ UNCHANGED <<part, own>>
        \/ part = "relay"    /\ Rl!Next /\ UNCHANGED <<part, r8, own>>
        \/ part = "chat"     /\ Ct!Next /\ UNCHANGED <<part, r7, own>>
        \/ part = "rpc"      /\ Rp!Next /\ UNCHANGED <<part, r9, own>>
        \/ part = "rt"       /\ Rt!Next /\ UNCHANGED <<part, r8, own>>
        \/ part = "gateway"  /\ Gw!Next /\ UNCHANGED <<part, r8, own>>
        \/ part = "envelope" /\ En!Next /\ UNCHANGED <<part, r2, own>>
        \/ part = "pos"      /\ Ps!Next /\ UNCHANGED <<part, r5, own>>
        \/ part = "demos"    /\ Dr!Next /\ UNCHANGED <<part, r6, own>>
        \/ part = "cases"    /\ Xr!Next /\ UNCHANGED <<part, r6, own>>
        \/ part = "harness"  /\ Xl!Next /\ UNCHANGED <<part, r7, own>>
        \/ part = "plan"     /\ Dp!Next /\ UNCHANGED <<part, r5, own>>

Spec == Init /\ [][Next]_vars

-----------------------------------------------------------------------------
\* ServiceGroup: one primary between calls, every running child is an
\* instance's own, and a health check leaves no primary that was dead before
\* it (without zombies).
GroupSound == part = "group" => Sg!GrpOnePrimary /\ Sg!GrpManaged /\ Sg!GrpFailsOver
\* The demos.  Where items move, a reader is given what was sent, in order, as
\* it was; where the sender looks at what send returns, all of it.  In Chat
\* nobody leaves before all have met and no two share an id; in RtAudio the
\* standby plays on with the state set on the primary.
DemosDeliver == /\ part = "buffer" => Bb!BufferFifo
                /\ part = "relay" => Rl!RelayFifo
                /\ part = "gateway" => Gw!GwComplete
                /\ part = "pos" => Ps!PosIntact
                /\ part = "chat" => Ct!ChatMeets
                /\ part = "rt" => Rt!RtWarm
\* Rpc: the reply taken answers the request waited on.
RpcMatched == [][part = "rpc" => Rp!RpcMatched]_vars
\* Envelope: the sender's cipher, and no other, opens what was sealed, and
\* what parses is what would be built from its fields.
EnvExact == part = "envelope" => En!EnvRoundTrip /\ En!EnvExact
\* The runners: cases of one serial group never overlap, and a probe meets a
\* holder that is gone.
RunSerial == /\ part = "demos" => Dr!DrSerial
             /\ part = "cases" => Xr!XrProbesMeetDead
\* The runners: a case passes only on the exits it expected, and leaves no
\* process behind.
RunHonest == [][/\ part = "demos" => Dr!DrHonest
                /\ part = "cases" => Xr!XrClean]_vars
\* The plans: every combination the builds on this host allow is a case, once,
\* that can be started and expects what its producers send; a language that
\* is left out is named.  Every case planned passes in good time, and with late
\* readers too, unless it is known to need the warm-up.
PlansSound == /\ part = "harness" => Xl!PlanCovers /\ Xl!XlPasses /\ Xl!XlRobust
              /\ part = "plan" => Dp!DpComplete /\ Dp!DpFits /\ Dp!DpTold
=============================================================================
