---------------------------- MODULE MCProgress ----------------------------
(***************************************************************************)
(* What must eventually happen, one small instance of each component that  *)
(* promises it. Each behaviour is one of the component that part names.    *)
(* Where the threads or processes of a component are interchangeable the   *)
(* property is stated of one of them.                                      *)
(***************************************************************************)
EXTENDS Integers, FiniteSets, Sequences, Functions

VARIABLES part, v1, v2, v3, v4, v5, v6, v7, v8, v9, v10, v11, v12, v13

P == <<"p1", "p2", "p3">>
\* The processes of the relays, one of each demo in each.
R == <<{"source", "p1", "send"}, {"stage", "p2", "recv"}, {"sink", "collect"}>>

Lx == INSTANCE LinuxSync WITH
  Threads <- {1, 2, 3}, ProcOf <- P, CanWait <- {}, CanWake <- {}, CanLock <- {1, 2, 3},
  MaxOps <- 1, MayDie <- {"p1", "p2"}, ftx <- v1, cnd <- v2, sleepers <- v3,
  queue <- v4, pend <- v5, listed <- v6, dead <- v7, quit <- v8, pred <- v9,
  lapse <- v10, p <- v11
Hd == INSTANCE ConnHead WITH
  HeadThreads <- {1, 2, 3}, NBits <- 2, HeadOps <- 2, HeadMayDie <- {3}, lc <- v1,
  constructed <- v2, cc <- v3, ends <- v4
Rw == INSTANCE RwLock WITH
  RwThreads <- {1, 2, 3}, rw_lc <- v1, rw_pc <- v2, rw_old <- v3
Ab == INSTANCE SyncAbi WITH
  AbiProcs <- {1, 2, 3}, Builds <- {1, 2}, Fields <- {1, 2}, MaxStamps <- 1,
  magic <- v1, field <- v2, gen <- v3, build <- v4, opener <- v5
Nt == INSTANCE Notify WITH
  Readers <- {1, 2}, MaxSent <- 2, backend <- v1, bit <- v2, q <- v3, path <- v4,
  made <- v5, open <- v6, tok <- v7, p <- v8, wfd <- v9, snd <- v10, sent <- v11,
  stale <- v12
Rl == INSTANCE Relay WITH
  count <- 3, Cap <- 2, demo <- v1, q <- v2, conn <- v3, p <- v4, got <- v5, quit <- v6,
  late <- v7
Ct == INSTANCE Chat WITH
  Chatters <- {1, 2}, lines <- 1, Cap <- 2, bots <- v1, acc <- v2, log <- v3, pos <- v4,
  c <- v5, late <- v6
Gw == INSTANCE Gateway WITH
  Devices <- {1, 2}, readings <- 2, Cap <- 1, q <- v1, conn <- v2, agent <- v3,
  task <- v4, stats <- v5, exit <- v6, got <- v7
So == INSTANCE SoleSender WITH
  Endpoints <- Range(P), SoleProcs <- Range(P), ProcOf <- [e \in Range(P) |-> e],
  SoleLives <- 1, SoleMayDie <- TRUE, pid <- v1, start_tok <- v2, alive <- v3, life <- v4,
  pc <- v5, cur <- v6, tok <- v7
Re == INSTANCE Reaper WITH
  Procs <- {"p1", "p2"}, NBits <- 1, Reused <- {"p1", "p2"}, MaxLives <- 2,
  MayDie <- TRUE, MayLeave <- TRUE, MayEvict <- TRUE, connections <- v1, owner_pid <- v2, owner_tok <- v3, rp_alive <- v4,
  rp_life <- v5, rp_pc <- v6, live <- v7, bit <- v8, owner <- v9, rp_tok <- v10,
  conn_id <- v11, evicted <- v12, rp_raced <- v13

\* The variables a component does not need stay at 0.
r13 == <<v13>>
r12 == <<v12, r13>>
r11 == <<v11, r12>>
r10 == <<v10, r11>>
r9 == <<v9, r10>>
r8 == <<v8, r9>>
r7 == <<v7, r8>>
r6 == <<v6, r7>>
r5 == <<v5, r6>>
r4 == <<v4, r5>>
vars == <<part, v1, v2, v3, v4, v5, v6, v7, v8, v9, v10, v11, v12, v13>>
Z13 == v13 = 0
Z12 == v12 = 0 /\ Z13
Z11 == v11 = 0 /\ Z12
Z10 == v10 = 0 /\ Z11
Z9 == v9 = 0 /\ Z10
Z8 == v8 = 0 /\ Z9
Z7 == v7 = 0 /\ Z8
Z6 == v6 = 0 /\ Z7
Z5 == v5 = 0 /\ Z6
Z4 == v4 = 0 /\ Z5

Init == \/ part = "linux"   /\ Lx!LxInit /\ Z12
        \/ part = "head"    /\ Hd!HeadInit /\ Z5
        \/ part = "rw"      /\ Rw!RwInit /\ Z4
        \/ part = "abi"     /\ Ab!AbiInit /\ Z6
        \/ part = "notify"  /\ Nt!Init /\ Z13
        \/ part = "relay"   /\ Rl!Init /\ Z8
        \/ part = "chat"    /\ Ct!Init /\ Z7
        \/ part = "gateway" /\ Gw!Init /\ Z8
        \/ part = "sole"    /\ So!SoleInit /\ Z8
        \/ part = "reaper"  /\ Re!RpInit

Next == \/ part = "linux"   /\ Lx!LxNext /\ UNCHANGED <<part, r12>>
        \/ part = "head"    /\ Hd!HeadNext /\ UNCHANGED <<part, r5>>
        \/ part = "rw"      /\ Rw!RwNext /\ UNCHANGED <<part, r4>>
        \/ part = "abi"     /\ Ab!AbiNext /\ UNCHANGED <<part, r6>>
        \/ part = "notify"  /\ Nt!Next /\ UNCHANGED <<part, r13>>
        \/ part = "relay"   /\ Rl!Next /\ UNCHANGED <<part, r8>>
        \/ part = "chat"    /\ Ct!Next /\ UNCHANGED <<part, r7>>
        \/ part = "gateway" /\ Gw!Next /\ UNCHANGED <<part, r8>>
        \/ part = "sole"    /\ So!SoleNext /\ UNCHANGED <<part, r8>>
        \/ part = "reaper"  /\ Re!RpNext /\ UNCHANGED part

(***************************************************************************)
(* Fairness.  A thread that can take its next step on its own takes it: no *)
(* process is stopped for good while it is alive.  Nothing is assumed of   *)
(* calls a program need not make, of time-outs (except the gateway's one   *)
(* deadline), of deaths, or of who wins a race for a lock.                 *)
(***************************************************************************)
Step(i) == \/ part = "linux"   /\ Lx!LxStep(i) /\ UNCHANGED <<part, r12>>
           \/ part = "head"    /\ Hd!Construct(i) /\ UNCHANGED <<part, r5>>
           \/ part = "rw"      /\ Rw!RwStep(i) /\ UNCHANGED <<part, r4>>
           \/ part = "abi"     /\ Ab!AbiStep(i) /\ UNCHANGED <<part, r6>>
           \/ part = "notify"  /\ (IF i <= 2 THEN Nt!Receiver(i) ELSE Nt!Sender) /\ UNCHANGED <<part, r13>>
           \/ part = "relay"   /\ (\E x \in R[i] \cap Rl!Procs : Rl!Step(x)) /\ UNCHANGED <<part, r8>>
           \/ part = "chat"    /\ i <= 2 /\ Ct!Step(i) /\ UNCHANGED <<part, r7>>
           \/ part = "gateway" /\ (IF i <= 2 THEN Gw!Agent(i) ELSE Gw!Deadline) /\ UNCHANGED <<part, r8>>
           \/ part = "sole"    /\ So!SoleClaim(P[i]) /\ UNCHANGED <<part, r8>>
           \/ part = "reaper"  /\ i <= 2 /\ Re!Connect(P[i]) /\ UNCHANGED part

Spec == Init /\ [][Next]_vars /\ \A i \in 1 .. 3 : WF_vars(Step(i))

-----------------------------------------------------------------------------
\* Locks and set-up: whoever queues for the Linux mutex in FUTEX_LOCK_PI gets
\* it or gives up, whichever threads are killed with it; every endpoint gets
\* through RingHeader::init, unless one was killed holding its spin lock; a
\* writer that has raised RwLock's flag enters, although new readers keep
\* coming; and init_or_validate returns, of an opener too that finds a stamp
\* whose initialiser died half way.
LocksGetOn ==
  /\ \A t \in {1, 3} : (part = "linux" /\ Lx!Queued(t)) ~> ~(part = "linux" /\ Lx!Queued(t))
  /\ (part = "head" /\ Hd!HeadAt(1, "new")) ~> (part = "head" /\ Hd!Through(1))
  /\ (part = "rw" /\ Rw!RwAt(1, "drain")) ~> (part = "rw" /\ Rw!RwAt(1, "writing"))
  /\ (part = "abi" /\ Ab!AbiAt(1, "load")) ~> (part = "abi" /\ Ab!Returned(1))
\* Notify: what is sent to an async receiver that stays is received.
NtReceived ==
  (part = "notify" /\ Nt!Unreceived(1)) ~> ~(part = "notify" /\ Nt!Unreceived(1))
\* The demos end.  Relay: unless a wait times out, every process of a counted
\* demo ends, each reader with everything that was sent to it.  Chat: where the
\* ring holds everything that is said, all bots end with all lines of all
\* others, and users once their quit marker has come back.  Gateway: the
\* deadline frees the gateway, and no agent waits for ever for one that is gone.
DemosEnd ==
  <>(/\ part = "relay" => Rl!Settled
     /\ part = "chat" => Ct!Settled
     /\ part = "gateway" => Gw!Ended)
\* The dead are replaced.  SoleSender: a dead holder is taken over as long as
\* some endpoint that has not claimed keeps sending, whichever endpoints die on
\* the way.  Reaper: a receiver that connects frees the bit of a receiver dead
\* by then.
DeadReplaced ==
  /\ (part = "sole" /\ So!Wanted("p1")) ~> ~(part = "sole" /\ So!Wanted("p1"))
  /\ (part = "reaper" /\ Re!Unreaped("p1", 0, "p2") /\ Re!Runs("p2", "out"))
       ~> ~(part = "reaper" /\ Re!Unreaped("p1", 0, "p2"))
=============================================================================
