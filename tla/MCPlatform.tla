---------------------------- MODULE MCPlatform ----------------------------
(***************************************************************************)
(* What channels are built on and shared-memory state that outlives its    *)
(* processes: one small instance of each component. Each behaviour is one  *)
(* of the component that part names: the components do not meet, so they   *)
(* take turns with one set of variables.  ShmCache, SyncAbi, SoleSender    *)
(* and Reaper are extended and keep their own, so that the run checks the  *)
(* very invariants that PlatformProof proves.                              *)
(***************************************************************************)
EXTENDS ShmCache, SyncAbi, SoleSender, Reaper

VARIABLES part, v1, v2, v3, v4, v5, v6, v7, v8, v9, v10, v11, v12

Sm == INSTANCE Segment WITH
  Procs <- {1, 2}, Sizes <- {1, 2}, MaxObj <- 2, MaxOps <- 4, can_grow <- v1,
  name <- v2, size <- v3, cnt <- v4, h <- v5, wiped <- v6, made <- v7, ops <- v8
Nt == INSTANCE Notify WITH
  Readers <- {1, 2}, MaxSent <- 3, backend <- v1, bit <- v2, q <- v3, path <- v4,
  made <- v5, open <- v6, tok <- v7, p <- v8, wfd <- v9, snd <- v10, sent <- v11,
  stale <- v12
Ms == INSTANCE Messages WITH
  Senders <- {1, 2}, Receivers <- {1}, MaxFrag <- 3, MaxMsg <- 2, MaxOpen <- 4,
  multi <- v1, cc <- v2, ac <- v3, snd <- v4, rcv <- v5, q <- v6, begun <- v7,
  owed <- v8, out <- v9, reused <- v10
Cs == INSTANCE ChunkStorage WITH
  Senders <- {"s1", "s2"}, Receivers <- {"r1", "r2"}, MAX_COUNT <- 2, NSlots <- 1,
  MaxStore <- 3, next <- v1, cursor <- v2, prepared <- v3, lock <- v4, conns <- v5,
  data <- v6, up <- v7, s <- v8, r <- v9, ring <- v10, stored <- v11, odd <- v12
S2 == INSTANCE SoleSender WITH
  Endpoints <- {"p1", "p2"}, SoleProcs <- {"p1", "p2"},
  ProcOf <- [e \in {"p1", "p2"} |-> e], SoleLives <- 1, SoleMayDie <- TRUE, pid <- v1,
  start_tok <- v2, alive <- v3, life <- v4, pc <- v5, cur <- v6, tok <- v7

\* The variables a component does not need stay at 0.
r12 == <<v12>>
r11 == <<v11, r12>>
r10 == <<v10, r11>>
r9 == <<v9, r10>>
r8 == <<v8, r9>>
r7 == <<v7, r8>>
r6 == <<v6, r7>>
r1 == <<v1, v2, v3, v4, v5, r6>>
own == <<cache_vars, abi_vars, sole_vars, rp_vars>>
vars == <<part, r1, own>>
Z12 == v12 = 0
Z11 == v11 = 0 /\ Z12
Z10 == v10 = 0 /\ Z11
Z9 == v9 = 0 /\ Z10
Z8 == v8 = 0 /\ Z9
Z7 == v7 = 0 /\ Z8
Z6 == v6 = 0 /\ Z7
Z1 == v1 = 0 /\ v2 = 0 /\ v3 = 0 /\ v4 = 0 /\ v5 = 0 /\ Z6

Init == /\ CacheInit /\ AbiInit /\ SoleInit /\ RpInit
        /\ \/ part \in {"cache", "sole3", "reaper"} /\ build = [t \in AbiProcs |-> 1] /\ Z1
           \/ part = "abi" /\ Z1
           \/ /\ build = [t \in AbiProcs |-> 1]
              /\ \/ part = "segment"  /\ Sm!Init /\ Z9
                 \/ part = "notify"   /\ Nt!Init
                 \/ part = "messages" /\ Ms!Init /\ Z11
                 \/ part = "chunks"   /\ Cs!Init
                 \/ part = "sole2"    /\ S2!SoleInit /\ Z8

Next == \/ part = "cache"    /\ CacheNext /\ UNCHANGED <<part, r1, abi_vars, sole_vars, rp_vars>>
        \/ part = "abi"      /\ AbiNext   /\ UNCHANGED <<part, r1, cache_vars, sole_vars, rp_vars>>
        \/ part = "sole3"    /\ SoleNext  /\ UNCHANGED <<part, r1, cache_vars, abi_vars, rp_vars>>
        \/ part = "reaper"   /\ RpNext    /\ UNCHANGED <<part, r1, cache_vars, abi_vars, sole_vars>>
        \/ part = "segment"  /\ Sm!Next /\ UNCHANGED <<part, r9, own>>
        \/ part = "notify"   /\ Nt!Next /\ UNCHANGED <<part, own>>
        \/ part = "messages" /\ Ms!Next /\ UNCHANGED <<part, r11, own>>
        \/ part = "chunks"   /\ Cs!Next /\ UNCHANGED <<part, own>>
        \/ part = "sole2"    /\ S2!SoleNext /\ UNCHANGED <<part, r8, own>>

Spec == Init /\ [][Next]_vars

\* Nothing is said of Reaper once a bit was claimed too early, nor of
\* ChunkStorage once a push was forced: that push is followed to its end.
Followed == /\ ~rp_raced
            /\ part = "chunks" /\ v12 => \E x \in DOMAIN v8 : v8[x].pc \in {"clear", "cleared", "write"}

-----------------------------------------------------------------------------
\* Segment: two users never both take themselves for the first, and none that
\* is not takes itself for the last and unlinks the name.
SegmentSound == part = "segment" => Sm!SegOneFirst /\ Sm!SegCounted
\* Notify: no receiver sleeps on a message.
NtAwake == part = "notify" => Nt!NtAwake
\* Messages: fragments of two messages never meet in one buffer, and what was
\* pushed whole is delivered.
MessagesWhole == part = "messages" => Ms!MsgWhole /\ Ms!MsgDelivered
\* ChunkStorage: a chunk is free or in use, never both or neither, and holds
\* for its readers the message they were sent.
ChunksKept == part = "chunks" => Cs!ChunksApart /\ Cs!ChunkIntact
\* SoleSender: between two processes that keep their ids, one may send.
OneOfTwoSends == part = "sole2" => S2!OneSender
=============================================================================
