------------------------------- MODULE Reaper -------------------------------
(***************************************************************************)
(* The owner table of a ring's connection bits, {pid, start_tok} per bit,  *)
(* and the reaper a connecting receiver runs before it claims a bit: scan  *)
(* the connected bits and free those whose recorded owner is dead: see     *)
(* ChanInner::open (receiver side), set_owner, clear_owner, disconnect and *)
(* reap_dead_receivers, one access to the table per action.  Reading and   *)
(* cursors are in Route; here each process has one receiver endpoint.      *)
(***************************************************************************)
EXTENDS Integers

CONSTANTS
    Procs,       \* process ids
    NBits,       \* connection bits, 32 in the code
    Reused,      \* process ids that are used again
    MaxLives,    \* bound: processes that get such an id, one after the other
    MayDie,      \* whether processes die
    MayLeave,    \* whether receivers disconnect
    MayEvict     \* whether a sender disconnects receivers (force_push)

Bits == 0 .. NBits - 1
NoPid == "none"
NoOwnerTok == <<>>

VARIABLES
    connections,         \* RingHeader.connections
    owner_pid, owner_tok,      \* SlotOwner of each bit
    rp_alive, rp_life,         \* of each process id: does it run, and its how-manieth process
    \* locals of each process: bits left to scan, bit in hand, what it loaded
    rp_pc, live, bit, owner, rp_tok,
    conn_id,             \* bit each receiver claimed
    evicted,             \* history: receivers that lost their bit to a sender
    rp_raced             \* history: a bit was claimed before it was settled

table == <<connections, owner_pid, owner_tok>>
procs == <<rp_alive, rp_life>>
scan == <<live, bit, owner, rp_tok>>
rp_vars == <<table, procs, rp_pc, scan, conn_id, evicted, rp_raced>>

RpInit ==
    /\ connections = {}
    /\ owner_pid = [b \in Bits |-> NoPid]
    /\ owner_tok = [b \in Bits |-> NoOwnerTok]
    /\ rp_alive = [p \in Procs |-> TRUE]
    /\ rp_life = [p \in Procs |-> 1]
    /\ rp_pc = [p \in Procs |-> "out"]
    /\ live = [p \in Procs |-> {}]
    /\ bit = [p \in Procs |-> 0]
    /\ owner = [p \in Procs |-> NoPid]
    /\ rp_tok = [p \in Procs |-> NoOwnerTok]
    /\ conn_id = [p \in Procs |-> 0]
    /\ evicted = {} /\ rp_raced = FALSE

-----------------------------------------------------------------------------
rp_start_token(p) == <<p, rp_life[p]>>

\* Seeded fault: the token alone decides.
rp_is_process_alive_TokenOnly(p, t) == t = NoOwnerTok \/ t = rp_start_token(p)

\* The id is in use and, if a token was recorded, by the process it names.
rp_is_process_alive(p, t) == rp_alive[p] /\ (t = NoOwnerTok \/ t = rp_start_token(p))

Runs(p, label) == rp_pc[p] = label /\ rp_alive[p]
RpGoto(p, label) == rp_pc' = [rp_pc EXCEPT ![p] = label]

\* Back to the scan: the bit in hand and its record are dead.
NextBit(p) ==
    /\ RpGoto(p, "next")
    /\ bit' = [bit EXCEPT ![p] = 0]
    /\ owner' = [owner EXCEPT ![p] = NoPid]
    /\ rp_tok' = [rp_tok EXCEPT ![p] = NoOwnerTok]

LoadLive(p) ==
    /\ Runs(p, "out")
    /\ live' = [live EXCEPT ![p] = connections]
    /\ RpGoto(p, "next")
    /\ UNCHANGED <<table, procs, bit, owner, rp_tok, conn_id, evicted, rp_raced>>

\* Take the lowest bit left; an unknown owner is left alone.
LoadOwner(p) ==
    /\ Runs(p, "next")
    /\ \E b \in live[p] :
          /\ \A x \in live[p] : b <= x
          /\ live' = [live EXCEPT ![p] = @ \ {b}]
          /\ IF owner_pid[b] = NoPid
             THEN UNCHANGED <<bit, owner, rp_pc>>
             ELSE /\ bit' = [bit EXCEPT ![p] = b]
                  /\ owner' = [owner EXCEPT ![p] = owner_pid[b]]
                  /\ RpGoto(p, "tok")
    /\ UNCHANGED <<table, procs, rp_tok, conn_id, evicted, rp_raced>>

LoadOwnerTok(p) ==
    /\ Runs(p, "tok")
    /\ rp_tok' = [rp_tok EXCEPT ![p] = owner_tok[bit[p]]]
    /\ RpGoto(p, "alive")
    /\ UNCHANGED <<table, procs, live, bit, owner, conn_id, evicted, rp_raced>>

CheckOwner(p) ==
    /\ Runs(p, "alive")
    /\ IF rp_is_process_alive(owner[p], rp_tok[p])
       THEN NextBit(p)
       ELSE RpGoto(p, "cas") /\ UNCHANGED <<bit, owner, rp_tok>>
    /\ UNCHANGED <<table, procs, live, conn_id, evicted, rp_raced>>

\* Seeded fault: the owner is wiped without comparing it.
ReapCas_Store(p) ==
    /\ Runs(p, "cas")
    /\ owner_pid' = [owner_pid EXCEPT ![bit[p]] = NoPid]
    /\ RpGoto(p, "wipe") /\ UNCHANGED <<bit, owner, rp_tok>>
    /\ UNCHANGED <<connections, owner_tok, procs, live, conn_id, evicted, rp_raced>>

\* Only if the owner is still the dead process that was seen.
ReapCas(p) ==
    /\ Runs(p, "cas")
    /\ IF owner_pid[bit[p]] = owner[p]
       THEN /\ owner_pid' = [owner_pid EXCEPT ![bit[p]] = NoPid]
            /\ RpGoto(p, "wipe") /\ UNCHANGED <<bit, owner, rp_tok>>
       ELSE NextBit(p) /\ UNCHANGED owner_pid
    /\ UNCHANGED <<connections, owner_tok, procs, live, conn_id, evicted, rp_raced>>

ReapWipe(p) ==
    /\ Runs(p, "wipe")
    /\ owner_tok' = [owner_tok EXCEPT ![bit[p]] = NoOwnerTok]
    /\ RpGoto(p, "clear")
    /\ UNCHANGED <<connections, owner_pid, procs, scan, conn_id, evicted, rp_raced>>

\* Seeded fault: the bits of the whole scan are freed, not the one in hand.
ReapClear_All(p) ==
    /\ Runs(p, "clear")
    /\ connections' = connections \ (live[p] \cup {bit[p]})
    /\ NextBit(p)
    /\ UNCHANGED <<owner_pid, owner_tok, procs, live, conn_id, evicted, rp_raced>>

ReapClear(p) ==
    /\ Runs(p, "clear")
    /\ connections' = connections \ {bit[p]}
    /\ NextBit(p)
    /\ UNCHANGED <<owner_pid, owner_tok, procs, live, conn_id, evicted, rp_raced>>

\* A process that has claimed a bit, evicted or not, up to the end of
\* disconnect; a reaper with a record in hand; one that has taken it.
Tenant(p) == rp_alive[p] /\ rp_pc[p] \in {"own_tok", "own_pid", "in", "wipe_pid", "wipe_tok"}
Scanning(q) == rp_alive[q] /\ rp_pc[q] \in {"tok", "alive", "cas"}
Reaps(q) == rp_alive[q] /\ rp_pc[q] \in {"wipe", "clear"}

\* Someone is still at the clear bit b: it has a record or a tenant, a reaper is
\* freeing it, or judges the record there of a process that runs.
Unsettled(b) ==
    \/ owner_pid[b] # NoPid
    \/ \E q \in Procs : Tenant(q) /\ conn_id[q] = b
    \/ \E q \in Procs : /\ bit[q] = b
                        /\ Reaps(q) \/ (Scanning(q) /\ rp_alive[owner[q]])

\* Seeded fault: the test for a full table is dropped.
ClaimBit_NoFullTest(p) ==
    /\ Runs(p, "next") /\ live[p] = {}
    /\ \E b \in (0 .. NBits) \ connections :
          /\ \A x \in (0 .. NBits) \ connections : b <= x
          /\ connections' = connections \cup {b}
          /\ conn_id' = [conn_id EXCEPT ![p] = b]
          /\ evicted' = evicted \ {p}
          /\ RpGoto(p, "own_tok")
    /\ UNCHANGED <<owner_pid, owner_tok, procs, scan, rp_raced>>

\* The scan is over: claim the lowest clear bit; an error when there is none.
ClaimBit(p) ==
    /\ Runs(p, "next") /\ live[p] = {}
    /\ IF connections = Bits
       THEN RpGoto(p, "out") /\ UNCHANGED <<connections, conn_id, evicted, rp_raced>>
       ELSE \E b \in Bits \ connections :
               /\ \A x \in Bits \ connections : b <= x
               /\ connections' = connections \cup {b}
               /\ conn_id' = [conn_id EXCEPT ![p] = b]
               /\ evicted' = evicted \ {p} /\ rp_raced' = (rp_raced \/ Unsettled(b))
               /\ RpGoto(p, "own_tok")
    /\ UNCHANGED <<owner_pid, owner_tok, procs, scan>>

\* set_owner: the token, then the pid.
SetOwnerTok(p) ==
    /\ Runs(p, "own_tok")
    /\ owner_tok' = [owner_tok EXCEPT ![conn_id[p]] = rp_start_token(p)]
    /\ RpGoto(p, "own_pid")
    /\ UNCHANGED <<connections, owner_pid, procs, scan, conn_id, evicted, rp_raced>>

SetOwnerPid(p) ==
    /\ Runs(p, "own_pid")
    /\ owner_pid' = [owner_pid EXCEPT ![conn_id[p]] = p]
    /\ RpGoto(p, "in")
    /\ UNCHANGED <<connections, owner_tok, procs, scan, conn_id, evicted, rp_raced>>

Connect(p) ==
    \/ LoadLive(p) \/ LoadOwner(p) \/ LoadOwnerTok(p) \/ CheckOwner(p)
    \/ ReapCas(p) \/ ReapWipe(p) \/ ReapClear(p)
    \/ ClaimBit(p) \/ SetOwnerTok(p) \/ SetOwnerPid(p)

\* An endpoint that is gone has no bit, evicted or not.
Gone(p) == conn_id' = [conn_id EXCEPT ![p] = 0] /\ evicted' = evicted \ {p}

\* disconnect frees the bit; clear_owner then wipes its record.
Disconnect(p) ==
    /\ MayLeave
    /\ Runs(p, "in")
    /\ connections' = connections \ {conn_id[p]}
    /\ RpGoto(p, "wipe_pid")
    /\ UNCHANGED <<owner_pid, owner_tok, procs, scan, conn_id, evicted, rp_raced>>

ClearOwnerPid(p) ==
    /\ Runs(p, "wipe_pid")
    /\ owner_pid' = [owner_pid EXCEPT ![conn_id[p]] = NoPid]
    /\ RpGoto(p, "wipe_tok")
    /\ UNCHANGED <<connections, owner_tok, procs, scan, conn_id, evicted, rp_raced>>

ClearOwnerTok(p) ==
    /\ Runs(p, "wipe_tok")
    /\ owner_tok' = [owner_tok EXCEPT ![conn_id[p]] = NoOwnerTok]
    /\ RpGoto(p, "out") /\ Gone(p)
    /\ UNCHANGED <<connections, owner_pid, procs, scan, rp_raced>>

\* A process that has claimed a bit and not given it back.
Claimed(p) == rp_alive[p] /\ rp_pc[p] \in {"own_tok", "own_pid", "in"}

\* force_push frees the bits of late readers and leaves their records.
Evict(b) ==
    /\ MayEvict
    /\ b \in connections
    /\ connections' = connections \ {b}
    /\ evicted' = evicted \cup {p \in Procs : Claimed(p) /\ conn_id[p] = b}
    /\ UNCHANGED <<owner_pid, owner_tok, procs, rp_pc, scan, conn_id, rp_raced>>

\* A process dies in the middle of anything; its id may be used again.
Die(p) ==
    /\ MayDie
    /\ rp_alive[p]
    /\ rp_alive' = [rp_alive EXCEPT ![p] = FALSE]
    /\ RpGoto(p, "out") /\ Gone(p)
    /\ live' = [live EXCEPT ![p] = {}]
    /\ bit' = [bit EXCEPT ![p] = 0]
    /\ owner' = [owner EXCEPT ![p] = NoPid]
    /\ rp_tok' = [rp_tok EXCEPT ![p] = NoOwnerTok]
    /\ UNCHANGED <<table, rp_life, rp_raced>>

Start(p) ==
    /\ ~rp_alive[p]
    /\ p \in Reused /\ rp_life[p] < MaxLives
    /\ rp_alive' = [rp_alive EXCEPT ![p] = TRUE]
    /\ rp_life' = [rp_life EXCEPT ![p] = @ + 1]
    /\ UNCHANGED <<table, rp_pc, scan, conn_id, evicted, rp_raced>>

\* Every process is dead.
RpDone == /\ \A p \in Procs : ~rp_alive[p] /\ (p \in Reused => rp_life[p] = MaxLives)
          /\ UNCHANGED rp_vars

RpNext ==
    \/ \E p \in Procs : \/ Connect(p)
                        \/ Disconnect(p) \/ ClearOwnerPid(p) \/ ClearOwnerTok(p)
                        \/ Die(p) \/ Start(p)
    \/ \E b \in Bits : Evict(b)
    \/ RpDone

RpSpec == RpInit /\ [][RpNext]_rp_vars

-----------------------------------------------------------------------------
RpLabels ==
    {"out", "next", "tok", "alive", "cas", "wipe", "clear", "own_tok", "own_pid",
     "in", "wipe_pid", "wipe_tok"}
OwnerTokens == {NoOwnerTok} \cup (Procs \X Nat)

\* Every variable has its type.
RpTypeOK ==
    /\ connections \in SUBSET Bits
    /\ owner_pid \in [Bits -> Procs \cup {NoPid}]
    /\ owner_tok \in [Bits -> OwnerTokens]
    /\ rp_alive \in [Procs -> BOOLEAN]
    /\ rp_life \in [Procs -> Nat]
    /\ rp_pc \in [Procs -> RpLabels]
    /\ live \in [Procs -> SUBSET Bits]
    /\ bit \in [Procs -> Bits]
    /\ owner \in [Procs -> Procs \cup {NoPid}]
    /\ rp_tok \in [Procs -> OwnerTokens]
    /\ conn_id \in [Procs -> Bits]
    /\ evicted \in SUBSET Procs /\ rp_raced \in BOOLEAN

\* A running receiver that no sender has disconnected.
Connected(p) == Claimed(p) /\ p \notin evicted

\* "A live receiver is never false-reaped": the bit of a running receiver that
\* has claimed it and has not been disconnected stays in `connections`, and no
\* two such receivers share one.  A bit is free before its record is cleared
\* (disconnect, force_push) and may be claimed meanwhile: what is then left of
\* the former tenant lets reap_dead_receivers free the bit of the new one.
HoldsBit ==
    /\ RpTypeOK
    /\ \A p \in Procs : Connected(p) =>
          /\ conn_id[p] \in connections
          /\ \A q \in Procs : Connected(q) /\ conn_id[q] = conn_id[p] => q = p

\* That claim is all that is needed for it: as long as every bit was claimed
\* settled, no reaper, however stale what it loaded, frees a running receiver's
\* bit, whoever disconnects, is evicted, dies, or starts under a dead one's id.
KeepsBit == RpTypeOK /\ (~rp_raced => HoldsBit)

\* Nor does a running receiver that has finished open lose its record, its own
\* id and token, by which it will be reaped should it die: no reaper that works
\* on the bit's previous owner (its CAS, its late wipe of the token) undoes it.
OnRecord ==
    ~rp_raced => \A p \in Procs : Connected(p) /\ rp_pc[p] = "in" =>
        owner_pid[conn_id[p]] = p /\ owner_tok[conn_id[p]] = rp_start_token(p)

\* Bit b is still that of d, which has died, and p runs.
Unreaped(d, b, p) == b \in connections /\ owner_pid[b] = d /\ ~rp_alive[d] /\ rp_alive[p]
=============================================================================
