----------------------------- MODULE SoleSender -----------------------------
(***************************************************************************)
(* The sole-sender record of a route: {pid, start_tok}, claimed by a sender *)
(* endpoint before it may send, taken over from a dead holder, released on  *)
(* disconnect.  claim_sole_owner and release_sole_owner run in any process, *)
(* one shared access per action; processes die at any point, and the pid of *)
(* a dead process may be given to a new one.                                *)
(***************************************************************************)
EXTENDS Integers

CONSTANTS
    Endpoints,   \* sender endpoints
    SoleProcs,       \* process ids
    ProcOf,      \* the process id each endpoint lives in
    SoleLives,    \* bound: processes that get the same id, one after the other
    SoleMayDie       \* whether processes die

\* One endpoint in each process, for ProcOf.
Alone == [e \in Endpoints |-> e]

Free == "free"           \* pid 0
Claiming == "claiming"   \* OWNER_CLAIMING
NoTok == <<>>            \* start_tok 0

VARIABLES
    pid, start_tok,      \* the record
    alive, life,         \* of each process id: does it run, and its how-manieth process
    pc, cur, tok         \* of each endpoint: where it is, the pid and token it loaded

sole_vars == <<pid, start_tok, alive, life, pc, cur, tok>>

SoleInit ==
        /\ pid = Free /\ start_tok = NoTok
        /\ alive = [p \in SoleProcs |-> TRUE]
        /\ life = [p \in SoleProcs |-> 1]
        /\ pc = [e \in Endpoints |-> "out"]
        /\ cur = [e \in Endpoints |-> Free]
        /\ tok = [e \in Endpoints |-> NoTok]

-----------------------------------------------------------------------------
start_token(p) == <<p, life[p]>>

\* Seeded fault: the token alone decides.
is_process_alive_TokenOnly(p, t) == t = NoTok \/ t = start_token(p)

\* The id is in use and, if a token was recorded, by the process it names.
is_process_alive(p, t) == alive[p] /\ (t = NoTok \/ t = start_token(p))

SoleRuns(e, label) == pc[e] = label /\ alive[ProcOf[e]]

SoleGoto(e, label) == pc' = [pc EXCEPT ![e] = label]

\* Back to "out" or on to "holds": the loaded values are dead.
Forget(e) ==
    /\ cur' = [cur EXCEPT ![e] = Free]
    /\ tok' = [tok EXCEPT ![e] = NoTok]

\* Seeded fault: a claim in flight is not refused.
LoadPid_NoRefusal(e) ==
    /\ SoleRuns(e, "out")
    /\ cur' = [cur EXCEPT ![e] = pid]
    /\ SoleGoto(e, IF pid = Free THEN "cas" ELSE "tok")
    /\ UNCHANGED <<pid, start_tok, alive, life, tok>>

LoadPid(e) ==
    /\ SoleRuns(e, "out")
    /\ pid # Claiming
    /\ cur' = [cur EXCEPT ![e] = pid]
    /\ SoleGoto(e, IF pid = Free THEN "cas" ELSE "tok")
    /\ UNCHANGED <<pid, start_tok, alive, life, tok>>

LoadTok(e) ==
    /\ SoleRuns(e, "tok")
    /\ tok' = [tok EXCEPT ![e] = start_tok]
    /\ SoleGoto(e, "alive")
    /\ UNCHANGED <<pid, start_tok, alive, life, cur>>

CheckAlive(e) ==
    /\ SoleRuns(e, "alive")
    /\ IF is_process_alive(cur[e], tok[e])
       THEN SoleGoto(e, "out") /\ Forget(e)
       ELSE SoleGoto(e, "cas") /\ UNCHANGED <<cur, tok>>
    /\ UNCHANGED <<pid, start_tok, alive, life>>

\* Seeded fault: the pid is stored without comparing it.
ClaimCas_Store(e) ==
    /\ SoleRuns(e, "cas")
    /\ pid' = Claiming /\ SoleGoto(e, "store_tok")
    /\ Forget(e)
    /\ UNCHANGED <<start_tok, alive, life>>

ClaimCas(e) ==
    /\ SoleRuns(e, "cas")
    /\ IF pid = cur[e]
       THEN pid' = Claiming /\ SoleGoto(e, "store_tok")
       ELSE UNCHANGED pid /\ SoleGoto(e, "out")
    /\ Forget(e)
    /\ UNCHANGED <<start_tok, alive, life>>

\* Seeded fault: the token of a holder taken over from stays.
StoreTok_KeepsOld(e) ==
    /\ SoleRuns(e, "store_tok")
    /\ start_tok' = IF start_tok = NoTok THEN start_token(ProcOf[e]) ELSE start_tok
    /\ SoleGoto(e, "store_pid")
    /\ UNCHANGED <<pid, alive, life, cur, tok>>

StoreTok(e) ==
    /\ SoleRuns(e, "store_tok")
    /\ start_tok' = start_token(ProcOf[e])
    /\ SoleGoto(e, "store_pid")
    /\ UNCHANGED <<pid, alive, life, cur, tok>>

StorePid(e) ==
    /\ SoleRuns(e, "store_pid")
    /\ pid' = ProcOf[e]
    /\ SoleGoto(e, "holds")
    /\ UNCHANGED <<start_tok, alive, life, cur, tok>>

\* release_sole_owner, on disconnect of an endpoint that claimed.
ReleaseBegin(e) ==
    /\ SoleRuns(e, "holds")
    /\ SoleGoto(e, IF pid = ProcOf[e] THEN "drop_tok" ELSE "out")
    /\ UNCHANGED <<pid, start_tok, alive, life, cur, tok>>

ReleaseTok(e) ==
    /\ SoleRuns(e, "drop_tok")
    /\ start_tok' = NoTok
    /\ SoleGoto(e, "drop_pid")
    /\ UNCHANGED <<pid, alive, life, cur, tok>>

ReleasePid(e) ==
    /\ SoleRuns(e, "drop_pid")
    /\ pid' = IF pid = ProcOf[e] THEN Free ELSE pid
    /\ SoleGoto(e, "out")
    /\ UNCHANGED <<start_tok, alive, life, cur, tok>>

\* A process dies with its endpoints; its id may be used again.
SoleDie(p) ==
        /\ SoleMayDie
        /\ alive[p]
        /\ alive' = [alive EXCEPT ![p] = FALSE]
        /\ pc' = [e \in Endpoints |-> IF ProcOf[e] = p THEN "out" ELSE pc[e]]
        /\ cur' = [e \in Endpoints |-> IF ProcOf[e] = p THEN Free ELSE cur[e]]
        /\ tok' = [e \in Endpoints |-> IF ProcOf[e] = p THEN NoTok ELSE tok[e]]
        /\ UNCHANGED <<pid, start_tok, life>>

SoleStart(p) ==
    /\ ~alive[p]
    /\ life[p] < SoleLives
    /\ alive' = [alive EXCEPT ![p] = TRUE]
    /\ life' = [life EXCEPT ![p] = @ + 1]
    /\ UNCHANGED <<pid, start_tok, pc, cur, tok>>

SoleClaim(e) ==
    \/ LoadPid(e) \/ LoadTok(e) \/ CheckAlive(e) \/ ClaimCas(e)
    \/ StoreTok(e) \/ StorePid(e)

SoleRelease(e) == ReleaseBegin(e) \/ ReleaseTok(e) \/ ReleasePid(e)

\* Every process is dead.
SoleDone == (\A p \in SoleProcs : ~alive[p] /\ life[p] = SoleLives) /\ UNCHANGED sole_vars

SoleNext ==
        \/ \E e \in Endpoints : SoleClaim(e) \/ SoleRelease(e)
        \/ \E p \in SoleProcs : SoleDie(p) \/ SoleStart(p)
        \/ SoleDone

SoleSpec == SoleInit /\ [][SoleNext]_sole_vars

-----------------------------------------------------------------------------
SoleLabels ==
    {"out", "tok", "alive", "cas", "store_tok", "store_pid", "holds",
     "drop_tok", "drop_pid"}
Tokens == {NoTok} \cup (SoleProcs \X (1 .. SoleLives))

\* Every variable has its type.
SoleTypeOK ==
    /\ pid \in SoleProcs \cup {Free, Claiming}
    /\ start_tok \in Tokens
    /\ alive \in [SoleProcs -> BOOLEAN]
    /\ life \in [SoleProcs -> 1 .. SoleLives]
    /\ pc \in [Endpoints -> SoleLabels]
    /\ cur \in [Endpoints -> SoleProcs \cup {Free}]
    /\ tok \in [Endpoints -> Tokens]

\* "A live holder is never taken over": no two endpoints may send at once.  It
\* holds between two processes that keep their ids, and no further: the CAS of
\* claim_sole_owner compares the pid alone, and the same pid may have been
\* released and recorded again since the claimant judged its holder dead.
Holding == {"holds", "drop_tok", "drop_pid"}
OneSender ==
    \A e, f \in Endpoints : pc[e] \in Holding /\ pc[f] \in Holding => e = f

\* While the process in the record runs and holds the claim, the token beside
\* its id is its own or none, so a claimant that loads the two together never
\* judges it dead: claim_sole_owner stores the token under OWNER_CLAIMING.
OwnToken ==
    \A e \in Endpoints :
        pc[e] \in Holding /\ pid = ProcOf[e]
            => start_tok \in {NoTok, start_token(pid)}

\* A dead holder is on record and some endpoint that runs wants to send.
Wanted(p) ==
    /\ pid = p /\ ~alive[p]
    /\ \E e \in Endpoints : alive[ProcOf[e]] /\ pc[e] \notin Holding
=============================================================================
