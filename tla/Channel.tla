------------------------------ MODULE Channel ------------------------------
(***************************************************************************)
(* The multi-writer broadcast ring of a Channel: push_fragment_multi and   *)
(* commit_multi, recv_multi, release_mark and release_stale, the receiver  *)
(* side of ChanInner::open and disconnect, one action per access to shared *)
(* memory.  A slot's rc_ holds a generation and the unread marks, its f_ct_*)
(* the commit flag !pos while it holds the fragment of pos and the ct it   *)
(* waits for while it is free.  The epoch never moves on this ring.        *)
(***************************************************************************)
EXTENDS Integers, TLC

CONSTANTS
  Writers, Receivers,
  NBits,       \* connection bits, 32 in the code
  RING_SIZE,   \* 256 in the code
  CursorMod,   \* 2^32
  MaxPush,     \* bound: claims of a slot
  MaxConn,     \* bound: connections made
  MayDie       \* receivers that may be killed

ASSUME ConstantsAssumption ==
  /\ RING_SIZE \in Nat \ {0} /\ CursorMod \in Nat \ {0}
  /\ NBits \in Nat /\ MaxPush \in Nat /\ Writers \cap Receivers = {}

VARIABLES
  connections, write_cursor, rc, f_ct, data, since,   \* shared memory
  p,           \* each endpoint's locals
  claims,      \* slots claimed so far
  conns,       \* connections made so far
  off,         \* receivers a claim has failed, or whose bit came with marks
  split        \* a slot was claimed while another was at work on it

vars == <<connections, write_cursor, rc, f_ct, data, since, p, claims, conns, off, split>>
ring == <<rc, f_ct, data>>
hist == <<claims, conns, off, split>>

Bits == 0 .. NBits - 1
Slots == 0 .. RING_SIZE - 1
Slot(pos) == pos % RING_SIZE
Procs == Writers \cup Receivers
Torn == <<>>
NoWord == [g |-> 0, m |-> {}]

\* Cursor arithmetic: the sign of a wrapping difference; the commit flag, an
\* inverted position, is negative here.
AtOrAfter(pos, s) == (pos - s) % CursorMod < CursorMod \div 2
Up(pos) == (pos + 1) % CursorMod
Commit(pos) == -(pos + 1)
PosOf(flag) == -(flag + 1)

\* Locals: pc, loaded connections, position in hand, loaded word, bit, bits
\* or slots still to go through, cursor at the start, fragment copied.
Idle == [pc |-> "idle", cc |-> {}, pos |-> 0, w |-> NoWord, bit |-> 0, todo |-> {},
         start |-> 0, cur |-> 0, frag |-> Torn]

Init == /\ connections = {} /\ write_cursor = 0
        /\ rc = [s \in Slots |-> NoWord] /\ f_ct = [s \in Slots |-> 0]
        /\ data = [s \in Slots |-> Torn] /\ since = [b \in Bits |-> 0]
        /\ p = [x \in Procs |-> Idle]
        /\ claims = 0 /\ conns = 0 /\ off = {} /\ split = FALSE

At(x, l) == p[x].pc = l
Dropping == {"rm_load", "rm_check", "rm_cas", "rm_free"}
Reading == {"open", "copy", "rel", "rel_flag", "rel_cas"}
Set(x, e) == p' = [p EXCEPT ![x] = e]
Goto(x, l) == Set(x, [p[x] EXCEPT !.pc = l])

-----------------------------------------------------------------------------
(* release_mark: of a writer after its commit, of a receiver connecting.   *)
(* The bits (writer) or slots (receiver) left are in todo.                 *)

Next1(x) == IF x \in Writers /\ p[x].todo = {} THEN Idle
            ELSE [p[x] EXCEPT !.pc = IF x \in Writers THEN "stale" ELSE "scan", !.w = NoWord]

RmLoad(x) ==
  /\ At(x, "rm_load")
  /\ Set(x, IF p[x].bit \in rc[Slot(p[x].pos)].m
            THEN [p[x] EXCEPT !.pc = "rm_check", !.w = rc[Slot(p[x].pos)]] ELSE Next1(x))
  /\ UNCHANGED <<connections, write_cursor, ring, since, hist>>

RmCheck(x) ==
  /\ At(x, "rm_check")
  /\ Set(x, IF f_ct[Slot(p[x].pos)] = Commit(p[x].pos) THEN [p[x] EXCEPT !.pc = "rm_cas"]
            ELSE Next1(x))
  /\ UNCHANGED <<connections, write_cursor, ring, since, hist>>

RmCas(x) ==
  LET s == Slot(p[x].pos)
  IN /\ At(x, "rm_cas")
     /\ IF rc[s] = p[x].w
        THEN /\ rc' = [rc EXCEPT ![s] = [g |-> @.g + 1, m |-> @.m \ {p[x].bit}]]
             /\ Set(x, IF rc[s].m \subseteq {p[x].bit} THEN [p[x] EXCEPT !.pc = "rm_free"]
                       ELSE Next1(x))
        ELSE /\ Set(x, IF p[x].bit \in rc[s].m THEN [p[x] EXCEPT !.pc = "rm_check", !.w = rc[s]]
                       ELSE Next1(x))
             /\ UNCHANGED rc
     /\ UNCHANGED <<connections, write_cursor, f_ct, data, since, hist>>

\* The last mark gone: free the slot for the next lap.
RmFree(x) ==
  LET s == Slot(p[x].pos)
  IN /\ At(x, "rm_free")
     /\ f_ct' = [f_ct EXCEPT ![s] = IF @ = Commit(p[x].pos) THEN p[x].pos + RING_SIZE ELSE @]
     /\ Set(x, Next1(x))
     /\ UNCHANGED <<connections, write_cursor, rc, data, since, hist>>

-----------------------------------------------------------------------------
(* A writer: push_fragment_multi.  A busy slot is tried again, or given up *)
(* at the deadline: both start over from here.                             *)

LoadConnections(w) ==
  /\ At(w, "idle") /\ claims < MaxPush /\ connections # {}
  /\ Set(w, [p[w] EXCEPT !.pc = "ct", !.cc = connections])
  /\ UNCHANGED <<connections, write_cursor, ring, since, hist>>

LoadCt(w) ==
  /\ At(w, "ct")
  /\ Set(w, [p[w] EXCEPT !.pc = "rc", !.pos = write_cursor])
  /\ UNCHANGED <<connections, write_cursor, ring, since, hist>>

\* Every mark of a receiver still connected counts; a slot with no mark must
\* have been freed for this very position, or never used.
LoadRc(w) ==
  LET word == rc[Slot(p[w].pos)]
  IN /\ At(w, "rc")
     /\ Set(w, IF word.m \cap p[w].cc # {} THEN Idle
               ELSE [p[w] EXCEPT !.w = word, !.pc = IF word.m = {} THEN "flag" ELSE "cas"])
     /\ UNCHANGED <<connections, write_cursor, ring, since, hist>>

LoadFlag(w) ==
  /\ At(w, "flag")
  /\ IF f_ct[Slot(p[w].pos)] \in {p[w].pos, 0} THEN Goto(w, "cas") ELSE Set(w, Idle)
  /\ UNCHANGED <<connections, write_cursor, ring, since, hist>>

\* The claim fails a connected receiver: the writer had not seen its bit, or
\* laps the ring under a receiver that is walking back over it.
Fails(w, r) ==
  /\ p[r].pc \notin {"idle", "bit", "dead"}
  /\ \/ p[r].bit \notin p[w].cc
     \/ p[r].pc \in {"cursor", "walk"} /\ (p[w].pos - p[r].start) % CursorMod >= RING_SIZE

\* The same of a claim in flight when the receiver loads the cursor.
Passes(w, r) ==
  \/ p[r].bit \notin rc[Slot(p[w].pos)].m
  \/ (p[w].pos - p[r].start) % CursorMod >= RING_SIZE

\* x has claimed slot s or is dropping old marks from it.
AtWork(x, s) ==
  \/ /\ x \in Writers /\ Slot(p[x].pos) = s
     /\ p[x].pc \in {"advance", "write", "marks", "stale"} \cup Dropping
  \/ x \in Receivers /\ f_ct[s] < 0 /\ p[x].pc \in {"since", "scan"} \cup Dropping

ClaimSlot(w) ==
  LET s == Slot(p[w].pos)
  IN /\ At(w, "cas")
     /\ IF rc[s] = p[w].w
        THEN /\ rc' = [rc EXCEPT ![s] = [g |-> @.g + 1, m |-> p[w].cc]]
             /\ claims < MaxPush /\ claims' = claims + 1
             /\ off' = off \cup {r \in Receivers : Fails(w, r)}
             /\ split' = (split \/ p[w].pos # write_cursor \/ \E x \in Procs \ {w} : AtWork(x, s))
             /\ Set(w, [p[w] EXCEPT !.pc = "advance", !.w = NoWord])
        ELSE Set(w, Idle) /\ UNCHANGED <<rc, claims, off, split>>
     /\ UNCHANGED <<connections, write_cursor, f_ct, data, since, conns>>

\* Store the cursor; from then on write_msg is under way, and the slot holds
\* neither fragment until it is done.
Advance(w) ==
  /\ At(w, "advance")
  /\ write_cursor' = Up(p[w].pos)
  /\ data' = [data EXCEPT ![Slot(p[w].pos)] = Torn]
  /\ Set(w, [p[w] EXCEPT !.pc = "write", !.cc = {}])
  /\ UNCHANGED <<connections, rc, f_ct, since, hist>>

\* Seeded fault: the commit flag is up before the message is in the slot.
CommitFlag_Early(w) ==
  /\ At(w, "write")
  /\ f_ct' = [f_ct EXCEPT ![Slot(p[w].pos)] = Commit(p[w].pos)]
  /\ Goto(w, "marks")
  /\ UNCHANGED <<connections, write_cursor, rc, data, since, hist>>

\* The message is in the slot, and the commit flag says so.
CommitFlag(w) ==
  /\ At(w, "write")
  /\ data' = [data EXCEPT ![Slot(p[w].pos)] = <<w, p[w].pos>>]
  /\ f_ct' = [f_ct EXCEPT ![Slot(p[w].pos)] = Commit(p[w].pos)]
  /\ Goto(w, "marks")
  /\ UNCHANGED <<connections, write_cursor, rc, since, hist>>

\* Seeded fault: a leftover mark on the slot is not looked for.
CommitMarks_None(w) ==
  /\ At(w, "marks")
  /\ Set(w, Idle)
  /\ UNCHANGED <<connections, write_cursor, ring, since, hist>>

\* commit_multi's second half: the marks of receivers that started after pos.
CommitMarks(w) ==
  LET stale == {b \in rc[Slot(p[w].pos)].m : ~AtOrAfter(p[w].pos, since[b])}
  IN /\ At(w, "marks")
     /\ Set(w, IF stale = {} THEN Idle ELSE [p[w] EXCEPT !.pc = "stale", !.todo = stale])
     /\ UNCHANGED <<connections, write_cursor, ring, since, hist>>

NextStale(w) ==
  /\ At(w, "stale")
  /\ \E b \in p[w].todo :
       /\ \A c \in p[w].todo : b <= c
       /\ Set(w, [p[w] EXCEPT !.pc = "rm_load", !.bit = b, !.todo = @ \ {b}])
  /\ UNCHANGED <<connections, write_cursor, ring, since, hist>>

-----------------------------------------------------------------------------
(* A receiver.                                                             *)

\* open: reap the dead, read the cursor.
ReadSince(r) ==
  LET dead == {x \in Receivers : At(x, "dead")}
  IN /\ At(r, "idle") /\ conns < MaxConn
     /\ connections' = connections \ {p[x].bit : x \in dead}
     /\ p' = [x \in Procs |-> IF x \in dead THEN Idle
                              ELSE IF x = r THEN [Idle EXCEPT !.pc = "bit", !.start = write_cursor]
                              ELSE p[x]]
     /\ conns' = conns + 1
     /\ UNCHANGED <<write_cursor, ring, since, claims, off, split>>

\* The bit is still marked on elements pushed since r read the cursor, for an
\* owner that has left: r will take them for its own, or for nobody's.
Haunted(r, b) ==
  \E q \in 0 .. claims - 1 : AtOrAfter(q, p[r].start) /\ q + RING_SIZE >= claims /\ b \in rc[Slot(q)].m

ClaimBit(r) ==
  /\ At(r, "bit")
  /\ IF connections = Bits THEN Set(r, Idle) /\ UNCHANGED <<connections, off>>
     ELSE \E b \in Bits \ connections :
            /\ \A c \in Bits \ connections : b <= c
            /\ connections' = connections \cup {b}
            /\ Set(r, [p[r] EXCEPT !.pc = "since", !.bit = b])
            /\ off' = IF Haunted(r, b) THEN off \cup {r} ELSE off \ {r}
  /\ UNCHANGED <<write_cursor, ring, since, claims, conns, split>>

SetSince(r) ==
  /\ At(r, "since")
  /\ since' = [since EXCEPT ![p[r].bit] = p[r].start]
  /\ Set(r, [p[r] EXCEPT !.pc = "scan", !.todo = Slots])
  /\ UNCHANGED <<connections, write_cursor, ring, hist>>

\* release_stale, slot by slot: a committed slot from before `since`.
Scan(r) ==
  /\ At(r, "scan")
  /\ IF p[r].todo = {} THEN Goto(r, "cursor")
     ELSE \E s \in p[r].todo :
            /\ \A u \in p[r].todo : s <= u
            /\ Set(r, IF f_ct[s] < 0 /\ ~AtOrAfter(PosOf(f_ct[s]), p[r].start)
                      THEN [p[r] EXCEPT !.pc = "rm_load", !.pos = PosOf(f_ct[s]), !.todo = @ \ {s}]
                      ELSE [p[r] EXCEPT !.todo = @ \ {s}])
  /\ UNCHANGED <<connections, write_cursor, ring, since, hist>>

\* adopt_cursor: load the cursor; the claims in flight that do not mark r ...
AdoptCursor(r) ==
  /\ At(r, "cursor")
  /\ Set(r, [p[r] EXCEPT !.pc = "walk", !.cur = write_cursor, !.pos = 0])
  /\ off' = off \cup {x \in {r} : \E w \in Writers : At(w, "advance") /\ Passes(w, r)}
  /\ UNCHANGED <<connections, write_cursor, ring, since, claims, conns, split>>

\* ... and walk back over the elements that carry its mark.
AdoptWalk(r) ==
  LET back == (p[r].cur - 1) % CursorMod
  IN /\ At(r, "walk")
     /\ IF /\ p[r].cur # p[r].start /\ p[r].pos < RING_SIZE
           /\ p[r].bit \in rc[Slot(back)].m
        THEN Set(r, [p[r] EXCEPT !.cur = back, !.pos = @ + 1])
        ELSE Set(r, [p[r] EXCEPT !.pc = "open", !.pos = 0, !.start = 0])
     /\ UNCHANGED <<connections, write_cursor, ring, since, hist>>

\* recv_multi: a committed slot is copied ...
ReadBegin(r) ==
  LET s == Slot(p[r].cur)
  IN /\ At(r, "open") /\ f_ct[s] = Commit(p[r].cur)
     /\ Set(r, [p[r] EXCEPT !.pc = "copy", !.frag = data[s]])
     /\ UNCHANGED <<connections, write_cursor, ring, since, hist>>

ReadEnd(r) ==
  /\ At(r, "copy")
  /\ Set(r, [p[r] EXCEPT !.pc = "rel", !.frag = IF data[Slot(p[r].cur)] = @ THEN @ ELSE Torn])
  /\ UNCHANGED <<connections, write_cursor, ring, since, hist>>

Advanced(r) == [p[r] EXCEPT !.pc = "open", !.w = NoWord, !.frag = Torn, !.cur = Up(@)]
free_flag(r) == Up(p[r].cur) + RING_SIZE - 1

\* ... the mark dropped; with no mark left on it the slot is freed ...
Release(r) ==
  LET s == Slot(p[r].cur)
  IN /\ At(r, "rel")
     /\ IF rc[s].m = {}
        THEN f_ct' = [f_ct EXCEPT ![s] = free_flag(r)] /\ Set(r, Advanced(r))
        ELSE /\ Set(r, [p[r] EXCEPT !.w = rc[s],
                          !.pc = IF rc[s].m \subseteq {p[r].bit} THEN "rel_flag" ELSE "rel_cas"])
             /\ UNCHANGED f_ct
     /\ UNCHANGED <<connections, write_cursor, rc, data, since, hist>>

\* Seeded fault: the slot is freed whoever else still has to read it.
ReleaseFlag_Always(r) ==
  /\ At(r, "rel_flag") \/ At(r, "rel_cas")
  /\ f_ct' = [f_ct EXCEPT ![Slot(p[r].cur)] = free_flag(r)]
  /\ rc' = [rc EXCEPT ![Slot(p[r].cur)].m = {}]
  /\ Set(r, Advanced(r))
  /\ UNCHANGED <<connections, write_cursor, data, since, hist>>

\* ... before the last mark is dropped.
ReleaseFlag(r) ==
  /\ At(r, "rel_flag")
  /\ f_ct' = [f_ct EXCEPT ![Slot(p[r].cur)] = free_flag(r)]
  /\ Goto(r, "rel_cas")
  /\ UNCHANGED <<connections, write_cursor, rc, data, since, hist>>

ReleaseCas(r) ==
  LET s == Slot(p[r].cur)
  IN /\ At(r, "rel_cas")
     /\ IF rc[s] = p[r].w
        THEN /\ rc' = [rc EXCEPT ![s] = [g |-> @.g + 1, m |-> @.m \ {p[r].bit}]]
             /\ Set(r, Advanced(r))
        ELSE Set(r, [p[r] EXCEPT !.pc = "rel", !.w = NoWord]) /\ UNCHANGED rc
     /\ UNCHANGED <<connections, write_cursor, f_ct, data, since, hist>>

Disconnect(r) ==
  /\ At(r, "open")
  /\ connections' = connections \ {p[r].bit}
  /\ Set(r, Idle) /\ off' = off \ {r}
  /\ UNCHANGED <<write_cursor, ring, since, claims, conns, split>>

\* Killed once its owner record is in place: its bit stays until it is reaped.
Kill(r) ==
  /\ r \in MayDie /\ p[r].pc \in Reading
  /\ Set(r, [Idle EXCEPT !.pc = "dead", !.bit = p[r].bit]) /\ off' = off \ {r}
  /\ UNCHANGED <<connections, write_cursor, ring, since, claims, conns, split>>

-----------------------------------------------------------------------------
Writer(w) == \/ LoadConnections(w) \/ LoadCt(w) \/ LoadRc(w) \/ LoadFlag(w)
             \/ ClaimSlot(w) \/ Advance(w) \/ CommitFlag(w)
             \/ CommitMarks(w) \/ NextStale(w)
Receiver(r) == \/ ReadSince(r) \/ ClaimBit(r) \/ SetSince(r) \/ Scan(r)
               \/ AdoptCursor(r) \/ AdoptWalk(r) \/ ReadBegin(r) \/ ReadEnd(r)
               \/ Release(r) \/ ReleaseFlag(r) \/ ReleaseCas(r) \/ Disconnect(r)
               \/ Kill(r)

Next == \/ \E w \in Writers : Writer(w)
        \/ \E r \in Receivers : Receiver(r)
        \/ \E x \in Procs : RmLoad(x) \/ RmCheck(x) \/ RmCas(x) \/ RmFree(x)

Spec == Init /\ [][Next]_vars

\* For TLC: writers are interchangeable, and so are receivers.
Symmetry == Permutations(Writers) \cup Permutations(Receivers)

\* For TLC: the states from which some receiver may yet be Sound (below), the
\* only ones in which the invariants say anything.
Followed ==
  /\ ~split
  /\ conns < MaxConn \/ \E r \in Receivers : r \notin off /\ ~At(r, "idle") /\ ~At(r, "dead")

-----------------------------------------------------------------------------
(* A receiver failed by a claim (the writer had loaded the connections     *)
(* before the bit was set, or lapped it as it connected) is left out below *)
(* until it connects again, and so is one whose bit came with the marks of *)
(* an earlier owner on elements pushed since it had read the cursor; so    *)
(* are behaviours in which a slot was claimed with another at work on it.  *)

Sound(r) == r \notin off /\ ~split /\ p[r].pc \in Reading

\* recv_multi hands out the fragment committed at its cursor, whole: no writer
\* is let into the slot until the last receiver marked on it is done.
ChIntact ==
  \A r \in Receivers : Sound(r) /\ p[r].pc \in {"rel", "rel_flag", "rel_cas"}
    => p[r].frag # Torn /\ p[r].frag[2] = p[r].cur

\* What a connected receiver has still to read stays in its slot: the slot of
\* its cursor is never given to the next lap before it has read it.
ChUnread ==
  \A r \in Receivers : Sound(r) =>
    LET s == Slot(p[r].cur)
    IN f_ct[s] < 0 => AtOrAfter(p[r].cur, PosOf(f_ct[s]))

\* No mark holds the writers up for good: a mark of a connected receiver on a
\* committed slot is on an element the receiver has yet to read, or a writer
\* or the receiver is about to drop it.
ChNoStuckMark ==
  \A r \in Receivers, s \in Slots :
    /\ Sound(r) /\ p[r].bit \in rc[s].m /\ f_ct[s] < 0
    => \/ AtOrAfter(PosOf(f_ct[s]), p[r].cur)
       \/ \E w \in Writers : /\ p[w].pc \in {"advance", "write", "marks", "stale"} \cup Dropping
                             /\ Slot(p[w].pos) = s
=============================================================================
