--------------------------- MODULE ChannelProof ----------------------------
(***************************************************************************)
(* The multi-writer ring for every number of writers, receivers, bits and  *)
(* slots: what a receiver takes is whole, and what it has still to read is *)
(* not given to the next lap.                                              *)
(***************************************************************************)
EXTENDS ChannelReceiverProof

-----------------------------------------------------------------------------
(* A writer looks for a slot.                                              *)

LEMMA LoadConnectionsKeeps ==
  ASSUME ChInv, NEW w \in Writers, LoadConnections(w) PROVE ChInv'
<1> DEFINE e == [p[w] EXCEPT !.pc = "ct", !.cc = connections]
<1>1. p[w] \in Locals /\ connections \in SUBSET Bits /\ "ct" \in Labels
  BY Zenon DEF ChInv, ChTypes, Procs, Labels
<1>2. e \in Locals /\ e.pc = "ct"
  BY <1>1, Zenon DEF Locals
<1>3. /\ Set(w, e) /\ OnlyLocals
      /\ p[w].pc = "idle"
  BY Zenon DEF LoadConnections, At, OnlyLocals
<1> HIDE DEF e
<1>4. e.pc \notin Claimed \cup {"flag", "cas"}
  BY <1>2, Zenon DEF Claimed, Dropping
<1> QED
  BY <1>2, <1>3, <1>4, WriterQuiet, Zenon DEF Shed, Claimed

LEMMA LoadCtKeeps ==
  ASSUME ChInv, NEW w \in Writers, LoadCt(w) PROVE ChInv'
<1> DEFINE e == [p[w] EXCEPT !.pc = "rc", !.pos = write_cursor]
<1>1. p[w] \in Locals /\ write_cursor \in Nat /\ "rc" \in Labels
  BY Zenon DEF ChInv, ChTypes, Procs, Labels
<1>2. e \in Locals /\ e.pc = "rc"
  BY <1>1, Zenon DEF Locals
<1>3. /\ Set(w, e) /\ OnlyLocals
      /\ p[w].pc = "ct"
  BY Zenon DEF LoadCt, At, OnlyLocals
<1> HIDE DEF e
<1>4. e.pc \notin Claimed \cup {"flag", "cas"}
  BY <1>2, Zenon DEF Claimed, Dropping
<1> QED
  BY <1>2, <1>3, <1>4, WriterQuiet, Zenon DEF Shed, Claimed

\* Giving up.
LEMMA WriterIdle ==
  ASSUME ChInv, NEW w \in Writers, Set(w, Idle), p[w].pc # "advance",
         OnlyLocals
  PROVE  ChInv'
BY IdleTyped, WriterQuiet, Zenon DEF Claimed, Dropping, Shed

LEMMA LoadRcKeeps ==
  ASSUME ChInv, NEW w \in Writers, LoadRc(w) PROVE ChInv'
<1> DEFINE word == rc[Slot(p[w].pos)]
           l == IF word.m = {} THEN "flag" ELSE "cas"
           e == [p[w] EXCEPT !.w = word, !.pc = l]
<1>1. p[w] \in Locals /\ p[w].pos \in Nat /\ rc \in [Slots -> Words]
  BY Typed, Zenon DEF ChInv, ChTypes, Procs
<1>2. word \in Words /\ l \in Labels /\ l \in {"flag", "cas"}
  BY <1>1, SlotIn DEF Labels
<1>3. /\ OnlyLocals /\ p[w].pc = "rc"
      /\ Set(w, IF word.m \cap p[w].cc # {} THEN Idle ELSE e)
  BY Zenon DEF LoadRc, At, OnlyLocals
<1>4. CASE word.m \cap p[w].cc # {}
  BY <1>3, <1>4, WriterIdle, Zenon
<1>5. CASE word.m \cap p[w].cc = {}
  <2>1. e \in Locals /\ e.pc = l /\ e.w = word /\ e.cc = p[w].cc
    BY <1>1, <1>2, Zenon DEF Locals
  <2>2. Set(w, e)
    BY <1>3, <1>5, Zenon
  <2> HIDE DEF e, l, word
  <2>3. e.pc \notin Claimed
    BY <1>2, <2>1, Zenon DEF Claimed, Dropping
  <2>4. e.w.m \cap e.cc = {}
    BY <1>5, <2>1, Zenon
  <2> QED
    BY <1>3, <2>1, <2>2, <2>3, <2>4, WriterQuiet, Zenon DEF Shed, Claimed
<1> QED
  BY <1>4, <1>5, Zenon

LEMMA LoadFlagKeeps ==
  ASSUME ChInv, NEW w \in Writers, LoadFlag(w) PROVE ChInv'
<1> DEFINE e == [p[w] EXCEPT !.pc = "cas"]
<1>1. p[w] \in Locals /\ "cas" \in Labels
  BY Zenon DEF ChInv, ChTypes, Procs, Labels
<1>2. e \in Locals /\ e.pc = "cas" /\ e.w = p[w].w /\ e.cc = p[w].cc
  BY <1>1, Zenon DEF Locals
<1>3. /\ OnlyLocals /\ p[w].pc = "flag"
      /\ Set(w, e) \/ Set(w, Idle)
  BY Zenon DEF LoadFlag, At, Goto, OnlyLocals
<1> HIDE DEF e
<1>4. e.pc \notin Claimed
  BY <1>2, Zenon DEF Claimed, Dropping
<1>5. e.w.m \cap e.cc = {}
  BY <1>2, <1>3, Zenon DEF ChInv, WordInv
<1>6. CASE Set(w, e)
  BY <1>2, <1>3, <1>4, <1>5, <1>6, WriterQuiet, Zenon DEF Shed, Claimed
<1> QED
  BY <1>3, <1>6, WriterIdle, Zenon

-----------------------------------------------------------------------------
(* A writer in its slot.                                                   *)

LEMMA AdvanceKeeps ==
  ASSUME NoWrap, ChInv, NEW w \in Writers, Advance(w) PROVE ChInv'
<1> DEFINE e == [p[w] EXCEPT !.pc = "write", !.cc = {}]
           s == Slot(p[w].pos)
<1>0. /\ ChTypes /\ w \in Procs /\ p[w].pc = "advance" /\ Set(w, e) /\ "write" \in Labels
      /\ {} \in SUBSET Bits /\ write_cursor' = Up(p[w].pos) /\ data' = [data EXCEPT ![s] = Torn]
      /\ UNCHANGED <<connections, rc, since, claims, off, split>> /\ f_ct' = f_ct
  BY Zenon DEF ChInv, Advance, At, Procs, Labels, hist
<1>1. /\ p[w] \in Locals /\ p[w].pos \in Nat /\ s \in Slots /\ Torn \in Frags /\ claims \in Nat
      /\ write_cursor \in Nat /\ p \in [Procs -> Locals] /\ data \in [Slots -> Frags]
  BY <1>0, Typed, SlotIn DEF ChTypes, Frags
<1>2. e \in Locals /\ e.pc = "write" /\ e.pos = p[w].pos
  BY <1>0, <1>1, Zenon DEF Locals
<1> HIDE DEF e
<1>3. p' \in [Procs -> Locals] /\ p'[w] = e /\ \A y \in Procs : y # w => p'[y] = p[y]
  BY <1>0, <1>1, <1>2, Updated, Zenon DEF Set
<1>4. data' \in [Slots -> Frags] /\ \A t \in Slots : t # s => data'[t] = data[t]
  BY <1>0, <1>1, Updated, Zenon
<1>5. write_cursor' \in Nat
  BY <1>0, <1>1, ModIn, ConstantsAssumption DEF Up
<1>6. ChTypes'
  BY <1>0, <1>3, <1>4, <1>5, Zenon DEF ChTypes
<1>7. Writes(w)
  BY <1>0, <1>3, <1>4, Zenon DEF Writes, Flags
<1>8. ASSUME ~split PROVE write_cursor <= write_cursor' /\ CursorInv' /\ FlagInv'
  <2>0. CursorInv /\ ClaimInv /\ FlagInv
    BY <1>8, Zenon DEF ChInv, Good
  <2>1. p[w].pos = write_cursor /\ claims = write_cursor + 1 /\ claims <= MaxPush
    BY <1>0, <2>0, Zenon DEF CursorInv, At
  <2>2. Up(p[w].pos) = p[w].pos + 1
    <3>1. p[w].pos < MaxPush
      BY <1>1, <2>1, ConstantsAssumption
    <3> QED
      BY <1>1, <3>1, UpIsNext, Zenon
  <2>3. write_cursor' = claims /\ claims' = claims
    BY <1>0, <2>1, <2>2, Zenon
  <2>4. \A v \in Writers : ~(p'[v].pc = "advance")
    BY <1>2, <1>3, <2>0, <1>0, <2>1, Zenon DEF Procs, CursorInv, At, Claimed, ClaimInv
  <2>5. CursorInv'
    BY <1>1, <2>1, <2>3, <2>4 DEF CursorInv, At
  <2>6. FlagInv'
    <3>1. ASSUME NEW t \in Slots, f_ct[t] < 0, claims <= PosOf(f_ct[t]) + RING_SIZE
          PROVE  data'[t] \in Writers \X {PosOf(f_ct[t])}
      <4>1. PosOf(f_ct[t]) \in Nat /\ f_ct[t] = Commit(PosOf(f_ct[t]))
        BY <1>0, <3>1 DEF PosOf, Commit, ChTypes
      <4>2. PosOf(f_ct[t]) < claims /\ Slot(PosOf(f_ct[t])) = t /\ data[t] \in Writers \X {PosOf(f_ct[t])}
        BY <2>0, <3>1, Zenon DEF FlagInv
      <4>3. f_ct[s] # Commit(p[w].pos)
        BY <1>0, <2>0, Zenon DEF FlagInv
      <4>4. t # s
        <5> SUFFICES ASSUME t = s PROVE FALSE
          BY Zenon
        <5>1. p[w].pos < claims /\ claims <= p[w].pos + RING_SIZE
          BY <1>1, <2>1, ConstantsAssumption
        <5>2. PosOf(f_ct[t]) = p[w].pos
          BY <1>1, <3>1, <4>1, <4>2, <5>1, SlotSame, Zenon
        <5> QED
          BY <4>1, <4>3, <5>2, Zenon
      <4> QED
        BY <1>4, <4>2, <4>4, Zenon
    <3>2. ASSUME NEW v \in Writers, p'[v].pc \in {"advance", "write"}
          PROVE  f_ct[Slot(p'[v].pos)] # Commit(p'[v].pos)
      BY <1>0, <1>2, <1>3, <2>0, <3>2 DEF FlagInv, Procs
    <3> QED
      BY <1>0, <2>0, <2>3, <3>1, <3>2 DEF FlagInv
  <2>7. write_cursor <= write_cursor'
    BY <1>1, <2>1, <2>3
  <2> QED
    BY <2>5, <2>6, <2>7, Zenon
<1>9. p[w].pc \in {"advance", "write"} /\ p'[w].pc \in {"write", "marks"} /\ p'[w].pos = p[w].pos
  BY <1>0, <1>2, <1>3, Zenon
<1> QED
  BY <1>6, <1>7, <1>8, <1>9, WritesCommon, Zenon

LEMMA CommitFlagKeeps ==
  ASSUME ChInv, NEW w \in Writers, CommitFlag(w) PROVE ChInv'
<1> DEFINE e == [p[w] EXCEPT !.pc = "marks"]
           s == Slot(p[w].pos)
<1>0. /\ ChTypes /\ w \in Procs /\ p[w].pc = "write" /\ Set(w, e) /\ "marks" \in Labels
      /\ data' = [data EXCEPT ![s] = <<w, p[w].pos>>] /\ f_ct' = [f_ct EXCEPT ![s] = Commit(p[w].pos)]
      /\ UNCHANGED <<connections, rc, since, claims, off, split>> /\ write_cursor' = write_cursor
  BY Zenon DEF ChInv, CommitFlag, Goto, At, Procs, Labels, hist
<1>1. /\ p[w] \in Locals /\ p[w].pos \in Nat /\ s \in Slots /\ claims \in Nat
      /\ write_cursor \in Nat /\ p \in [Procs -> Locals] /\ data \in [Slots -> Frags] /\ f_ct \in [Slots -> Int]
  BY <1>0, Typed, SlotIn DEF ChTypes
<1>2. e \in Locals /\ e.pc = "marks" /\ e.pos = p[w].pos
  BY <1>0, <1>1, Zenon DEF Locals
<1>c. /\ Commit(p[w].pos) \in Int /\ Commit(p[w].pos) < 0 /\ PosOf(Commit(p[w].pos)) = p[w].pos
      /\ <<w, p[w].pos>> \in Frags
  BY <1>1 DEF Commit, PosOf, Frags
<1> HIDE DEF e
<1>3. p' \in [Procs -> Locals] /\ p'[w] = e /\ \A y \in Procs : y # w => p'[y] = p[y]
  BY <1>0, <1>1, <1>2, Updated, Zenon DEF Set
<1>4. /\ data' \in [Slots -> Frags] /\ data'[s] = <<w, p[w].pos>>
      /\ \A t \in Slots : t # s => data'[t] = data[t]
  BY <1>0, <1>1, <1>c, Updated, Zenon
<1>5. /\ f_ct' \in [Slots -> Int] /\ f_ct'[s] = Commit(p[w].pos)
      /\ \A t \in Slots : t # s => f_ct'[t] = f_ct[t]
  BY <1>0, <1>1, <1>c, Updated, Zenon
<1>6. ChTypes'
  BY <1>0, <1>3, <1>4, <1>5, Zenon DEF ChTypes
<1>7. Writes(w)
  BY <1>0, <1>3, <1>4, <1>5, Zenon DEF Writes, Flags
<1>8. ASSUME ~split PROVE write_cursor <= write_cursor' /\ CursorInv' /\ FlagInv'
  <2>0. CursorInv /\ ClaimInv /\ FlagInv
    BY <1>8, Zenon DEF ChInv, Good
  <2>1. \A v \in Writers : (p'[v].pc = "advance" <=> p[v].pc = "advance") /\ p'[v].pos = p[v].pos
    BY <1>0, <1>2, <1>3, Zenon DEF Procs
  <2>2. CursorInv'
    BY <1>0, <2>0, <2>1, Zenon DEF CursorInv, At
  <2>3. FlagInv'
    <3>1. ASSUME NEW t \in Slots, f_ct'[t] < 0
          PROVE  /\ PosOf(f_ct'[t]) < claims /\ Slot(PosOf(f_ct'[t])) = t
                 /\ claims <= PosOf(f_ct'[t]) + RING_SIZE => data'[t] \in Writers \X {PosOf(f_ct'[t])}
      BY <1>0, <2>0, <1>c, <1>4, <1>5, <3>1 DEF ClaimInv, Claimed, FlagInv
    <3>2. ASSUME NEW v \in Writers, p'[v].pc \in {"advance", "write"}
          PROVE  f_ct'[Slot(p'[v].pos)] # Commit(p'[v].pos)
      <4>1. v # w /\ v \in Procs
        BY <1>2, <1>3, <3>2, Zenon DEF Procs
      <4>2. p'[v] = p[v] /\ p[v].pc \in Claimed /\ p[w].pc \in Claimed /\ p[v].pos \in Nat
        BY <1>0, <1>3, <3>2, <4>1, Typed, Zenon DEF Claimed
      <4>3. Slot(p[v].pos) # s /\ Slot(p[v].pos) \in Slots
        BY <2>0, <4>1, <4>2, SlotIn DEF ClaimInv
      <4> QED
        BY <1>5, <2>0, <3>2, <4>2, <4>3 DEF FlagInv
    <3> QED
      BY <1>0, <3>1, <3>2, Zenon DEF FlagInv
  <2> QED
    BY <1>0, <1>1, <2>2, <2>3
<1>9. p[w].pc \in {"advance", "write"} /\ p'[w].pc \in {"write", "marks"} /\ p'[w].pos = p[w].pos
  BY <1>0, <1>2, <1>3, Zenon
<1> QED
  BY <1>6, <1>7, <1>8, <1>9, WritesCommon, Zenon

\* A writer has committed: the leftover marks on its slot.
LEMMA CommitMarksKeeps ==
  ASSUME NoWrap, ChInv, NEW w \in Writers, CommitMarks(w) PROVE ChInv'
<1> DEFINE stale == {b \in rc[Slot(p[w].pos)].m : ~AtOrAfter(p[w].pos, since[b])}
           e == [p[w] EXCEPT !.pc = "stale", !.todo = stale]
<1>1. p[w] \in Locals /\ p[w].pos \in Nat /\ rc \in [Slots -> Words] /\ "stale" \in Labels
  BY Typed, Zenon DEF ChInv, ChTypes, Procs, Labels
<1>2. stale \in SUBSET Nat /\ stale \in SUBSET Bits
  BY <1>1, SlotIn, ConstantsAssumption DEF Words, Bits
<1>3. /\ OnlyLocals /\ p[w].pc = "marks"
      /\ Set(w, IF stale = {} THEN Idle ELSE e)
  BY Zenon DEF CommitMarks, At, OnlyLocals
<1>4. e \in Locals /\ e.pc = "stale" /\ e.todo = stale /\ e.pos = p[w].pos
  BY <1>1, <1>2, Zenon DEF Locals
<1>5. ASSUME ~split, NEW b \in stale PROVE p[w].pos < since[b]
  <2>1. p[w].pos < claims /\ claims <= MaxPush /\ write_cursor <= claims /\ since[b] <= write_cursor
    BY <1>2, <1>3, <1>5, Zenon DEF ChInv, Good, CursorInv, ClaimInv, SinceInv, Claimed
  <2>2. since[b] \in Nat /\ claims \in Nat /\ write_cursor \in Nat
    BY <1>2, Zenon DEF ChInv, ChTypes
  <2>3. ~AtOrAfter(p[w].pos, since[b])
    BY Zenon
  <2>4. p[w].pos \in 0 .. MaxPush /\ since[b] \in 0 .. MaxPush
    BY <1>1, <2>1, <2>2, ConstantsAssumption
  <2> QED
    BY <2>2, <2>3, <2>4, AfterIsLeq
<1> HIDE DEF e, stale
<1>6. CASE stale = {}
  BY <1>3, <1>6, WriterIdle, Zenon
<1>7. CASE stale # {}
  BY <1>3, <1>7, <1>4, <1>5, WriterQuiet, Zenon DEF Dropping, Claimed, Shed
<1> QED
  BY <1>6, <1>7, Zenon

LEMMA NextStaleKeeps ==
  ASSUME ChInv, NEW w \in Writers, NextStale(w) PROVE ChInv'
<1>1. p[w] \in Locals /\ p[w].todo \in SUBSET Nat /\ "rm_load" \in Labels
  BY Typed, Zenon DEF ChInv, ChTypes, Procs, Labels, Dropping
<1>2. PICK b \in p[w].todo : Set(w, [p[w] EXCEPT !.pc = "rm_load", !.bit = b, !.todo = @ \ {b}])
  BY Zenon DEF NextStale
<1>3. OnlyLocals /\ p[w].pc = "stale"
  BY Zenon DEF NextStale, At, OnlyLocals
<1> DEFINE e == [p[w] EXCEPT !.pc = "rm_load", !.bit = b, !.todo = p[w].todo \ {b}]
<1>4. b \in Nat /\ p[w].todo \ {b} \in SUBSET Nat
  BY <1>1, Zenon
<1>5. /\ e \in Locals /\ e.pc = "rm_load" /\ e.bit = b /\ e.todo = p[w].todo \ {b}
      /\ e.pos = p[w].pos
  BY <1>1, <1>4, Zenon DEF Locals
<1>6. Set(w, e)
  BY <1>2, Zenon
<1> HIDE DEF e
<1>7. e.pc \notin {"flag", "cas", "advance", "write"} /\ p[w].pc \in Claimed
  BY <1>3, <1>5, Zenon DEF Claimed
<1>8. \A c \in Bits : Shed(e, c) => Sheds(w, c)
  BY <1>3, <1>5, Zenon DEF Shed, Sheds
<1> QED
  BY <1>3, <1>5, <1>6, <1>7, <1>8, WriterQuiet, Zenon

-----------------------------------------------------------------------------
(* release_mark by a writer.                                               *)

\* The next bit a writer sheds, the next slot a receiver looks at.
LEMMA NextWriter ==
  ASSUME ChTypes, NEW w \in Writers, p[w].pc \in Dropping
  PROVE  /\ Next1(w) \in Locals /\ Next1(w).pc \in {"idle", "stale"}
         /\ Next1(w).pc = "stale" => Next1(w).pos = p[w].pos /\ Next1(w).todo = p[w].todo
<1>1. p[w] \in Locals /\ Idle \in Locals /\ Idle.pc = "idle" /\ NoWord \in Words
  BY IdleTyped, Zenon DEF ChTypes, Procs
<1>2. CASE p[w].todo = {}
  BY <1>1, <1>2, Zenon DEF Next1
<1>3. CASE p[w].todo # {}
  <2>1. Next1(w) = [p[w] EXCEPT !.pc = "stale", !.w = NoWord]
    BY <1>3, Zenon DEF Next1
  <2>2. "stale" \in Labels
    BY Zenon DEF Labels
  <2> QED
    BY <1>1, <2>1, <2>2, Zenon DEF Locals
<1> QED
  BY <1>2, <1>3, Zenon

\* A writer goes on with the next bit.
LEMMA NextShed ==
  ASSUME ChTypes, NEW w \in Writers, p[w].pc \in Dropping, NEW b, Shed(Next1(w), b)
  PROVE  Sheds(w, b)
BY NextWriter, Zenon DEF Shed, Sheds, Dropping

LEMMA WriterNext ==
  ASSUME ChInv, NEW w \in Writers, p[w].pc \in Dropping, Set(w, Next1(w)),
         OnlyLocals
  PROVE  ChInv'
<1> DEFINE e == Next1(w)
<1>1. /\ e \in Locals /\ e.pc \in {"idle", "stale"}
      /\ e.pc = "stale" => e.pos = p[w].pos /\ e.todo = p[w].todo
  BY NextWriter, Zenon DEF ChInv
<1>2. \A b \in Bits : Shed(e, b) => Sheds(w, b)
  BY NextShed, Zenon DEF ChInv
<1> HIDE DEF e
<1>3. /\ e.pc \notin {"flag", "cas", "advance", "write"} /\ p[w].pc # "advance"
      /\ e.pc \in Claimed => p[w].pc \in Claimed /\ e.pos = p[w].pos
  BY <1>1, Zenon DEF Claimed, Dropping
<1>4. Set(w, e)
  BY Zenon DEF e
<1> QED
  BY <1>1, <1>2, <1>3, <1>4, WriterQuiet, Zenon

\* A writer goes on with the same bit, or the next.
LEMMA WriterRm ==
  ASSUME ChInv, NEW w \in Writers, p[w].pc \in Dropping,
         NEW e \in {Checked(w), Cased(w), Freed(w), Next1(w)},
         ChTypes', Mild(w), Loses(w), p'[w] = e
  PROVE  ChInv'
<1>0. ChTypes /\ w \in Procs
  BY Zenon DEF ChInv, Procs
<1>1. ASSUME e = Next1(w)
      PROVE  /\ e.pc \in {"idle", "stale"} /\ (e.pc = "stale" => e.pos = p[w].pos)
             /\ \A b \in Bits : Shed(e, b) => Sheds(w, b)
  BY <1>0, <1>1, NextWriter, NextShed, Zenon
<1>2. ASSUME e # Next1(w)
      PROVE  /\ e.pc \in Dropping /\ e.pos = p[w].pos
             /\ \A b \in Bits : Shed(e, b) => Sheds(w, b)
  BY <1>0, <1>2, RmLocals DEF Shed, Sheds
<1>3. /\ e.pc \notin {"advance", "write", "flag", "cas"} /\ p[w].pc # "advance"
      /\ e.pc \in Claimed => p[w].pc \in Claimed /\ e.pos = p[w].pos
  BY <1>1, <1>2, Zenon DEF Claimed, Dropping
<1>4. Stales(w)
  BY <1>1, <1>2, <1>3, Zenon DEF Stales, Shed, Sheds, Claimed
<1> QED
  BY <1>3, <1>4, WriterMild, Zenon

LEMMA RmWriterKeeps ==
  ASSUME ChInv, NEW w \in Writers, RmLoad(w) \/ RmCheck(w) \/ RmCas(w) \/ RmFree(w)
  PROVE  ChInv'
<1> DEFINE s == Slot(p[w].pos)
<1>0. ChTypes /\ w \in Procs /\ p[w].pc \in Dropping
  BY RmCases, Zenon DEF ChInv, Procs
<1>1. /\ s \in Slots /\ p[w].pos \in Nat /\ p[w].bit \in Nat /\ f_ct[s] \in Int
      /\ RING_SIZE \in Nat
  BY <1>0, Typed, SlotIn, ConstantsAssumption DEF ChTypes
<1>2. \A e \in {Checked(w), Cased(w), Freed(w), Next1(w)} : e \in Locals
  BY <1>0, RmLocals, NextWriter, Zenon
<1>3. CASE /\ OnlyLocals
           /\ Set(w, Next1(w)) \/ Set(w, Checked(w)) \/ Set(w, Cased(w))
  BY <1>3, <1>0, <1>2, Quiet, WriterRm, Zenon
<1>4. CASE /\ OnlyWord
           /\ Drop(s, p[w].bit)
           /\ Set(w, Freed(w)) \/ Set(w, Next1(w))
  <2>1. PICK e \in {Checked(w), Cased(w), Freed(w), Next1(w)} : Set(w, e)
    BY <1>4, Zenon
  <2> HIDE DEF s
  <2>2. /\ ChTypes' /\ Mild(w) /\ p'[w] = e /\ rc'[s].m = rc[s].m \ {p[w].bit}
        /\ \A t \in Slots : t # s => rc'[t] = rc[t]
    BY <1>0, <1>1, <1>2, <1>4, <2>1, DropMild
  <2>3. Sheds(w, p[w].bit)
    BY <1>0, Zenon DEF Sheds
  <2>4. Loses(w)
    BY <2>2, <2>3, Zenon DEF Loses, s
  <2> QED
    BY <1>0, <2>2, <2>4, WriterRm, Zenon
<1>5. CASE /\ OnlyFlag
           /\ \E v \in {f_ct[s], p[w].pos + RING_SIZE} : Free(s, v)
           /\ Set(w, Next1(w))
  BY <1>5, <1>1, <1>0, <1>2, FreeMild, WriterRm
<1> QED
  BY <1>0, <1>3, <1>4, <1>5, RmCases, Zenon


-----------------------------------------------------------------------------
(* A writer claims a slot.                                                 *)

\* What the claim of a slot at work for nobody else leaves of the positions.
LEMMA ClaimGood ==
  ASSUME ChInv, ~split, NEW w \in Writers, p[w].pc = "cas", rc[Slot(p[w].pos)] = p[w].w,
         Claims(w), OnlyClaims, Alone(w)
  PROVE  CursorInv' /\ ClaimInv' /\ FlagInv' /\ SinceInv'
<1>0. /\ ChTypes /\ CursorInv /\ ClaimInv /\ FlagInv /\ SinceInv /\ w \in Procs
      /\ claims' = claims + 1 /\ claims < MaxPush /\ write_cursor' = write_cursor
      /\ f_ct' = f_ct /\ data' = data /\ since' = since
  BY Zenon DEF ChInv, Good, Procs, Claims, OnlyClaims
<1>1. /\ p'[w].pc = "advance" /\ p'[w].pos = p[w].pos /\ \A y \in Procs : y # w => p'[y] = p[y]
  BY ClaimStep, Zenon
<1>2. /\ \A r \in Receivers : p'[r] = p[r]
      /\ \A v \in Writers : v # w => p'[v] = p[v] /\ v \in Procs
  BY <1>1, ConstantsAssumption, Zenon DEF Procs
<1>3. /\ p[w].pos = write_cursor /\ claims = write_cursor /\ claims \in Nat
      /\ \A v \in Writers : v # w => p[v].pc # "advance"
      /\ \A v \in Writers : v # w /\ p[v].pc \in Claimed => Slot(p[v].pos) # Slot(claims)
  BY <1>0, Zenon DEF Alone, ChTypes
<1>4. claims <= claims' /\ claims < claims' /\ claims' <= MaxPush /\ claims' <= claims + RING_SIZE
  BY <1>0, <1>3, ConstantsAssumption
<1>5. CursorInv'
  <2>1. \A v \in Writers : p'[v].pc = "advance" => v = w
    BY <1>2, <1>3, Zenon
  <2> QED
    BY <1>0, <1>1, <1>3, <1>4, <2>1, Zenon DEF CursorInv, At
<1>6. ASSUME NEW v \in Writers, v # w, p[v].pc \in Claimed
      PROVE  p[v].pos < claims' /\ claims' <= p[v].pos + RING_SIZE
  <2>1. p[v].pos < claims /\ claims <= p[v].pos + RING_SIZE /\ p[v].pos \in Nat
    BY <1>0, <1>2, <1>6, Typed, Zenon DEF ClaimInv
  <2>2. Slot(p[v].pos) # Slot(claims)
    BY <1>3, <1>6, Zenon
  <2>3. Slot(p[v].pos + RING_SIZE) = Slot(p[v].pos)
    BY <2>1, SlotLap
  <2>4. claims # p[v].pos + RING_SIZE
    BY <2>2, <2>3, Zenon
  <2> QED
    BY <1>0, <1>3, <2>1, <2>4, ConstantsAssumption
<1>7. ClaimInv'
  <2> SUFFICES ASSUME NEW v \in Writers, p'[v].pc \in Claimed
               PROVE  /\ p'[v].pos < claims' /\ claims' <= p'[v].pos + RING_SIZE
                      /\ \A u \in Writers \ {v} : p'[u].pc \in Claimed => Slot(p'[u].pos) # Slot(p'[v].pos)
    BY Zenon DEF ClaimInv
  <2>1. p'[v].pos < claims' /\ claims' <= p'[v].pos + RING_SIZE
    BY <1>1, <1>2, <1>3, <1>4, <1>6, Zenon
  <2>2. ASSUME NEW u \in Writers, u # v, p'[u].pc \in Claimed PROVE Slot(p'[u].pos) # Slot(p'[v].pos)
    <3>1. CASE u = w
      BY <1>1, <1>2, <1>3, <2>2, <3>1, Zenon
    <3>2. CASE v = w
      BY <1>1, <1>2, <1>3, <2>2, <3>2, Zenon
    <3>3. CASE u # w /\ v # w
      BY <1>0, <1>2, <2>2, <3>3, Zenon DEF ClaimInv
    <3> QED
      BY <3>1, <3>2, <3>3, Zenon
  <2> QED
    BY <2>1, <2>2, Zenon
<1>8. FlagInv'
  <2>1. ASSUME NEW t \in Slots, f_ct[t] < 0
        PROVE  /\ PosOf(f_ct[t]) < claims' /\ Slot(PosOf(f_ct[t])) = t
               /\ claims' <= PosOf(f_ct[t]) + RING_SIZE => data[t] \in Writers \X {PosOf(f_ct[t])}
    <3> DEFINE q == PosOf(f_ct[t])
    <3>1. /\ q < claims /\ Slot(q) = t
          /\ claims <= q + RING_SIZE => data[t] \in Writers \X {q}
      BY <1>0, <2>1, Zenon DEF FlagInv
    <3>2. q \in Int
      BY <1>0 DEF PosOf, ChTypes
    <3> HIDE DEF q
    <3>3. q < claims' /\ (claims' <= q + RING_SIZE => claims <= q + RING_SIZE)
      BY <1>0, <1>3, <3>1, <3>2, ConstantsAssumption
    <3> QED
      BY <3>1, <3>3, Zenon DEF q
  <2>2. f_ct[Slot(claims)] # Commit(claims)
    <3> SUFFICES ASSUME f_ct[Slot(claims)] = Commit(claims) PROVE FALSE
      BY Zenon
    <3>1. Slot(claims) \in Slots /\ Commit(claims) < 0 /\ PosOf(Commit(claims)) = claims
      BY <1>3, SlotIn DEF Commit, PosOf
    <3>2. claims < claims
      BY <1>0, <3>1, Zenon DEF FlagInv
    <3> QED
      BY <1>3, <3>2
  <2>3. ASSUME NEW v \in Writers, p'[v].pc \in {"advance", "write"}
        PROVE  f_ct[Slot(p'[v].pos)] # Commit(p'[v].pos)
    BY <1>0, <1>1, <1>2, <1>3, <2>2, <2>3, Zenon DEF FlagInv
  <2> QED
    BY <1>0, <2>1, <2>3, Zenon DEF FlagInv
<1>9. SinceInv'
  BY <1>0, <1>2, Zenon DEF SinceInv
<1> QED
  BY <1>5, <1>7, <1>8, <1>9, Zenon

LEMMA ClaimSlotKeeps ==
  ASSUME NoWrap, ChInv, NEW w \in Writers, ClaimSlot(w) PROVE ChInv'
<1>1. p[w].pc = "cas"
  BY Zenon DEF ClaimSlot, At
<1>2. CASE rc[Slot(p[w].pos)] = p[w].w
  <2>1. Claims(w) /\ OnlyClaims
    BY <1>2, Zenon DEF ClaimSlot, Claims, OnlyClaims, Given
  <2>2. ChTypes' /\ BitInv' /\ TodoInv' /\ WordInv'
    BY <1>1, <1>2, <2>1, ClaimStep, Zenon
  <2>3. ASSUME ~split' PROVE Good'
    <3>1. ~split /\ Alone(w)
      BY <1>1, <2>1, <2>3, ClaimAlone, Zenon
    <3>2. CursorInv' /\ ClaimInv' /\ FlagInv' /\ SinceInv'
      BY <1>1, <1>2, <2>1, <3>1, ClaimGood, Zenon
    <3>3. ASSUME NEW r \in Receivers \ off' PROVE RecvInv(r)'
      <4>1. r \notin off /\ ~Fails(w, r)
        BY <2>1, <3>3, Zenon DEF Claims
      <4> QED
        BY <1>1, <1>2, <2>1, <3>1, <4>1, ClaimRecv, Zenon
    <3> QED
      BY <3>2, <3>3, Zenon DEF Good
  <2> QED
    BY <2>2, <2>3, Zenon DEF ChInv
<1>3. CASE rc[Slot(p[w].pos)] # p[w].w
  <2>1. Set(w, Idle) /\ OnlyLocals
    BY <1>3, Zenon DEF ClaimSlot, OnlyLocals, ring, hist
  <2> QED
    BY <1>1, <2>1, WriterIdle, Zenon
<1> QED
  BY <1>2, <1>3, Zenon


-----------------------------------------------------------------------------
(* The invariant, and what follows from it.                                *)

LEMMA InitKeeps == Init => ChInv
<1> SUFFICES ASSUME Init PROVE ChInv
  BY Zenon
<1>1. Idle \in Locals /\ Idle.pc = "idle" /\ Idle.todo = {} /\ NoWord \in Words /\ Torn \in Frags
  BY IdleTyped, Zenon DEF Idle, Frags
<1>2. /\ \A x \in Procs : p[x] = Idle
      /\ \A x \in Writers : p[x].pc = "idle" /\ x \in Procs
      /\ \A r \in Receivers : p[r].pc = "idle" /\ p[r].todo = {} /\ r \in Procs
  BY <1>1, Zenon DEF Init, Procs
<1>3. ChTypes
  <2>1. 0 \in Nat /\ 0 \in Int
    OBVIOUS
  <2> QED
    BY <1>1, <2>1, Zenon DEF Init, ChTypes
<1>4. BitInv /\ TodoInv /\ WordInv
  BY <1>2, Zenon DEF BitInv, TodoInv, WordInv, Linked
<1>5. /\ write_cursor = 0 /\ claims = 0 /\ \A s \in Slots : f_ct[s] = 0 
      /\ \A b \in Bits : since[b] = 0
  BY Zenon DEF Init
<1>6. CursorInv /\ FlagInv /\ SinceInv
  <2>1. 0 <= 0 /\ 0 <= MaxPush /\ ~(0 < 0)
    BY ConstantsAssumption
  <2> QED
    BY <1>2, <1>5, <2>1, Zenon DEF CursorInv, FlagInv, SinceInv, At, Connecting, Scanning, Dropping
<1>7. ClaimInv /\ \A r \in Receivers : RecvInv(r)
  BY <1>2, Zenon DEF ClaimInv, Claimed, RecvInv, Connecting, Scanning, Dropping, Reading
<1> QED
  BY <1>3, <1>4, <1>6, <1>7, Zenon DEF ChInv, Good

LEMMA NextKeeps ==
  ASSUME NoWrap, ChInv, Next PROVE ChInv'
<1>1. ASSUME NEW w \in Writers, Writer(w) PROVE ChInv'
  BY <1>1, LoadConnectionsKeeps, LoadCtKeeps, LoadRcKeeps, LoadFlagKeeps, ClaimSlotKeeps,
     AdvanceKeeps, CommitFlagKeeps, CommitMarksKeeps, NextStaleKeeps, Zenon DEF Writer
<1>2. ASSUME NEW r \in Receivers, Receiver(r) PROVE ChInv'
  <2>1. CASE ReadSince(r) \/ ClaimBit(r) \/ SetSince(r) \/ Scan(r) \/ AdoptCursor(r) \/ AdoptWalk(r)
    BY <2>1, ReadSinceKeeps, ClaimBitKeeps, SetSinceKeeps, ScanKeeps, AdoptCursorKeeps,
       AdoptWalkKeeps, Zenon
  <2>2. CASE ReadBegin(r) \/ ReadEnd(r) \/ Release(r) \/ ReleaseFlag(r) \/ ReleaseCas(r)
    BY <2>2, ReadBeginKeeps, ReadEndKeeps, ReleaseKeeps, ReleaseFlagKeeps, ReleaseCasKeeps, Zenon
  <2> QED
    BY <1>2, <2>1, <2>2, LeaveKeeps, Zenon DEF Receiver
<1>3. ASSUME NEW x \in Procs, RmLoad(x) \/ RmCheck(x) \/ RmCas(x) \/ RmFree(x) PROVE ChInv'
  BY <1>3, RmWriterKeeps, RmReceiverKeeps, Zenon DEF Procs
<1> QED
  BY <1>1, <1>2, <1>3, Zenon DEF Next

\* A step that changes nothing.
LEMMA StutterKeeps ==
  ASSUME ChInv, UNCHANGED vars PROVE ChInv'
<1>1. /\ connections' = connections /\ write_cursor' = write_cursor /\ rc' = rc /\ f_ct' = f_ct
      /\ data' = data /\ since' = since /\ p' = p /\ claims' = claims /\ off' = off /\ split' = split
  BY Zenon DEF vars
<1>2. ChTypes' = ChTypes /\ BitInv' = BitInv /\ TodoInv' = TodoInv /\ WordInv' = WordInv
  BY <1>1, Zenon DEF ChTypes, BitInv, TodoInv, WordInv, Linked
<1>3. CursorInv' = CursorInv /\ ClaimInv' = ClaimInv /\ FlagInv' = FlagInv /\ SinceInv' = SinceInv
  BY <1>1, Zenon DEF CursorInv, ClaimInv, FlagInv, SinceInv, At
<1>4. ASSUME NEW r \in Receivers PROVE Holds(r)' = Holds(r) /\ \A c \in Nat : Owed(r, c) => Owed(r, c)'
  <2>1. Holds(r)' = Holds(r)
    BY <1>1, Zenon DEF Holds
  <2>2. ASSUME NEW x \in Writers, NEW b PROVE Sheds(x, b)' = Sheds(x, b)
    BY <1>1, Zenon DEF Sheds
  <2>3. ASSUME NEW c \in Nat, Owed(r, c) PROVE Owed(r, c)'
    BY <1>1, <2>2, <2>3, Zenon DEF Owed
  <2> QED
    BY <2>1, <2>3, Zenon
<1>5. ASSUME NEW r \in Receivers, NEW c \in Nat, Conn(r, c) PROVE Conn(r, c)'
  <2>0. p'[r] = p[r] /\ Owed(r, c) /\ Owed(r, c)'
    BY <1>1, <1>4, <1>5, Zenon DEF Conn
  <2>1. Clear(r, c)' = Clear(r, c) /\ Fresh(r, c)' = Fresh(r, c)
    BY <1>1, Zenon DEF Clear, Fresh
  <2>2. Drops(r, c)' = Drops(r, c) /\ Walks(r, c)' = Walks(r, c)
    BY <1>1, Zenon DEF Drops, Walks
  <2> QED
    BY <1>5, <2>0, <2>1, <2>2, Zenon DEF Conn
<1>6. ASSUME NEW r \in Receivers, RecvInv(r) PROVE RecvInv(r)'
  <2>0. p'[r] = p[r]
    BY <1>1, Zenon
  <2>1. ASSUME p'[r].pc \in Connecting PROVE \E c \in Nat : Conn(r, c)'
    BY <1>5, <1>6, <2>0, <2>1, Zenon DEF RecvInv
  <2>2. ASSUME p'[r].pc \in Reading PROVE Holds(r)' /\ \E c \in Nat : c = p'[r].cur /\ Owed(r, c)'
    <3>1. PICK c \in Nat : Holds(r) /\ c = p[r].cur /\ Owed(r, c)
      BY <1>6, <2>0, <2>2, Zenon DEF RecvInv
    <3>2. Holds(r)' /\ c = p'[r].cur /\ Owed(r, c)'
      BY <1>4, <2>0, <3>1, Zenon
    <3> QED
      BY <3>2, Zenon
  <2> QED
    BY <2>1, <2>2, Zenon DEF RecvInv
<1> QED
  BY <1>1, <1>2, <1>3, <1>6, Zenon DEF ChInv, Good

LEMMA ChInvariant ==
  ASSUME NoWrap PROVE Spec => []ChInv
<1>1. ChInv /\ [Next]_vars => ChInv'
  BY NextKeeps, StutterKeeps, Zenon
<1> QED
  BY <1>1, InitKeeps, PTL DEF Spec

\* recv_multi hands out whole fragments: with any number of writers and
\* receivers, and a ring of any size, what a connected receiver has copied is
\* the fragment committed at its cursor.
THEOREM ChannelIntact ==
  ASSUME NoWrap PROVE Spec => []ChIntact
<1>1. ASSUME ChInv PROVE ChIntact
  <2> SUFFICES ASSUME NEW r \in Receivers, Sound(r), p[r].pc \in {"rel", "rel_flag", "rel_cas"}
               PROVE  p[r].frag # Torn /\ p[r].frag[2] = p[r].cur
    BY Zenon DEF ChIntact
  <2>1. RecvInv(r) /\ p[r].pc \in Reading
    BY <1>1, Zenon DEF Sound, ChInv, Good
  <2>2. p[r].frag \in Writers \X {p[r].cur}
    BY <2>1, Zenon DEF RecvInv, Holds, Taken
  <2> QED
    BY <2>2 DEF Torn
<1> QED
  BY <1>1, ChInvariant, PTL

\* push_fragment_multi gives no slot to the next lap that a connected receiver
\* has still to read: whatever is committed in the slot of its cursor is the
\* element it is about to read, or one it has read.
THEOREM ChannelUnread ==
  ASSUME NoWrap PROVE Spec => []ChUnread
<1>1. ASSUME ChInv PROVE ChUnread
  <2> SUFFICES ASSUME NEW r \in Receivers, Sound(r), f_ct[Slot(p[r].cur)] < 0
               PROVE  AtOrAfter(p[r].cur, PosOf(f_ct[Slot(p[r].cur)]))
    BY Zenon DEF ChUnread
  <2> DEFINE s == Slot(p[r].cur)
             q == PosOf(f_ct[s])
  <2>1. RecvInv(r) /\ p[r].pc \in Reading /\ ChTypes /\ CursorInv /\ FlagInv /\ r \in Procs
    BY <1>1, Zenon DEF Sound, ChInv, Good, Procs
  <2>2. p[r].cur \in Nat /\ claims \in Nat
    BY <2>1, Typed, Zenon DEF ChTypes
  <2>3. s \in Slots
    BY <2>2, SlotIn
  <2>4. p[r].cur <= claims /\ claims <= p[r].cur + RING_SIZE /\ claims <= MaxPush
    BY <2>1, Zenon DEF RecvInv, Owed, CursorInv
  <2>5. q < claims /\ Slot(q) = s
    BY <2>1, <2>3, Zenon DEF FlagInv
  <2>6. q \in Nat
    BY <2>1, <2>3 DEF PosOf, ChTypes
  <2> HIDE DEF q
  <2>7. ASSUME p[r].cur < q PROVE FALSE
    <3>1. q < p[r].cur + RING_SIZE
      BY <2>2, <2>4, <2>5, <2>6, ConstantsAssumption
    <3>2. p[r].cur \in Int /\ q \in Int
      BY <2>2, <2>6
    <3> QED
      BY <2>5, <2>7, <3>1, <3>2, SlotApart, Zenon
  <2>8. q <= p[r].cur /\ p[r].cur \in 0 .. MaxPush /\ q \in 0 .. MaxPush
    BY <2>2, <2>4, <2>5, <2>6, <2>7, ConstantsAssumption
  <2>9. AtOrAfter(p[r].cur, q)
    BY <2>8, AfterIsLeq, Zenon
  <2> QED
    BY <2>9, Zenon DEF q
<1> QED
  BY <1>1, ChInvariant, PTL
=============================================================================
