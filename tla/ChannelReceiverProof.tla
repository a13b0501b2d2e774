----------------------- MODULE ChannelReceiverProof ------------------------
(***************************************************************************)
(* The receivers of the multi-writer ring keep its invariant.              *)
(***************************************************************************)
EXTENDS ChannelInv

-----------------------------------------------------------------------------
(* release_mark.                                                           *)

LEMMA NextReceiver ==
  ASSUME ChTypes, NEW r \in Receivers
  PROVE  /\ Next1(r) \in Locals /\ Next1(r).pc = "scan" /\ Next1(r).bit = p[r].bit
         /\ Next1(r).start = p[r].start /\ Next1(r).todo = p[r].todo
<1>1. p[r] \in Locals /\ NoWord \in Words /\ "scan" \in Labels
  BY IdleTyped, Zenon DEF ChTypes, Procs, Labels
<1>2. Next1(r) = [p[r] EXCEPT !.pc = "scan", !.w = NoWord]
  BY ConstantsAssumption, Zenon DEF Next1
<1> QED
  BY <1>1, <1>2, Zenon DEF Locals

\* The locals inside release_mark.
Checked(x) == [p[x] EXCEPT !.pc = "rm_check", !.w = rc[Slot(p[x].pos)]]
Cased(x) == [p[x] EXCEPT !.pc = "rm_cas"]
Freed(x) == [p[x] EXCEPT !.pc = "rm_free"]

LEMMA RmLocals ==
  ASSUME ChTypes, NEW x \in Procs
  PROVE  /\ \A e \in {Checked(x), Cased(x), Freed(x)} :
              /\ e \in Locals /\ e.pc \in Dropping /\ e.pos = p[x].pos /\ e.todo = p[x].todo
              /\ e.bit = p[x].bit /\ e.start = p[x].start
         /\ Checked(x).pc = "rm_check" /\ Checked(x).w = rc[Slot(p[x].pos)]
         /\ Cased(x).pc = "rm_cas" /\ Cased(x).w = p[x].w /\ Freed(x).pc = "rm_free"
<1>1. p[x] \in Locals /\ rc[Slot(p[x].pos)] \in Words
  BY Typed, SlotIn DEF ChTypes
<1>2. \A l \in Dropping : l \in Labels
  BY Zenon DEF Labels
<1>3. "rm_check" \in Dropping /\ "rm_cas" \in Dropping /\ "rm_free" \in Dropping
  BY Zenon DEF Dropping
<1>4. /\ Checked(x) \in Locals /\ Checked(x).pc = "rm_check" /\ Checked(x).w = rc[Slot(p[x].pos)]
      /\ Checked(x).pos = p[x].pos /\ Checked(x).todo = p[x].todo
      /\ Checked(x).bit = p[x].bit /\ Checked(x).start = p[x].start
  BY <1>1, <1>2, <1>3, Zenon DEF Locals, Checked
<1>5. /\ Cased(x) \in Locals /\ Cased(x).pc = "rm_cas" /\ Cased(x).w = p[x].w
      /\ Cased(x).pos = p[x].pos /\ Cased(x).todo = p[x].todo
      /\ Cased(x).bit = p[x].bit /\ Cased(x).start = p[x].start
  BY <1>1, <1>2, <1>3, Zenon DEF Locals, Cased
<1>6. /\ Freed(x) \in Locals /\ Freed(x).pc = "rm_free"
      /\ Freed(x).pos = p[x].pos /\ Freed(x).todo = p[x].todo
      /\ Freed(x).bit = p[x].bit /\ Freed(x).start = p[x].start
  BY <1>1, <1>2, <1>3, Zenon DEF Locals, Freed
<1> QED
  BY <1>3, <1>4, <1>5, <1>6, Zenon

\* release_mark, by what it changes.
LEMMA RmCases ==
  ASSUME NEW x \in Procs, RmLoad(x) \/ RmCheck(x) \/ RmCas(x) \/ RmFree(x)
  PROVE  /\ p[x].pc \in Dropping
         /\ \/ /\ OnlyLocals
               /\ \/ Set(x, Next1(x)) \/ Set(x, Checked(x))
                  \/ /\ Set(x, Cased(x)) /\ p[x].pc = "rm_check"
                     /\ f_ct[Slot(p[x].pos)] = Commit(p[x].pos)
            \/ /\ OnlyWord
               /\ p[x].pc = "rm_cas" /\ rc[Slot(p[x].pos)] = p[x].w
               /\ Drop(Slot(p[x].pos), p[x].bit)
               /\ Set(x, Freed(x)) \/ Set(x, Next1(x))
            \/ /\ OnlyFlag
               /\ \E v \in {f_ct[Slot(p[x].pos)], p[x].pos + RING_SIZE} : Free(Slot(p[x].pos), v)
               /\ Set(x, Next1(x))
<1>0. p[x].pc \in Dropping
  BY Zenon DEF RmLoad, RmCheck, RmCas, RmFree, At, Dropping
<1>1. CASE RmLoad(x)
  BY <1>0, <1>1, Zenon DEF RmLoad, Checked, OnlyLocals
<1>2. CASE RmCheck(x)
  BY <1>0, <1>2, Zenon DEF RmCheck, Cased, At, OnlyLocals
<1>3. CASE RmCas(x) /\ rc[Slot(p[x].pos)] # p[x].w
  BY <1>3, <1>0, Zenon DEF RmCas, Checked, OnlyWord, ring, OnlyLocals
<1>4. CASE RmCas(x) /\ rc[Slot(p[x].pos)] = p[x].w
  BY <1>0, <1>4, Zenon DEF RmCas, Freed, At, Dropped, Drop, OnlyWord
<1>5. CASE RmFree(x)
  BY <1>0, <1>5, Zenon DEF RmFree, Free, OnlyFlag
<1> QED
  BY <1>1, <1>2, <1>3, <1>4, <1>5, Zenon

-----------------------------------------------------------------------------
(* A receiver connecting.                                                  *)

LEMMA ScanStep ==
  ASSUME ChTypes, ChTypes', NEW r \in Receivers, Mild(r), NEW c \in Nat, Conn(r, c),
         p[r].pc \in Scanning, p'[r].pc \in Scanning \cup {"cursor"},
         p'[r].bit = p[r].bit, p'[r].start = p[r].start,
         \A q \in c .. claims - 1 : p[r].bit \in rc'[Slot(q)].m,
         p'[r].pc \in Dropping => p'[r].pos < p'[r].start,
         p'[r].pc = "rm_cas" /\ rc'[Slot(p'[r].pos)] = p'[r].w =>
            \A q \in c .. claims - 1 : Slot(q) # Slot(p'[r].pos)
  PROVE  Conn(r, c)'
<1>0. /\ claims' = claims /\ since' = since /\ r \notin Writers /\ r \in Procs
      /\ \A x \in Writers : p'[x] = p[x]
  BY ConstantsAssumption, Zenon DEF Mild, Procs
<1>1. Owed(r, c)'
  BY <1>0, Zenon DEF Conn, Owed, Sheds
<1>2. p'[r].start <= c
  BY Zenon DEF Conn
<1>3. Clear(r, c)'
  BY <1>0, Typed, SlotIn DEF Clear, Conn, Mild
<1>4. Fresh(r, c)'
  BY <1>0, SlotIn DEF Fresh, ChTypes, Mild, Conn
<1>5. Drops(r, c)'
  BY <1>0, Zenon DEF Drops
<1>6. Walks(r, c)'
  BY Zenon DEF Walks, Scanning, Dropping
<1> QED
  BY <1>1, <1>2, <1>3, <1>4, <1>5, <1>6, Zenon DEF Conn

LEMMA ReceiverRm ==
  ASSUME ChInv, NEW r \in Receivers, p[r].pc \in Dropping,
         NEW e \in {Checked(r), Cased(r), Freed(r), Next1(r)},
         ChTypes', Mild(r), Loses(r), p'[r] = e,
         \A c \in Nat : Conn(r, c) => \A q \in c .. claims - 1 : p[r].bit \in rc'[Slot(q)].m,
         e = Checked(r) => rc' = rc,
         e = Cased(r) => rc' = rc /\ p[r].pc = "rm_check" /\ f_ct[Slot(p[r].pos)] = Commit(p[r].pos)
  PROVE  ChInv'
<1>0. ChTypes /\ r \in Procs /\ p[r].pos \in Nat /\ p[r].start \in Nat /\ claims \in Nat
  BY Typed, Zenon DEF ChInv, ChTypes, Procs
<1>1. /\ e.pc \in Scanning /\ e.bit = p[r].bit /\ e.start = p[r].start
      /\ e.todo = p[r].todo /\ p[r].todo \in SUBSET Slots
  BY <1>0, RmLocals, NextReceiver DEF Scanning, ChInv, TodoInv
<1>2. /\ e.pc = "rm_check" => e = Checked(r)
      /\ e.pc = "rm_cas" => e = Cased(r)
      /\ e.pc \in Dropping => e.pos = p[r].pos
  BY <1>0, RmLocals, NextReceiver DEF Dropping
<1>3. Linked(r) /\ Linked(r)'
  BY <1>1, Zenon DEF Linked, Scanning, Dropping
<1>4. p[r].pc \in Connecting
  BY Zenon DEF Connecting, Scanning
<1>5. ASSUME e.pc \in {"rm_check", "rm_cas"} PROVE e.w.g <= rc'[Slot(e.pos)].g
  <2>0. Slot(p[r].pos) \in Slots
    BY <1>0, SlotIn
  <2>1. rc[Slot(p[r].pos)].g \in Nat
    BY <1>0, <2>0, Zenon DEF ChTypes, Words
  <2>2. CASE e = Checked(r)
    BY <1>0, <2>1, <2>2, RmLocals
  <2>3. CASE e = Cased(r)
    BY <1>0, <2>3, RmLocals DEF ChInv, WordInv
  <2> QED
    BY <1>2, <1>5, <2>2, <2>3, Zenon
<1>6. ASSUME ~split, r \notin off PROVE RecvInv(r)'
  <2>1. Good /\ RecvInv(r)
    BY <1>6, Zenon DEF ChInv, Good
  <2>2. PICK c \in Nat : Conn(r, c)
    BY <1>4, <2>1, Zenon DEF RecvInv
  <2>3. p[r].pos < p[r].start /\ p[r].start <= c /\ claims <= c + RING_SIZE
    BY <2>2, Zenon DEF Conn, Drops, Owed
  <2>4. ASSUME e = Cased(r), NEW q \in c .. claims - 1, Slot(q) = Slot(p[r].pos) PROVE FALSE
    BY <2>2, <1>0, <2>4, <2>3 DEF Conn, Scanning, Commit, PosOf, Fresh
  <2>5. Conn(r, c)'
    <3>1. p[r].pc \in Scanning /\ p'[r].pc \in Scanning \cup {"cursor"}
      BY <1>1, Zenon DEF Scanning
    <3>2. p'[r].pc \in Dropping => p'[r].pos < p'[r].start
      BY <1>1, <1>2, <2>3, Zenon
    <3>3. p'[r].pc = "rm_cas" => \A q \in c .. claims - 1 : Slot(q) # Slot(p'[r].pos)
      BY <1>2, <2>4, Zenon DEF Dropping
    <3> QED
      BY <1>0, <1>1, <2>2, <3>1, <3>2, <3>3, ScanStep, Zenon
  <2>6. p'[r].pc \notin Reading
    BY <1>1, Zenon DEF Scanning, Dropping, Reading
  <2> QED
    BY <2>5, <2>6, Zenon DEF RecvInv
<1> QED
  BY <1>1, <1>3, <1>4, <1>5, <1>6, ReceiverMild, Zenon

LEMMA RmReceiverKeeps ==
  ASSUME ChInv, NEW r \in Receivers, RmLoad(r) \/ RmCheck(r) \/ RmCas(r) \/ RmFree(r)
  PROVE  ChInv'
<1> DEFINE s == Slot(p[r].pos)
<1>0. ChTypes /\ r \in Procs /\ p[r].pc \in Dropping
  BY RmCases, Zenon DEF ChInv, Procs
<1>1. /\ s \in Slots /\ p[r].pos \in Nat /\ p[r].bit \in Nat /\ f_ct[s] \in Int
      /\ RING_SIZE \in Nat
  BY <1>0, Typed, SlotIn, ConstantsAssumption DEF ChTypes
<1>2. \A e \in {Checked(r), Cased(r), Freed(r), Next1(r)} : e \in Locals
  BY <1>0, RmLocals, NextReceiver, Zenon
<1>d. Checked(r) # Next1(r) /\ Checked(r) # Freed(r) /\ Cased(r) # Next1(r) /\ Cased(r) # Freed(r)
      /\ Checked(r) # Cased(r)
  BY <1>0, RmLocals, NextReceiver, Zenon
<1>o. \A c \in Nat : Conn(r, c) => \A q \in c .. claims - 1 : p[r].bit \in rc[Slot(q)].m
  BY Zenon DEF Conn, Owed
<1>3. CASE /\ OnlyLocals
           /\ \/ Set(r, Next1(r)) \/ Set(r, Checked(r))
              \/ Set(r, Cased(r)) /\ p[r].pc = "rm_check" /\ f_ct[s] = Commit(p[r].pos)
  <2>1. PICK e \in {Checked(r), Cased(r), Freed(r), Next1(r)} :
           /\ Set(r, e)
           /\ e = Cased(r) => p[r].pc = "rm_check" /\ f_ct[s] = Commit(p[r].pos)
    BY <1>3, <1>d, Zenon
  <2>2. ChTypes' /\ Mild(r) /\ Loses(r) /\ p'[r] = e /\ rc' = rc
    BY <1>0, <1>2, <1>3, <2>1, Quiet, Zenon
  <2> QED
    BY <1>0, <1>o, <2>1, <2>2, ReceiverRm, Zenon
<1>4. CASE /\ OnlyWord /\ p[r].pc = "rm_cas" /\ rc[s] = p[r].w
           /\ Drop(s, p[r].bit)
           /\ Set(r, Freed(r)) \/ Set(r, Next1(r))
  <2>1. PICK e \in {Freed(r), Next1(r)} : Set(r, e)
    BY <1>4, Zenon
  <2>2. /\ ChTypes' /\ Mild(r) /\ p'[r] = e /\ rc'[s].m = rc[s].m \ {p[r].bit}
        /\ \A t \in Slots : t # s => rc'[t] = rc[t]
    BY <1>0, <1>1, <1>2, <1>4, <2>1, DropMild
  <2>3. Linked(r)
    BY <1>0, Zenon DEF Linked, Dropping
  <2>4. Loses(r)
    BY <2>2, <2>3, Zenon DEF Loses
  <2>5. ASSUME NEW c \in Nat, Conn(r, c), NEW q \in c .. claims - 1 PROVE p[r].bit \in rc'[Slot(q)].m
    <3>1. Slot(q) # s
      BY <1>4, <2>5, Zenon DEF Conn, Drops
    <3>2. Slot(q) \in Slots
      BY <1>0, SlotIn DEF ChTypes
    <3> QED
      BY <1>o, <2>2, <2>5, <3>1, <3>2, Zenon
  <2> QED
    BY <1>0, <1>d, <2>1, <2>2, <2>4, <2>5, ReceiverRm, Zenon
<1>5. CASE /\ OnlyFlag
           /\ \E v \in {f_ct[s], p[r].pos + RING_SIZE} : Free(s, v)
           /\ Set(r, Next1(r))
  <2>1. PICK v \in {f_ct[s], p[r].pos + RING_SIZE} : Free(s, v)
    BY <1>5, Zenon
  <2>2. v \in Int /\ (v = f_ct[s] \/ v >= 0)
    BY <1>1
  <2>3. ChTypes' /\ Mild(r) /\ Loses(r) /\ p'[r] = Next1(r)
    BY <1>0, <1>1, <1>2, <1>5, <2>1, <2>2, FreeMild, Zenon
  <2>4. rc' = rc
    BY <1>5, Zenon DEF OnlyFlag
  <2> QED
    BY <1>0, <1>d, <1>o, <2>3, <2>4, ReceiverRm, Zenon
<1> QED
  BY <1>0, <1>3, <1>4, <1>5, RmCases, Zenon

LEMMA ScanKeeps ==
  ASSUME NoWrap, ChInv, NEW r \in Receivers, Scan(r) PROVE ChInv'
<1>0. /\ ChTypes /\ r \in Procs /\ p[r] \in Locals /\ p[r].todo \in SUBSET Slots /\ OnlyLocals
      /\ p[r].pc = "scan" /\ claims \in Nat /\ p[r].start \in Nat
  BY Typed, Zenon DEF ChInv, ChTypes, TodoInv, Procs, Scan, At, OnlyLocals
<1>1. "cursor" \in Labels /\ "rm_load" \in Labels /\ \A s \in Slots : f_ct[s] \in Int
  BY <1>0, Zenon DEF Labels, Dropping, ChTypes
<1>2. Linked(r) /\ p[r].pc \in Connecting \cap Scanning
  BY <1>0 DEF Linked, Connecting, Scanning
\* Whatever the next slot is, what is owed to r stays.
<1>3. ASSUME NEW e \in Locals, Set(r, e), e.pc \in {"cursor", "rm_load", "scan"}, e.bit = p[r].bit,
             e.start = p[r].start, e.todo \in SUBSET Slots,
             ~split /\ e.pc = "rm_load" => e.pos < p[r].start
      PROVE  ChInv'
  <2>1. ChTypes' /\ Mild(r) /\ Loses(r) /\ p'[r] = e /\ rc' = rc /\ claims' = claims
    BY <1>0, <1>3, Quiet, Zenon
  <2>2. e.pc \in Connecting \cap (Scanning \cup {"cursor"}) /\ e.pc \notin Reading \cup {"rm_check", "rm_cas"}
    BY <1>3, Zenon DEF Connecting, Scanning, Dropping, Reading
  <2>3. ASSUME ~split, r \notin off PROVE RecvInv(r)'
    <3>1. PICK c \in Nat : Conn(r, c)
      BY <1>2, <2>3, Zenon DEF ChInv, Good, RecvInv
    <3>2. \A q \in c .. claims - 1 : p[r].bit \in rc'[Slot(q)].m
      BY <2>1, <3>1, Zenon DEF Conn, Owed
    <3>3. p'[r].pc \in Dropping => p'[r].pos < p'[r].start
      BY <1>3, <2>1, <2>3, Zenon DEF Dropping
    <3>4. Conn(r, c)'
      BY <1>0, <1>2, <1>3, <2>1, <2>2, <3>1, <3>2, <3>3, ScanStep, Zenon
    <3> QED
      BY <2>1, <2>2, <3>4, Zenon DEF RecvInv
  <2>4. p'[r].bit = p[r].bit /\ p'[r].start = p[r].start /\ p'[r].todo \in SUBSET Slots
    BY <1>3, <2>1, Zenon
  <2>5. p[r].pc \in Connecting \cup {"bit"} /\ p'[r].pc \notin {"rm_check", "rm_cas"}
    BY <1>2, <2>1, <2>2, Zenon
  <2> QED
    BY <1>2, <2>1, <2>3, <2>4, <2>5, ReceiverMild, Zenon
<1>4. CASE p[r].todo = {}
  <2> DEFINE e == [p[r] EXCEPT !.pc = "cursor"]
  <2>1. Set(r, e)
    BY <1>4, Zenon DEF Scan, Goto
  <2>2. e \in Locals /\ e.pc = "cursor" /\ e.bit = p[r].bit /\ e.start = p[r].start /\ e.todo = p[r].todo
    BY <1>0, <1>1, Zenon DEF Locals
  <2> HIDE DEF e
  <2> QED
    BY <1>0, <1>3, <2>1, <2>2, Zenon
<1>5. CASE p[r].todo # {}
  <2>0. PICK s \in p[r].todo :
          Set(r, IF f_ct[s] < 0 /\ ~AtOrAfter(PosOf(f_ct[s]), p[r].start)
                 THEN [p[r] EXCEPT !.pc = "rm_load", !.pos = PosOf(f_ct[s]), !.todo = @ \ {s}]
                 ELSE [p[r] EXCEPT !.todo = @ \ {s}])
    BY <1>5, Zenon DEF Scan
  <2>1. s \in Slots /\ f_ct[s] \in Int /\ p[r].todo \ {s} \in SUBSET Slots /\ p[r].todo \ {s} \in SUBSET Nat
    BY <1>0, <1>1, ConstantsAssumption DEF Slots
  <2>2. CASE f_ct[s] < 0 /\ ~AtOrAfter(PosOf(f_ct[s]), p[r].start)
    <3> DEFINE e == [p[r] EXCEPT !.pc = "rm_load", !.pos = PosOf(f_ct[s]), !.todo = p[r].todo \ {s}]
    <3>1. Set(r, e)
      BY <2>0, <2>2, Zenon
    <3>2. PosOf(f_ct[s]) \in Nat
      BY <2>1, <2>2 DEF PosOf
    <3>3. /\ e \in Locals /\ e.pc = "rm_load" /\ e.bit = p[r].bit /\ e.start = p[r].start
          /\ e.todo = p[r].todo \ {s} /\ e.pos = PosOf(f_ct[s])
      BY <1>0, <1>1, <2>1, <3>2, Zenon DEF Locals
    <3> HIDE DEF e
    <3>4. ASSUME ~split PROVE PosOf(f_ct[s]) < p[r].start
      <4>1. PosOf(f_ct[s]) < claims /\ claims <= MaxPush /\ p[r].start <= write_cursor /\ write_cursor <= claims
        BY <1>0, <1>2, <2>1, <2>2, <3>4, Zenon DEF ChInv, Good, FlagInv, CursorInv, SinceInv
      <4>2. PosOf(f_ct[s]) \in 0 .. MaxPush /\ p[r].start \in 0 .. MaxPush
        BY <1>0, <3>2, <4>1, ConstantsAssumption DEF ChTypes
      <4> QED
        BY <2>2, <4>2, AfterIsLeq
    <3> QED
      BY <1>3, <2>1, <3>1, <3>3, <3>4, Zenon
  <2>3. CASE ~(f_ct[s] < 0 /\ ~AtOrAfter(PosOf(f_ct[s]), p[r].start))
    <3> DEFINE e == [p[r] EXCEPT !.todo = p[r].todo \ {s}]
    <3>1. Set(r, e)
      BY <2>0, <2>3, Zenon
    <3>2. /\ e \in Locals /\ e.pc = p[r].pc /\ e.bit = p[r].bit /\ e.start = p[r].start
          /\ e.todo = p[r].todo \ {s}
      BY <1>0, <2>1, Zenon DEF Locals
    <3> HIDE DEF e
    <3> QED
      BY <1>0, <1>3, <2>1, <3>1, <3>2, Zenon
  <2> QED
    BY <2>2, <2>3, Zenon
<1> QED
  BY <1>4, <1>5, Zenon

LEMMA SetSinceKeeps ==
  ASSUME ChInv, NEW r \in Receivers, SetSince(r) PROVE ChInv'
<1> DEFINE e == [p[r] EXCEPT !.pc = "scan", !.todo = Slots]
<1>0. /\ ChTypes /\ BitInv /\ TodoInv /\ WordInv /\ p[r] \in Locals /\ p[r].pc = "since" /\ Set(r, e)
      /\ "scan" \in Labels /\ p[r].start \in Nat
  BY Typed, Zenon DEF ChInv, ChTypes, Procs, SetSince, At, Labels
<1>1. /\ connections' = connections /\ off' = off /\ since' = [since EXCEPT ![p[r].bit] = p[r].start]
      /\ UNCHANGED <<write_cursor, ring, claims, split>>
  BY Zenon DEF SetSince, hist
<1>2. Slots \in SUBSET Nat
  BY ConstantsAssumption DEF Slots
<1>3. e \in Locals /\ e.pc = "scan" /\ e.todo = Slots /\ e.bit = p[r].bit /\ e.start = p[r].start
  BY <1>0, <1>2, Zenon DEF Locals
<1> HIDE DEF e
<1>4. /\ Calm /\ p' \in [Procs -> Locals] /\ p'[r] = e /\ \A x \in Receivers : x # r => p'[x] = p[x]
  BY <1>0, <1>1, <1>3, CalmSet, Zenon
<1>5. Linked(r) /\ p[r].bit \in Bits /\ since \in [Bits -> Nat]
  BY <1>0, Zenon DEF Linked, BitInv, ChTypes
<1>6. /\ since' \in [Bits -> Nat] /\ since'[p[r].bit] = p[r].start
      /\ \A b \in Bits : b # p[r].bit => since'[b] = since[b]
  BY <1>0, <1>1, <1>5, Updated, Zenon
<1>7. ChTypes' /\ split' = split
  BY <1>0, <1>1, <1>4, <1>6 DEF ChTypes, Calm
<1>8. BitInv'
  BY <1>0, <1>1, <1>3, <1>4, <1>5, CalmBits, Zenon
<1>9. TodoInv'
  BY <1>0, <1>3, <1>4, Zenon DEF TodoInv
<1>10. SameDrops
  BY <1>3, <1>4, Zenon DEF SameDrops
<1>11. p[r].pc \in Connecting /\ e.pc \in Connecting /\ p[r].pc \in Scanning /\ e.pc \notin Reading \cup Dropping
  BY <1>0, <1>3, Zenon DEF Connecting, Scanning, Reading, Dropping
<1>12. ASSUME ~split PROVE \A x \in Receivers \ off' : RecvInv(x)'
  <2> SUFFICES ASSUME NEW x \in Receivers, x \notin off PROVE RecvInv(x)'
    BY <1>1, Zenon
  <2>0. RecvInv(x)
    BY <1>12, Zenon DEF ChInv, Good
  <2>1. CASE x # r
    <3>1. Linked(x) => p[x].bit \in Bits /\ p[x].bit # p[r].bit
      BY <1>0, <1>5, <2>1, Zenon DEF BitInv, ChTypes
    <3> QED
      BY <1>0, <1>4, <1>6, <1>7, <2>0, <2>1, <3>1, CalmOther, Zenon
  <2>2. CASE x = r
    <3>1. PICK c \in Nat : Conn(r, c)
      BY <1>11, <2>0, <2>2, Zenon DEF RecvInv
    <3>2. /\ rc' = rc /\ f_ct' = f_ct /\ claims' = claims /\ \A w \in Writers : p'[w] = p[w]
      BY <1>4, Zenon DEF Calm
    <3>3. Owed(r, c)'
      BY <1>3, <1>4, <1>6, <3>1, <3>2, Zenon DEF Conn, Owed, Sheds
    <3>4. Clear(r, c)' /\ Fresh(r, c)'
      BY <1>3, <1>4, <1>11, <3>1, <3>2, Zenon DEF Conn, Clear, Fresh
    <3>5. Drops(r, c)' /\ Walks(r, c)' /\ p'[r].start <= c
      BY <1>3, <1>4, <1>11, <3>1, Zenon DEF Drops, Walks, Conn
    <3>6. Conn(r, c)'
      BY <3>3, <3>4, <3>5, Zenon DEF Conn
    <3> QED
      BY <1>4, <1>11, <2>2, <3>6, Zenon DEF RecvInv
  <2> QED
    BY <2>1, <2>2, Zenon
<1>13. ASSUME ~split PROVE SinceInv
  BY <1>13, Zenon DEF ChInv, Good
<1>14. ASSUME ~split PROVE \A b \in Bits : since'[b] <= write_cursor
  BY <1>6, <1>11, <1>13, <1>14, Zenon DEF SinceInv
<1>15. ASSUME ~split PROVE \A x \in Receivers : p'[x].pc \in Connecting \cup {"bit"} => p'[x].start <= write_cursor
  BY <1>3, <1>4, <1>11, <1>13, <1>15, Zenon DEF SinceInv
<1>16. ~split => Settled
  BY <1>12, <1>14, <1>15, Zenon DEF Settled
<1> QED
  BY <1>4, <1>7, <1>8, <1>9, <1>10, <1>16, CalmKeeps, Zenon

LEMMA AdoptCursorKeeps ==
  ASSUME NoWrap, ChInv, NEW r \in Receivers, AdoptCursor(r) PROVE ChInv'
<1> DEFINE e == [p[r] EXCEPT !.pc = "walk", !.cur = write_cursor, !.pos = 0]
<1>0. /\ ChTypes /\ BitInv /\ TodoInv /\ WordInv /\ p[r] \in Locals /\ p[r].pc = "cursor" /\ Set(r, e)
      /\ "walk" \in Labels /\ p[r].start \in Nat /\ write_cursor \in Nat /\ claims \in Nat /\ 0 \in Nat
  BY Typed, Zenon DEF ChInv, ChTypes, Procs, AdoptCursor, At, Labels
<1>1. /\ connections' = connections /\ since' = since
      /\ off' = off \cup {x \in {r} : \E w \in Writers : At(w, "advance") /\ Passes(w, r)}
      /\ UNCHANGED <<write_cursor, ring, claims, split>>
  BY Zenon DEF AdoptCursor
<1>3. /\ e \in Locals /\ e.pc = "walk" /\ e.todo = p[r].todo /\ e.bit = p[r].bit
      /\ e.start = p[r].start /\ e.cur = write_cursor /\ e.pos = 0
  BY <1>0, Zenon DEF Locals
<1> HIDE DEF e
<1>4. /\ Calm /\ p' \in [Procs -> Locals] /\ p'[r] = e /\ \A x \in Receivers : x # r => p'[x] = p[x]
  BY <1>0, <1>1, <1>3, CalmSet, Zenon
<1>5. Linked(r)
  BY <1>0, Zenon DEF Linked
<1>7. ChTypes'
  BY <1>0, <1>1, <1>4, Zenon DEF ChTypes, Calm
<1>8. BitInv'
  BY <1>0, <1>1, <1>3, <1>4, <1>5, CalmBits, Zenon
<1>9. TodoInv'
  BY <1>0, <1>3, <1>4, Zenon DEF TodoInv
<1>10. SameDrops
  BY <1>3, <1>4, Zenon DEF SameDrops
<1>11. p[r].pc \in Connecting /\ e.pc \in Connecting /\ e.pc \notin Reading \cup Scanning \cup Dropping
  BY <1>0, <1>3, Zenon DEF Connecting, Scanning, Reading, Dropping
<1>13. ASSUME ~split PROVE SinceInv /\ CursorInv
  BY <1>13, Zenon DEF ChInv, Good
<1>12. ASSUME ~split PROVE \A x \in Receivers \ off' : RecvInv(x)'
  <2> SUFFICES ASSUME NEW x \in Receivers, x \notin off' PROVE RecvInv(x)'
    BY Zenon
  <2>0. x \notin off /\ RecvInv(x)
    BY <1>1, <1>12, Zenon DEF ChInv, Good
  <2>1. CASE x # r
    BY <1>0, <1>1, <1>4, <1>7, <2>0, <2>1, CalmOther, Zenon
  <2>2. CASE x = r
    <3>1. PICK c \in Nat : Conn(r, c)
      BY <1>11, <2>0, <2>2, Zenon DEF RecvInv
    <3>2. /\ rc' = rc /\ claims' = claims /\ write_cursor' = write_cursor /\ \A w \in Writers : p'[w] = p[w]
      BY <1>4, Zenon DEF Calm
    <3>3. Owed(r, c)'
      BY <1>1, <1>3, <1>4, <3>1, <3>2, Zenon DEF Conn, Owed, Sheds
    <3>4. Clear(r, c)' /\ Drops(r, c)' /\ p'[r].start <= c
      BY <1>3, <1>4, <1>11, <3>1, <3>2, Zenon DEF Conn, Clear, Drops, Dropping
    <3>5. /\ p[r].start <= write_cursor /\ write_cursor <= claims /\ claims <= MaxPush /\ c <= claims
      BY <1>11, <1>12, <1>13, <3>1, Zenon DEF SinceInv, CursorInv, Conn, Owed
    <3>6. c <= write_cursor /\ (claims <= p[r].start + RING_SIZE \/ claims <= write_cursor)
      <4>1. CASE claims = write_cursor
        BY <1>0, <3>5, <4>1, Zenon
      <4>2. CASE claims # write_cursor
        <5>1. PICK w \in Writers : At(w, "advance")
          BY <1>12, <1>13, <4>2, Zenon DEF CursorInv
        <5>2. p[w].pos = write_cursor /\ claims = write_cursor + 1
          BY <1>12, <1>13, <5>1, Zenon DEF CursorInv
        <5>3. ~Passes(w, r)
          BY <1>1, <2>2, <5>1, Zenon
        <5>4. p[r].bit \in rc[Slot(write_cursor)].m
          BY <5>2, <5>3, Zenon DEF Passes
        <5>5. (write_cursor - p[r].start) % CursorMod = write_cursor - p[r].start
          <6>1. write_cursor <= MaxPush
            BY <1>0, <3>5, ConstantsAssumption
          <6> QED
            BY <1>0, <3>5, <6>1, Unwrapped, Zenon
        <5>6. ~(write_cursor - p[r].start >= RING_SIZE)
          BY <5>2, <5>3, <5>5, Zenon DEF Passes
        <5>7. claims <= p[r].start + RING_SIZE
          BY <1>0, <5>2, <5>6, ConstantsAssumption
        <5>8. c # write_cursor + 1
          BY <1>0, <3>5, <5>2, ConstantsAssumption, <3>1, <5>4 DEF Conn, Clear
        <5>9. c <= write_cursor
          BY <1>0, <3>1, <3>5, <5>2, <5>8
        <5> QED
          BY <5>7, <5>9, Zenon
      <4> QED
        BY <4>1, <4>2, Zenon
    <3>7. Walks(r, c)'
      BY <1>0, <1>3, <1>4, <3>2, <3>6 DEF Walks
    <3>8. Conn(r, c)'
      BY <1>4, <1>11, <3>3, <3>4, <3>7, Zenon DEF Conn
    <3> QED
      BY <1>4, <1>11, <2>2, <3>8, Zenon DEF RecvInv
  <2> QED
    BY <2>1, <2>2, Zenon
<1>14. ASSUME ~split PROVE \A b \in Bits : since'[b] <= write_cursor
  BY <1>1, <1>13, <1>14, Zenon DEF SinceInv
<1>15. ASSUME ~split PROVE \A x \in Receivers : p'[x].pc \in Connecting \cup {"bit"} => p'[x].start <= write_cursor
  BY <1>3, <1>4, <1>11, <1>13, <1>15, Zenon DEF SinceInv
<1>16. ~split => Settled
  BY <1>12, <1>14, <1>15, Zenon DEF Settled
<1> QED
  BY <1>4, <1>7, <1>8, <1>9, <1>10, <1>16, CalmKeeps, Zenon

\* What is owed from c on is owed from d on.
LEMMA OwedLater ==
  ASSUME ChTypes, NEW r \in Receivers, Mild(r), p'[r].bit = p[r].bit, p[r].bit \in Bits,
         NEW c \in Nat, Owed(r, c), NEW d \in Nat, c <= d, d <= claims,
         \A q \in d .. claims - 1 : p[r].bit \in rc[Slot(q)].m => p[r].bit \in rc'[Slot(q)].m
  PROVE  Owed(r, d)'
<1>0. claims' = claims /\ since' = since /\ r \notin Writers /\ \A x \in Writers : x \in Procs /\ p'[x] = p[x]
  BY ConstantsAssumption, Zenon DEF Mild, Procs
<1>1. claims \in Nat /\ since[p[r].bit] \in Nat /\ RING_SIZE \in Nat
  BY ConstantsAssumption, Zenon DEF ChTypes
<1>2. since'[p'[r].bit] <= d /\ d <= claims' /\ claims' <= d + RING_SIZE
  BY <1>0, <1>1 DEF Owed
<1>3. \A q \in d .. claims' - 1 : p'[r].bit \in rc'[Slot(q)].m
  <2>1. \A q \in d .. claims - 1 : q \in c .. claims - 1
    BY <1>1
  <2> QED
    BY <1>0, <2>1, Zenon DEF Owed
<1>4. ASSUME NEW x \in Writers, Sheds(x, p[r].bit)' PROVE p'[x].pos < d
  <2>1. Sheds(x, p[r].bit) /\ p'[x].pos = p[x].pos
    BY <1>0, <1>4, Zenon DEF Sheds
  <2>2. p[x].pos < c /\ p[x].pos \in Nat
    BY <1>0, <2>1, Typed, Zenon DEF Owed
  <2> QED
    BY <2>1, <2>2
<1> QED
  BY <1>2, <1>3, <1>4, Zenon DEF Owed

\* r is connected, and has what it has to read.
LEMMA OpenInv ==
  ASSUME NEW r \in Receivers, p'[r].pc = "open", NEW d \in Nat, d = p'[r].cur, Owed(r, d)'
  PROVE  RecvInv(r)'
<1>1. Holds(r)'
  BY Zenon DEF Holds, Taken
<1>2. p'[r].pc \notin Connecting
  BY Zenon DEF Connecting, Scanning, Dropping
<1> QED
  BY <1>1, <1>2, Zenon DEF RecvInv

LEMMA AdoptWalkKeeps ==
  ASSUME NoWrap, ChInv, NEW r \in Receivers, AdoptWalk(r) PROVE ChInv'
<1> DEFINE back == (p[r].cur - 1) % CursorMod
           e == [p[r] EXCEPT !.cur = back, !.pos = p[r].pos + 1]
           f == [p[r] EXCEPT !.pc = "open", !.pos = 0, !.start = 0]
<1>0. /\ ChTypes /\ r \in Procs /\ p[r] \in Locals /\ p[r].todo \in SUBSET Slots /\ OnlyLocals
      /\ p[r].pc = "walk" /\ "open" \in Labels
  BY Zenon DEF ChInv, ChTypes, TodoInv, Procs, AdoptWalk, At, OnlyLocals, Labels, Reading
<1>1. /\ p[r].cur \in Nat /\ p[r].pos \in Nat /\ p[r].start \in Nat /\ p[r].bit \in Nat
      /\ claims \in Nat /\ write_cursor \in Nat /\ RING_SIZE \in Nat /\ back \in Nat
  <2>1. p[r].cur \in Nat /\ p[r].pos \in Nat /\ p[r].start \in Nat /\ p[r].bit \in Nat
    BY <1>0, Typed, Zenon
  <2>2. CursorMod \in Nat \ {0} /\ p[r].cur - 1 \in Int
    BY <2>1, ConstantsAssumption
  <2>3. back \in 0 .. CursorMod - 1
    BY <2>2, ModIn, Zenon
  <2>4. back \in Nat
    <3> HIDE DEF back
    <3> QED
      BY <2>2, <2>3
  <2> QED
    BY <1>0, <2>1, <2>4, ConstantsAssumption, Zenon DEF ChTypes
<1>2. p[r].pos + 1 \in Nat /\ 0 \in Nat
  BY <1>1
<1>3. /\ e \in Locals /\ e.pc = p[r].pc /\ e.cur = back /\ e.pos = p[r].pos + 1
      /\ e.bit = p[r].bit /\ e.start = p[r].start /\ e.todo = p[r].todo
  BY <1>0, <1>1, <1>2, Zenon DEF Locals
<1>4. f \in Locals /\ f.pc = "open" /\ f.cur = p[r].cur /\ f.bit = p[r].bit /\ f.todo = p[r].todo
  BY <1>0, <1>2, Zenon DEF Locals
<1>5. \/ /\ Set(r, e) /\ p[r].cur # p[r].start /\ p[r].pos < RING_SIZE
         /\ p[r].bit \in rc[Slot(back)].m
      \/ Set(r, f)
  BY Zenon DEF AdoptWalk
<1> HIDE DEF e, f, back
<1>6. Linked(r) /\ p[r].pc \in Connecting /\ p[r].bit \in Bits
  BY <1>0, Zenon DEF Linked, Connecting, ChInv, BitInv, ChTypes
<1>7. ASSUME ~split, r \notin off
      PROVE  \E c \in Nat : /\ Conn(r, c) /\ Owed(r, c) /\ c <= p[r].cur /\ p[r].cur <= write_cursor
                            /\ write_cursor <= claims /\ claims <= MaxPush
                            /\ claims <= p[r].start + RING_SIZE \/ claims <= p[r].cur + p[r].pos
  <2>1. PICK c \in Nat : Conn(r, c)
    BY <1>6, <1>7, Zenon DEF ChInv, Good, RecvInv
  <2>2. CursorInv
    BY <1>7, Zenon DEF ChInv, Good
  <2> QED
    BY <1>0, <2>1, <2>2, Zenon DEF Conn, Walks, CursorInv
<1>8. CASE Set(r, f)
  <2>1. ChTypes' /\ Mild(r) /\ Loses(r) /\ p'[r] = f /\ rc' = rc
    BY <1>0, <1>4, <1>8, Quiet, Zenon
  <2>2. ASSUME ~split, r \notin off PROVE RecvInv(r)'
    <3>1. PICK c \in Nat : Owed(r, c) /\ c <= p[r].cur /\ p[r].cur <= write_cursor /\ write_cursor <= claims
      BY <1>7, <2>2, Zenon
    <3>2. PICK d \in Nat : d = p[r].cur
      BY <1>1, Zenon
    <3>3. c <= d /\ d <= claims
      BY <1>1, <3>1, <3>2
    <3>4. Owed(r, d)'
      BY <1>0, <1>4, <1>6, <2>1, <3>1, <3>3, OwedLater, Zenon
    <3> QED
      BY <1>4, <2>1, <3>2, <3>4, OpenInv, Zenon
  <2>3. p'[r].pc \notin Connecting \cup {"bit", "rm_check", "rm_cas"}
    BY <1>4, <2>1, Zenon DEF Connecting, Scanning, Dropping
  <2> QED
    BY <1>0, <1>4, <1>6, <2>1, <2>2, <2>3, ReceiverMild, Zenon
<1>9. CASE /\ Set(r, e) /\ p[r].cur # p[r].start /\ p[r].pos < RING_SIZE
           /\ p[r].bit \in rc[Slot(back)].m
  <2>1. /\ ChTypes' /\ Mild(r) /\ Loses(r) /\ p'[r] = e /\ rc' = rc /\ claims' = claims
        /\ write_cursor' = write_cursor
    BY <1>0, <1>3, <1>9, Quiet, Zenon
  <2>2. ASSUME ~split, r \notin off PROVE RecvInv(r)'
    <3>1. PICK c \in Nat : /\ Conn(r, c) /\ Owed(r, c) /\ c <= p[r].cur /\ p[r].cur <= write_cursor
                           /\ write_cursor <= claims /\ claims <= MaxPush
                           /\ claims <= p[r].start + RING_SIZE \/ claims <= p[r].cur + p[r].pos
      BY <1>7, <2>2, Zenon
    <3>2. p[r].start <= c /\ p[r].start < p[r].cur /\ p[r].cur <= MaxPush
      BY <3>1, <1>1, <1>9, ConstantsAssumption DEF Conn
    <3>3. back = p[r].cur - 1
      <4>1. 1 <= p[r].cur /\ 1 \in Nat
        BY <1>1, <3>2
      <4> QED
        BY <1>1, <3>2, <4>1, Unwrapped, Zenon DEF back
    <3>4. c # p[r].cur
      BY <1>1, <1>9, <3>1, <3>2, <3>3 DEF Conn, Clear
    <3>5. Owed(r, c)'
      BY <1>0, <1>1, <1>3, <1>6, <2>1, <3>1, OwedLater DEF Owed
    <3>6. p'[r].start <= c
      BY <1>3, <2>1, <3>2, Zenon
    <3>7. Clear(r, c)'
      BY <1>3, <2>1, <3>1, Zenon DEF Conn, Clear
    <3>8. p'[r].pc = "walk" /\ p'[r].pc \notin Scanning \cup Dropping \cup Reading
      BY <1>0, <1>3, <2>1, Zenon DEF Scanning, Dropping, Reading
    <3>9. Drops(r, c)'
      BY <3>8, Zenon DEF Drops
    <3>10. Walks(r, c)'
      BY <1>1, <1>3, <2>1, <3>1, <3>2, <3>3, <3>4 DEF Walks
    <3>11. Conn(r, c)'
      BY <3>5, <3>6, <3>7, <3>8, <3>9, <3>10, Zenon DEF Conn
    <3> QED
      BY <3>8, <3>11, Zenon DEF RecvInv
  <2>3. p'[r].pc \notin {"rm_check", "rm_cas"} /\ p'[r].start = p[r].start /\ p'[r].bit = p[r].bit
        /\ p'[r].todo = p[r].todo
    BY <1>0, <1>3, <2>1, Zenon
  <2> QED
    BY <1>0, <1>6, <2>1, <2>2, <2>3, ReceiverMild, Zenon
<1> QED
  BY <1>5, <1>8, <1>9, Zenon

LEMMA ClaimBitKeeps ==
  ASSUME NoWrap, ChInv, NEW r \in Receivers, ClaimBit(r) PROVE ChInv'
<1>0. /\ ChTypes /\ BitInv /\ TodoInv /\ WordInv /\ p[r] \in Locals /\ p[r].pc = "bit"
      /\ "since" \in Labels /\ p[r].start \in Nat /\ claims \in Nat /\ write_cursor \in Nat
      /\ Bits \in SUBSET Nat
  <2>1. ChTypes /\ BitInv /\ TodoInv /\ WordInv /\ p[r].pc = "bit" /\ r \in Procs /\ "since" \in Labels
    BY Zenon DEF ChInv, Procs, ClaimBit, At, Labels
  <2>2. p[r] \in Locals /\ p[r].start \in Nat
    BY <2>1, Typed, Zenon DEF ChTypes
  <2>3. Bits \in SUBSET Nat
    BY ConstantsAssumption DEF Bits
  <2> QED
    BY <2>1, <2>2, <2>3, Zenon DEF ChTypes
<1>1. since' = since /\ UNCHANGED <<write_cursor, ring, claims, split>>
  BY Zenon DEF ClaimBit
<1>2. ASSUME ~split PROVE SinceInv /\ CursorInv /\ ClaimInv
  BY <1>2, Zenon DEF ChInv, Good
<1>3. ASSUME ~split PROVE \A b \in Bits : since'[b] <= write_cursor
  BY <1>1, <1>2, <1>3, Zenon DEF SinceInv
<1>4. CASE connections = Bits
  <2>1. Set(r, Idle) /\ off' = off /\ connections' = connections
    BY <1>4, Zenon DEF ClaimBit
  <2>2. Idle \in Locals /\ Idle.pc = "idle" /\ Idle.todo = {}
    BY IdleTyped, Zenon DEF Idle
  <2>3. /\ Calm /\ p' \in [Procs -> Locals] /\ p'[r] = Idle /\ \A x \in Receivers : x # r => p'[x] = p[x]
    BY <1>0, <1>1, <2>1, <2>2, CalmSet, Zenon
  <2>4. ChTypes' /\ TodoInv'
    BY <1>0, <1>1, <2>1, <2>2, <2>3, Zenon DEF ChTypes, TodoInv, Calm
  <2>5. BitInv'
    BY <2>2, <2>3, <1>0, <2>1 DEF Linked, BitInv
  <2>6. Idle.pc \notin Connecting \cup Reading \cup {"bit", "rm_check", "rm_cas"}
    BY <2>2, Zenon DEF Connecting, Scanning, Reading, Dropping
  <2>7. ASSUME ~split, NEW x \in Receivers \ off' PROVE RecvInv(x)'
    <3>1. RecvInv(x)
      BY <2>1, <2>7, Zenon DEF ChInv, Good
    <3>2. CASE x # r
      BY <1>0, <1>1, <2>3, <2>4, <3>1, <3>2, CalmOther, Zenon
    <3> QED
      BY <2>3, <2>6, <3>2, Zenon DEF RecvInv
  <2>10. ~split => \A x \in Receivers \ off' : RecvInv(x)'
    BY <2>7, Zenon
  <2>8. ASSUME ~split
        PROVE  \A x \in Receivers : p'[x].pc \in Connecting \cup {"bit"} => p'[x].start <= write_cursor
    BY <1>2, <2>3, <2>6, <2>8, Zenon DEF SinceInv
  <2>9. SameDrops
    BY <2>3, <2>6, Zenon DEF SameDrops
  <2>11. ~split => Settled
    BY <1>3, <2>8, <2>10, Zenon DEF Settled
  <2> QED
    BY <2>3, <2>4, <2>5, <2>9, <2>11, CalmKeeps, Zenon
<1>5. CASE connections # Bits
  <2>0. PICK b \in Bits \ connections :
          /\ connections' = connections \cup {b}
          /\ Set(r, [p[r] EXCEPT !.pc = "since", !.bit = b])
          /\ off' = IF Haunted(r, b) THEN off \cup {r} ELSE off \ {r}
    BY <1>5, Zenon DEF ClaimBit
  <2> DEFINE e == [p[r] EXCEPT !.pc = "since", !.bit = b]
  <2>1. b \in Nat /\ b \in Bits /\ Set(r, e)
    BY <1>0, <2>0, Zenon
  <2>2. e \in Locals /\ e.pc = "since" /\ e.bit = b /\ e.start = p[r].start /\ e.todo = p[r].todo
    BY <1>0, <2>1, Zenon DEF Locals
  <2> HIDE DEF e
  <2>3. /\ Calm /\ p' \in [Procs -> Locals] /\ p'[r] = e /\ \A x \in Receivers : x # r => p'[x] = p[x]
    BY <1>0, <1>1, <2>1, <2>2, CalmSet, Zenon
  <2>4. ChTypes' /\ TodoInv'
    BY <1>0, <1>1, <2>0, <2>2, <2>3 DEF ChTypes, TodoInv, Calm
  <2>5. BitInv'
    BY <1>0, <2>3, <2>0, <2>2 DEF Linked, BitInv
  <2>6. e.pc \in Connecting /\ e.pc \notin Reading \cup Dropping \cup {"rm_check", "rm_cas", "walk"}
    BY <2>2, Zenon DEF Connecting, Scanning, Reading, Dropping
  <2>7. ASSUME ~split, NEW x \in Receivers \ off' PROVE RecvInv(x)'
    <3>2. CASE x # r
      <4>1. RecvInv(x)
        BY <2>0, <2>7, <3>2, Zenon DEF ChInv, Good
      <4> QED
        BY <1>0, <1>1, <2>3, <2>4, <3>2, <4>1, CalmOther, Zenon
    <3>3. CASE x = r
      <4>1. ~Haunted(r, b)
        BY <2>0, <2>7, <3>3, Zenon
      <4>2. /\ rc' = rc /\ claims' = claims /\ \A w \in Writers : p'[w] = p[w]
        BY <2>3, Zenon DEF Calm
      <4>3. /\ write_cursor <= claims /\ claims <= MaxPush /\ p[r].start <= write_cursor
            /\ since[b] <= write_cursor /\ since[b] \in Nat
        BY <1>0, <1>2, <2>1, <2>7, Zenon DEF CursorInv, SinceInv, ChTypes
      <4>4. PICK c \in Nat : c = claims
        BY <1>0, Zenon
      <4>5. since[b] <= c /\ p[r].start <= c /\ claims <= c + RING_SIZE /\ c .. claims - 1 = {}
        BY <1>0, <4>3, <4>4, ConstantsAssumption
      <4>6. ASSUME NEW y \in Writers, Sheds(y, b) PROVE p[y].pos < c
        BY <4>6, <1>2, <2>7, <4>4, Zenon DEF Sheds, Claimed, ClaimInv
      <4>7. Owed(r, c)'
        BY <1>0, <1>1, <2>2, <2>3, <4>2, <4>4, <4>5, <4>6 DEF Owed, Sheds
      <4>8. Clear(r, c)'
        <5> SUFFICES ASSUME NEW q \in p[r].start .. c - 1, claims <= q + RING_SIZE PROVE b \notin rc[Slot(q)].m
          BY <2>2, <2>3, <4>2, Zenon DEF Clear
        <5>1. /\ q \in 0 .. claims - 1 /\ q \in 0 .. MaxPush /\ p[r].start \in 0 .. MaxPush /\ p[r].start <= q
              /\ q + RING_SIZE >= claims
          BY <1>0, <4>3, <4>4, ConstantsAssumption
        <5>2. AtOrAfter(q, p[r].start)
          BY <5>1, AfterIsLeq, Zenon
        <5> QED
          BY <4>1, <5>1, <5>2, Zenon DEF Haunted
      <4>9. Fresh(r, c)' /\ Drops(r, c)' /\ Walks(r, c)' /\ p'[r].start <= c
        BY <2>2, <2>3, <2>6, <4>2, <4>5, Zenon DEF Fresh, Drops, Walks
      <4>10. Conn(r, c)'
        BY <4>7, <4>8, <4>9, Zenon DEF Conn
      <4> QED
        BY <2>3, <2>6, <3>3, <4>10, Zenon DEF RecvInv
    <3> QED
      BY <3>2, <3>3, Zenon
  <2>10. ~split => \A x \in Receivers \ off' : RecvInv(x)'
    BY <2>7, Zenon
  <2>8. ASSUME ~split
        PROVE  \A x \in Receivers : p'[x].pc \in Connecting \cup {"bit"} => p'[x].start <= write_cursor
    BY <1>0, <1>2, <2>2, <2>3, <2>8, Zenon DEF SinceInv
  <2>9. SameDrops
    BY <2>3, <2>6, Zenon DEF SameDrops
  <2>11. ~split => Settled
    BY <1>3, <2>8, <2>10, Zenon DEF Settled
  <2> QED
    BY <2>3, <2>4, <2>5, <2>9, <2>11, CalmKeeps, Zenon
<1> QED
  BY <1>4, <1>5, Zenon

\* open: the dead are reaped, the cursor is read.
LEMMA ReadSinceKeeps ==
  ASSUME ChInv, NEW r \in Receivers, ReadSince(r) PROVE ChInv'
<1> DEFINE dead == {x \in Receivers : At(x, "dead")}
           e == [Idle EXCEPT !.pc = "bit", !.start = write_cursor]
<1>0. /\ ChTypes /\ BitInv /\ TodoInv /\ WordInv /\ p[r].pc = "idle" /\ "bit" \in Labels
      /\ write_cursor \in Nat /\ p \in [Procs -> Locals] /\ r \in Procs /\ r \notin dead
  BY Zenon DEF ChInv, ChTypes, Procs, ReadSince, At, Labels
<1>1. /\ since' = since /\ off' = off /\ UNCHANGED <<write_cursor, rc, f_ct, data, claims, split>>
      /\ connections' = connections \ {p[x].bit : x \in dead}
      /\ p' = [x \in Procs |-> IF x \in dead THEN Idle ELSE IF x = r THEN e ELSE p[x]]
  BY Zenon DEF ReadSince, ring
<1>2. Idle \in Locals /\ Idle.pc = "idle" /\ Idle.todo = {}
  BY IdleTyped, Zenon DEF Idle
<1>3. e \in Locals /\ e.pc = "bit" /\ e.start = write_cursor /\ e.todo = Idle.todo
  BY <1>0, <1>2, Zenon DEF Locals
<1> HIDE DEF e
<1>4. /\ p' \in [Procs -> Locals] /\ p'[r] = e
      /\ \A x \in Procs : p'[x] \in {Idle, e, p[x]}
      /\ \A x \in Procs : x # r /\ p[x].pc # "dead" => p'[x] = p[x]
      /\ \A x \in Receivers : x \in dead => p'[x] = Idle
  BY <1>1, <1>0, <1>2, <1>3, Zenon DEF At, Procs
<1>5. \A x \in Receivers : x # r => p'[x] = p[x] \/ (x \in dead /\ p'[x] = Idle)
  BY <1>4, Zenon DEF Procs, At
<1>6. \A w \in Writers : p'[w] = p[w]
  BY <1>1, ConstantsAssumption, Zenon DEF Procs
<1>7. Calm
  BY <1>1, <1>6, Zenon DEF Calm
<1>8. ChTypes'
  BY <1>0, <1>1, <1>4, Zenon DEF ChTypes
<1>9. TodoInv'
  BY <1>0, <1>2, <1>3, <1>4, <1>5, Zenon DEF TodoInv
<1>10. \A x \in Receivers : Linked(x)' => Linked(x) /\ p'[x] = p[x] /\ x \notin dead
  BY <1>2, <1>3, <1>4, <1>5, Zenon DEF Linked
<1>11. \A x \in dead : Linked(x)
  BY Zenon DEF Linked, At
<1>12. BitInv'
  <2>1. \A x \in Receivers : Linked(x)' => p[x].bit \in connections'
    BY <1>0, <1>1, <1>10, <1>11, Zenon DEF BitInv
  <2> QED
    BY <1>0, <1>10, <2>1, Zenon DEF BitInv
<1>13. SameDrops
  BY <1>2, <1>3, <1>4, <1>5, Zenon DEF SameDrops
<1>14. ASSUME ~split PROVE Settled
  <2>0. SinceInv /\ write_cursor <= write_cursor
    BY <1>0, <1>14 DEF ChInv, Good
  <2>1. \A b \in Bits : since'[b] <= write_cursor
    BY <1>1, <2>0, Zenon DEF SinceInv
  <2>2. Idle.pc \notin Connecting \cup Reading \cup {"bit"} /\ e.pc \notin Connecting \cup Reading
    BY <1>2, <1>3, Zenon DEF Connecting, Scanning, Reading, Dropping
  <2>3. \A x \in Receivers : p'[x].pc \in Connecting \cup {"bit"} => p'[x].start <= write_cursor
    BY <1>3, <1>4, <1>5, <2>0, <2>2, Zenon DEF SinceInv
  <2>4. ASSUME NEW x \in Receivers \ off' PROVE RecvInv(x)'
    <3>1. RecvInv(x)
      BY <1>1, <1>14, <2>4, Zenon DEF ChInv, Good
    <3>2. CASE p'[x] = p[x]
      BY <1>0, <1>1, <1>7, <1>8, <3>1, <3>2, CalmOther, Zenon
    <3>3. CASE p'[x] # p[x]
      BY <1>4, <1>5, <2>2, <3>3, Zenon DEF RecvInv
    <3> QED
      BY <3>2, <3>3, Zenon
  <2> QED
    BY <2>1, <2>3, <2>4, Zenon DEF Settled
<1> QED
  BY <1>7, <1>8, <1>9, <1>12, <1>13, <1>14, CalmKeeps, Zenon

-----------------------------------------------------------------------------
(* A receiver reading.                                                     *)

LEMMA Reads ==
  ASSUME ChInv, ~split, NEW r \in Receivers, r \notin off, p[r].pc \in Reading
  PROVE  Good /\ Holds(r) /\ \E c \in Nat : c = p[r].cur /\ Owed(r, c)
BY Zenon DEF ChInv, Good, RecvInv

\* A reader keeps its bit; its moves are mild.
LEMMA ReaderMild ==
  ASSUME ChInv, ChTypes', NEW r \in Receivers, p[r].pc \in Reading, Mild(r), Loses(r),
         p'[r].pc \in Reading, p'[r].bit = p[r].bit, p'[r].todo = p[r].todo,
         ~split /\ r \notin off => RecvInv(r)'
  PROVE  ChInv'
<1>1. Linked(r) /\ p'[r].pc \notin Connecting \cup {"bit", "rm_check", "rm_cas"}
  BY Zenon DEF Linked, Reading, Connecting, Scanning, Dropping
<1>2. p'[r].todo \in SUBSET Slots
  BY Zenon DEF ChInv, TodoInv
<1> QED
  BY <1>1, <1>2, ReceiverMild, Zenon

\* What it has taken stays taken until it moves on.
LEMMA TakenKept ==
  ASSUME ChInv, ~split, NEW r \in Receivers, r \notin off, Mild(r), rc' = rc,
         p[r].pc \in Taken, p'[r].pc \in Taken \ {"copy"}, p'[r].bit = p[r].bit,
         p'[r].cur = p[r].cur, p'[r].frag = p[r].frag
  PROVE  RecvInv(r)'
<1>0. /\ ChTypes /\ p[r].pc \in Reading /\ p'[r].pc \in Reading /\ p'[r].pc \notin Connecting
      /\ Linked(r) /\ claims' = claims /\ \A w \in Writers : p'[w] = p[w]
  <2>1. /\ p[r].pc \in Reading /\ p'[r].pc \in Reading /\ p'[r].pc \notin Connecting /\ Linked(r)
    BY Zenon DEF Taken, Reading, Connecting, Scanning, Dropping, Linked
  <2>2. ChTypes /\ claims' = claims
    BY Zenon DEF ChInv, Mild
  <2>3. \A w \in Writers : p'[w] = p[w]
    BY ConstantsAssumption, Zenon DEF Mild, Procs
  <2> QED
    BY <2>1, <2>2, <2>3, Zenon
<1>1. p[r].bit \in Bits
  BY <1>0, Zenon DEF ChInv, BitInv, ChTypes
<1>2. PICK c \in Nat : c = p[r].cur /\ Owed(r, c)
  BY <1>0, Reads, Zenon
<1>3. Holds(r)
  BY <1>0, Reads, Zenon
<1>4. c <= c /\ c <= claims
  BY <1>2 DEF Owed
<1>5. Owed(r, c)'
  BY <1>0, <1>1, <1>2, <1>4, OwedLater, Zenon
<1>6. Holds(r)'
  BY <1>0, <1>3, Zenon DEF Holds
<1> QED
  BY <1>0, <1>2, <1>5, <1>6, Zenon DEF RecvInv

LEMMA ReadBeginKeeps ==
  ASSUME ChInv, NEW r \in Receivers, ReadBegin(r) PROVE ChInv'
<1> DEFINE e == [p[r] EXCEPT !.pc = "copy", !.frag = data[Slot(p[r].cur)]]
<1>0. /\ ChTypes /\ r \in Procs /\ p[r] \in Locals /\ OnlyLocals /\ p[r].pc = "open" /\ Set(r, e)
      /\ "copy" \in Labels /\ f_ct[Slot(p[r].cur)] = Commit(p[r].cur)
  BY Zenon DEF ChInv, ChTypes, Procs, ReadBegin, At, OnlyLocals, Labels, Reading
<1>1. /\ p[r].cur \in Nat /\ Slot(p[r].cur) \in Slots /\ data[Slot(p[r].cur)] \in Frags
  BY <1>0, Typed, SlotIn DEF ChTypes
<1>2. /\ e \in Locals /\ e.pc = "copy" /\ e.frag = data[Slot(p[r].cur)] /\ e.cur = p[r].cur
      /\ e.bit = p[r].bit /\ e.todo = p[r].todo
  BY <1>0, <1>1, Zenon DEF Locals
<1> HIDE DEF e
<1>3. /\ ChTypes' /\ Mild(r) /\ Loses(r) /\ p'[r] = e /\ rc' = rc /\ claims' = claims /\ data' = data
  BY <1>0, <1>2, Quiet, Zenon
<1>4. p[r].pc \in Reading /\ e.pc \in Reading /\ e.pc \notin Connecting /\ Linked(r)
  BY <1>0, <1>2, Zenon DEF Reading, Connecting, Scanning, Dropping, Linked
<1>5. ASSUME ~split, r \notin off PROVE RecvInv(r)'
  <2>0. FlagInv
    BY <1>4, <1>5, Reads, Zenon DEF Good
  <2>1. PICK c \in Nat : c = p[r].cur /\ Owed(r, c)
    BY <1>4, <1>5, Reads, Zenon
  <2>2. Commit(c) < 0 /\ PosOf(Commit(c)) = c
    BY DEF Commit, PosOf
  <2>3. c < claims /\ (claims <= c + RING_SIZE => data[Slot(c)] \in Writers \X {c})
    BY <1>0, <1>1, <2>0, <2>1, <2>2, Zenon DEF FlagInv
  <2>4. c <= c /\ c <= claims /\ claims <= c + RING_SIZE
    BY <2>1 DEF Owed
  <2>5. \A w \in Writers : p'[w] = p[w]
    BY <1>3, ConstantsAssumption, Zenon DEF Mild, Procs
  <2>6. \A w \in Writers : p'[w].pc \in {"advance", "write"} => p'[w].pos # c
    BY <1>0, <2>0, <2>1, <2>5 DEF FlagInv
  <2>7. Holds(r)'
    BY <1>2, <1>3, <2>1, <2>3, <2>4, <2>6, Zenon DEF Holds
  <2>8. p[r].bit \in Bits
    BY <1>0, <1>4, Zenon DEF ChInv, BitInv, ChTypes
  <2>9. Owed(r, c)'
    BY <1>0, <1>2, <1>3, <2>1, <2>4, <2>8, OwedLater, Zenon
  <2> QED
    BY <1>2, <1>3, <1>4, <2>1, <2>7, <2>9, Zenon DEF RecvInv
<1> QED
  BY <1>2, <1>3, <1>4, <1>5, ReaderMild, Zenon

LEMMA ReadEndKeeps ==
  ASSUME ChInv, NEW r \in Receivers, ReadEnd(r) PROVE ChInv'
<1> DEFINE f == IF data[Slot(p[r].cur)] = p[r].frag THEN p[r].frag ELSE Torn
           e == [p[r] EXCEPT !.pc = "rel", !.frag = f]
<1>0. /\ ChTypes /\ r \in Procs /\ p[r] \in Locals /\ OnlyLocals /\ p[r].pc = "copy"
      /\ "rel" \in Labels /\ p[r].frag \in Frags
  BY Typed, Zenon DEF ChInv, ChTypes, Procs, ReadEnd, At, OnlyLocals, Labels, Reading
<1>1. f \in Frags /\ Set(r, e)
  BY <1>0, Zenon DEF Frags, ReadEnd
<1>2. /\ e \in Locals /\ e.pc = "rel" /\ e.frag = f /\ e.cur = p[r].cur
      /\ e.bit = p[r].bit /\ e.todo = p[r].todo
  BY <1>0, <1>1, Zenon DEF Locals
<1> HIDE DEF e
<1>3. /\ ChTypes' /\ Mild(r) /\ Loses(r) /\ p'[r] = e /\ rc' = rc
  BY <1>0, <1>1, <1>2, Quiet, Zenon
<1>4. p[r].pc \in Reading /\ e.pc \in Reading /\ p[r].pc \in Taken /\ e.pc \in Taken \ {"copy"}
  BY <1>0, <1>2, Zenon DEF Reading, Taken
<1>5. ASSUME ~split, r \notin off PROVE RecvInv(r)'
  <2>1. Holds(r)
    BY <1>4, <1>5, Reads, Zenon
  <2>2. f = p[r].frag
    BY <1>0, <2>1, Zenon DEF Holds
  <2> QED
    BY <1>2, <1>3, <1>4, <1>5, <2>2, TakenKept, Zenon
<1> QED
  BY <1>2, <1>3, <1>4, <1>5, ReaderMild, Zenon

\* The receiver's locals when it has done with a position.
LEMMA AdvancedTyped ==
  ASSUME ChTypes, NEW r \in Receivers
  PROVE  /\ Advanced(r) \in Locals /\ Advanced(r).pc = "open" /\ Advanced(r).cur = Up(p[r].cur)
         /\ Advanced(r).bit = p[r].bit /\ Advanced(r).todo = p[r].todo
         /\ Up(p[r].cur) \in Nat /\ free_flag(r) \in Nat
<1>1. p[r] \in Locals /\ NoWord \in Words /\ "open" \in Labels /\ Torn \in Frags /\ p[r].cur \in Nat
  BY IdleTyped, Typed, Zenon DEF ChTypes, Procs, Labels, Reading, Frags
<1>2. Up(p[r].cur) \in Nat
  BY <1>1, ModIn, ConstantsAssumption DEF Up
<1>3. free_flag(r) \in Nat
  BY <1>2, ConstantsAssumption DEF free_flag
<1> QED
  BY <1>1, <1>2, <1>3, Zenon DEF Locals, Advanced

LEMMA ReleaseKeeps ==
  ASSUME ChInv, NEW r \in Receivers, Release(r) PROVE ChInv'
<1> DEFINE s == Slot(p[r].cur)
           l == IF rc[s].m \subseteq {p[r].bit} THEN "rel_flag" ELSE "rel_cas"
           e == [p[r] EXCEPT !.w = rc[s], !.pc = l]
<1>0. /\ ChTypes /\ r \in Procs /\ p[r] \in Locals /\ p[r].pc = "rel" /\ OnlyFlag
      /\ "rel_flag" \in Labels /\ "rel_cas" \in Labels /\ p[r].cur \in Nat
  BY Typed, Zenon DEF ChInv, ChTypes, Procs, Release, At, OnlyFlag, Labels, Reading
<1>1. s \in Slots /\ rc[s] \in Words /\ l \in Labels
  BY <1>0, SlotIn DEF ChTypes
<1>2. p[r].pc \in Reading /\ p[r].pc \in Taken
  BY <1>0, Zenon DEF Reading, Taken
<1>3. CASE rc[s].m = {}
  <2>1. Free(s, free_flag(r)) /\ Set(r, Advanced(r))
    BY <1>3, Zenon DEF Release, Free
  <2>2. /\ Advanced(r) \in Locals /\ Advanced(r).pc = "open" /\ Advanced(r).bit = p[r].bit
        /\ Advanced(r).todo = p[r].todo /\ free_flag(r) \in Nat
    BY <1>0, AdvancedTyped, Zenon
  <2>3. free_flag(r) \in Int /\ free_flag(r) >= 0
    BY <2>2
  <2>4. ChTypes' /\ Mild(r) /\ Loses(r) /\ p'[r] = Advanced(r)
    BY <1>0, <1>1, <2>1, <2>2, <2>3, FreeMild
  <2>5. ASSUME ~split, r \notin off PROVE FALSE
    BY <1>2, <2>5, Reads, <1>0, <1>3 DEF Holds, ChTypes, Owed
  <2>6. p'[r].pc \in Reading
    BY <2>2, <2>4, Zenon DEF Reading
  <2> QED
    BY <1>2, <2>2, <2>4, <2>5, <2>6, ReaderMild, Zenon
<1>4. CASE rc[s].m # {}
  <2>1. Set(r, e) /\ OnlyLocals
    BY <1>0, <1>4, Zenon DEF Release, OnlyLocals, OnlyFlag, ring
  <2>2. /\ e \in Locals /\ e.pc = l /\ e.cur = p[r].cur /\ e.frag = p[r].frag
        /\ e.bit = p[r].bit /\ e.todo = p[r].todo
    BY <1>0, <1>1, Zenon DEF Locals
  <2> HIDE DEF e
  <2>3. /\ ChTypes' /\ Mild(r) /\ Loses(r) /\ p'[r] = e /\ rc' = rc
    BY <1>0, <2>1, <2>2, Quiet, Zenon
  <2>4. e.pc \in Reading /\ e.pc \in Taken \ {"copy"}
    BY <2>2, Zenon DEF Reading, Taken
  <2>5. ASSUME ~split, r \notin off PROVE RecvInv(r)'
    BY <1>2, <2>2, <2>3, <2>4, <2>5, TakenKept, Zenon
  <2> QED
    BY <1>2, <2>2, <2>3, <2>4, <2>5, ReaderMild, Zenon
<1> QED
  BY <1>3, <1>4, Zenon

LEMMA ReleaseFlagKeeps ==
  ASSUME ChInv, NEW r \in Receivers, ReleaseFlag(r) PROVE ChInv'
<1> DEFINE e == [p[r] EXCEPT !.pc = "rel_cas"]
<1>0. /\ ChTypes /\ r \in Procs /\ p[r] \in Locals /\ p[r].pc = "rel_flag" /\ OnlyFlag
      /\ "rel_cas" \in Labels /\ p[r].cur \in Nat /\ Set(r, e) /\ Free(Slot(p[r].cur), free_flag(r))
  BY Typed, Zenon DEF ChInv, ChTypes, Procs, ReleaseFlag, At, OnlyFlag, Labels, Reading, Goto,
     Free
<1>1. Slot(p[r].cur) \in Slots /\ free_flag(r) \in Int /\ free_flag(r) >= 0
  BY <1>0, SlotIn, AdvancedTyped
<1>2. /\ e \in Locals /\ e.pc = "rel_cas" /\ e.cur = p[r].cur /\ e.frag = p[r].frag
      /\ e.bit = p[r].bit /\ e.todo = p[r].todo
  BY <1>0, <1>1, Zenon DEF Locals
<1> HIDE DEF e
<1>3. /\ ChTypes' /\ Mild(r) /\ Loses(r) /\ p'[r] = e
  BY <1>0, <1>1, <1>2, FreeMild, Zenon
<1>4. p[r].pc \in Reading /\ p[r].pc \in Taken /\ e.pc \in Reading /\ e.pc \in Taken \ {"copy"} /\ rc' = rc
  BY <1>0, <1>2, Zenon DEF Reading, Taken, OnlyFlag
<1>5. ASSUME ~split, r \notin off PROVE RecvInv(r)'
  BY <1>2, <1>3, <1>4, <1>5, TakenKept, Zenon
<1> QED
  BY <1>2, <1>3, <1>4, <1>5, ReaderMild, Zenon

LEMMA ReleaseCasKeeps ==
  ASSUME NoWrap, ChInv, NEW r \in Receivers, ReleaseCas(r) PROVE ChInv'
<1> DEFINE s == Slot(p[r].cur)
           e == [p[r] EXCEPT !.pc = "rel", !.w = NoWord]
<1>0. /\ ChTypes /\ r \in Procs /\ p[r] \in Locals /\ p[r].pc = "rel_cas" /\ OnlyWord
      /\ "rel" \in Labels /\ p[r].cur \in Nat /\ p[r].bit \in Nat /\ NoWord \in Words
  BY Typed, IdleTyped, Zenon DEF ChInv, ChTypes, Procs, ReleaseCas, At, OnlyWord, Labels,
     Reading
<1>1. s \in Slots /\ claims \in Nat
  BY <1>0, SlotIn DEF ChTypes
<1>2. p[r].pc \in Reading /\ p[r].pc \in Taken /\ Linked(r) /\ p[r].bit \in Bits
  <2>1. p[r].pc \in Reading /\ p[r].pc \in Taken /\ Linked(r)
    BY <1>0, Zenon DEF Reading, Taken, Linked
  <2> QED
    BY <1>0, <2>1, Zenon DEF ChInv, BitInv, ChTypes
<1>3. CASE rc[s] = p[r].w
  <2>1. Drop(s, p[r].bit) /\ Set(r, Advanced(r))
    BY <1>3, Zenon DEF ReleaseCas, Drop, Dropped
  <2>2. /\ Advanced(r) \in Locals /\ Advanced(r).pc = "open" /\ Advanced(r).bit = p[r].bit
        /\ Advanced(r).todo = p[r].todo /\ Advanced(r).cur = Up(p[r].cur)
    BY <1>0, AdvancedTyped, Zenon
  <2>3. /\ ChTypes' /\ Mild(r) /\ p'[r] = Advanced(r) /\ rc'[s].m = rc[s].m \ {p[r].bit}
        /\ \A t \in Slots : t # s => rc'[t] = rc[t]
    BY <1>0, <1>1, <2>1, <2>2, DropMild
  <2>4. Loses(r)
    BY <1>2, <2>3, Zenon DEF Loses
  <2>5. ASSUME ~split, r \notin off PROVE RecvInv(r)'
    <3>1. PICK c \in Nat : c = p[r].cur /\ Owed(r, c)
      BY <1>2, <2>5, Reads, Zenon
    <3>2. c < claims /\ claims <= MaxPush /\ claims <= c + RING_SIZE
      BY <1>2, <2>5, <3>1, Reads, Zenon DEF Holds, Good, CursorInv, Owed
    <3>3. c + 1 \in Nat
      BY <3>1
    <3>4. Up(c) = c + 1 /\ c <= c + 1 /\ c + 1 <= claims
      <4>1. c < MaxPush /\ c <= c + 1 /\ c + 1 <= claims
        BY <1>1, <3>1, <3>2, ConstantsAssumption
      <4> QED
        BY <3>1, <4>1, UpIsNext, Zenon
    <3>5. ASSUME NEW q \in c + 1 .. claims - 1 PROVE rc'[Slot(q)] = rc[Slot(q)]
      <4>1. q \in Nat /\ c < q /\ q < c + RING_SIZE /\ Slot(q) \in Slots
        BY <1>1, <3>2, <3>3, SlotIn, ConstantsAssumption
      <4>2. Slot(q) # s
        BY <3>1, <4>1, SlotApart
      <4> QED
        BY <2>3, <4>1, <4>2, Zenon
    <3>6. Owed(r, c + 1)'
      BY <1>0, <1>2, <2>2, <2>3, <3>1, <3>3, <3>4, <3>5, OwedLater
    <3> QED
      BY <2>2, <2>3, <3>1, <3>3, <3>4, <3>6, OpenInv, Zenon
  <2>6. p'[r].pc \in Reading
    BY <2>2, <2>3, Zenon DEF Reading
  <2> QED
    BY <1>2, <2>2, <2>3, <2>4, <2>5, <2>6, ReaderMild, Zenon
<1>4. CASE rc[s] # p[r].w
  <2>1. Set(r, e) /\ OnlyLocals
    BY <1>0, <1>4, Zenon DEF ReleaseCas, OnlyLocals, OnlyWord, ring
  <2>2. /\ e \in Locals /\ e.pc = "rel" /\ e.cur = p[r].cur /\ e.frag = p[r].frag
        /\ e.bit = p[r].bit /\ e.todo = p[r].todo
    BY <1>0, Zenon DEF Locals
  <2> HIDE DEF e
  <2>3. /\ ChTypes' /\ Mild(r) /\ Loses(r) /\ p'[r] = e /\ rc' = rc
    BY <1>0, <2>1, <2>2, Quiet, Zenon
  <2>4. e.pc \in Reading /\ e.pc \in Taken \ {"copy"}
    BY <2>2, Zenon DEF Reading, Taken
  <2>5. ASSUME ~split, r \notin off PROVE RecvInv(r)'
    BY <1>2, <2>2, <2>3, <2>4, <2>5, TakenKept, Zenon
  <2> QED
    BY <1>2, <2>2, <2>3, <2>4, <2>5, ReaderMild, Zenon
<1> QED
  BY <1>3, <1>4, Zenon

\* A receiver that leaves, or is killed.
LEMMA LeaveKeeps ==
  ASSUME ChInv, NEW r \in Receivers, Disconnect(r) \/ Kill(r) PROVE ChInv'
<1> DEFINE k == [Idle EXCEPT !.pc = "dead", !.bit = p[r].bit]
<1>0. /\ ChTypes /\ BitInv /\ TodoInv /\ WordInv /\ r \in Procs /\ p[r].pc \in Reading
      /\ "dead" \in Labels /\ p[r].bit \in Nat
  <2>1. p[r].pc \in Reading
    BY Zenon DEF Disconnect, Kill, At, Reading
  <2>2. ChTypes /\ BitInv /\ TodoInv /\ WordInv /\ r \in Procs /\ "dead" \in Labels
    BY Zenon DEF ChInv, Procs, Labels
  <2> QED
    BY <2>1, <2>2, Typed, Zenon
<1>1. /\ since' = since /\ off' = off \ {r} /\ UNCHANGED <<write_cursor, ring, claims, split>>
  BY Zenon DEF Disconnect, Kill
<1>2. /\ Idle \in Locals /\ Idle.pc = "idle" /\ Idle.todo = {}
      /\ k \in Locals /\ k.pc = "dead" /\ k.todo = {} /\ k.bit = p[r].bit
  BY IdleTyped, <1>0, Zenon DEF Idle, Locals
<1>3. \/ Set(r, Idle) /\ connections' = connections \ {p[r].bit}
      \/ Set(r, k) /\ connections' = connections
  BY Zenon DEF Disconnect, Kill
<1> HIDE DEF k
<1>4. PICK e \in {Idle, k} :
        /\ Set(r, e)
        /\ (e = Idle /\ connections' = connections \ {p[r].bit}) \/ (e = k /\ connections' = connections)
  BY <1>3, Zenon
<1>c. connections' \in SUBSET Bits
  BY <1>0, <1>3, Zenon DEF ChTypes
<1>5. e \in Locals /\ e.pc \in {"idle", "dead"} /\ e.todo = {}
  BY <1>2, <1>4, Zenon
<1>6. /\ Calm /\ p' \in [Procs -> Locals] /\ p'[r] = e /\ \A x \in Receivers : x # r => p'[x] = p[x]
  BY <1>0, <1>1, <1>4, <1>5, CalmSet, Zenon
<1>7. ChTypes' /\ TodoInv'
  BY <1>0, <1>1, <1>c, <1>5, <1>6, Zenon DEF ChTypes, TodoInv, Calm
<1>8. Linked(r)
  BY <1>0, Zenon DEF Linked, Reading
<1>9. BitInv'
  BY <1>0, <1>2, <1>6, <1>8, CalmBits, <1>4 DEF Linked, BitInv
<1>10. e.pc \notin Connecting \cup Reading \cup {"bit", "rm_check", "rm_cas"}
  BY <1>5, Zenon DEF Connecting, Scanning, Reading, Dropping
<1>11. SameDrops
  BY <1>6, <1>10, Zenon DEF SameDrops
<1>12. ASSUME ~split PROVE Settled
  <2>0. SinceInv
    BY <1>12, Zenon DEF ChInv, Good
  <2>1. \A b \in Bits : since'[b] <= write_cursor
    BY <1>1, <2>0, Zenon DEF SinceInv
  <2>3. \A x \in Receivers : p'[x].pc \in Connecting \cup {"bit"} => p'[x].start <= write_cursor
    BY <1>6, <1>10, <2>0, Zenon DEF SinceInv
  <2>4. ASSUME NEW x \in Receivers \ off' PROVE RecvInv(x)'
    <3>1. CASE x # r
      <4>1. RecvInv(x)
        BY <1>1, <1>12, <2>4, <3>1, Zenon DEF ChInv, Good
      <4> QED
        BY <1>0, <1>1, <1>6, <1>7, <3>1, <4>1, CalmOther, Zenon
    <3> QED
      BY <1>6, <1>10, <3>1, Zenon DEF RecvInv
  <2> QED
    BY <2>1, <2>3, <2>4, Zenon DEF Settled
<1> QED
  BY <1>6, <1>7, <1>9, <1>11, <1>12, CalmKeeps, Zenon
=============================================================================
