---------------------------- MODULE ChannelInv -----------------------------
(***************************************************************************)
(* The multi-writer ring for every number of writers, receivers, bits and  *)
(* slots: the inductive invariant, and what a step must do to keep it.     *)
(***************************************************************************)
EXTENDS Channel, TLAPS

\* Fewer claims than half the cursor's range: cursors compare as numbers.
NoWrap == 2 * MaxPush + 1 < CursorMod

-----------------------------------------------------------------------------
(* The inductive invariant.                                                *)

Labels == {"idle", "ct", "rc", "flag", "cas", "advance", "write", "marks", "stale", "bit",
           "since", "scan", "cursor", "walk", "dead"} \cup Dropping \cup Reading
Claimed == {"advance", "write", "marks", "stale"} \cup Dropping
Scanning == {"since", "scan"} \cup Dropping
Connecting == Scanning \cup {"cursor", "walk"}
Taken == {"copy", "rel", "rel_flag", "rel_cas"}

Words == [g : Nat, m : SUBSET Bits]
Frags == {Torn} \cup (Writers \X Nat)
Locals == [pc : Labels, cc : SUBSET Bits, pos : Nat, w : Words, bit : Nat, todo : SUBSET Nat,
           start : Nat, cur : Nat, frag : Frags]

ChTypes ==
  /\ connections \in SUBSET Bits /\ write_cursor \in Nat /\ claims \in Nat
  /\ rc \in [Slots -> Words] /\ f_ct \in [Slots -> Int]
  /\ data \in [Slots -> Frags] /\ since \in [Bits -> Nat]
  /\ p \in [Procs -> Locals] /\ split \in BOOLEAN

\* A connected receiver has a bit of its own.
Linked(r) == p[r].pc \notin {"idle", "bit"}
BitInv == \A r \in Receivers : Linked(r) =>
            /\ p[r].bit \in connections
            /\ \A x \in Receivers \ {r} : Linked(x) => p[x].bit # p[r].bit

\* What a receiver goes through is slots.
TodoInv == \A r \in Receivers : p[r].todo \in SUBSET Slots

\* The words at hand: a claim is made over no mark of a receiver the writer
\* has seen, and a word loaded is the slot's or an older one.
WordInv ==
  /\ \A w \in Writers : p[w].pc \in {"flag", "cas"} => p[w].w.m \cap p[w].cc = {}
  /\ \A r \in Receivers : p[r].pc \in {"rm_check", "rm_cas"} => p[r].w.g <= rc[Slot(p[r].pos)].g

\* At most one claim is ahead of the cursor, and the slots of the writers that
\* hold one are different, and not claimed again.
CursorInv ==
  /\ write_cursor <= claims /\ claims <= MaxPush
  /\ claims = write_cursor \/ \E w \in Writers : At(w, "advance")
  /\ \A w \in Writers : At(w, "advance") => p[w].pos = write_cursor /\ claims = write_cursor + 1
ClaimInv ==
  \A w \in Writers : p[w].pc \in Claimed =>
    /\ p[w].pos < claims /\ claims <= p[w].pos + RING_SIZE
    /\ \A v \in Writers \ {w} : p[v].pc \in Claimed => Slot(p[v].pos) # Slot(p[w].pos)

\* A commit flag is of a position claimed, and vouches for the data.
FlagInv ==
  /\ \A s \in Slots : f_ct[s] < 0 =>
       /\ PosOf(f_ct[s]) < claims /\ Slot(PosOf(f_ct[s])) = s
       /\ claims <= PosOf(f_ct[s]) + RING_SIZE => data[s] \in Writers \X {PosOf(f_ct[s])}
  /\ \A w \in Writers : p[w].pc \in {"advance", "write"} => f_ct[Slot(p[w].pos)] # Commit(p[w].pos)

SinceInv ==
  /\ \A b \in Bits : since[b] <= write_cursor
  /\ \A r \in Receivers : p[r].pc \in Connecting \cup {"bit"} => p[r].start <= write_cursor

\* A writer is going to drop b from the slot it has committed.
Sheds(x, b) == /\ p[x].pc \in {"stale"} \cup Dropping
               /\ b \in p[x].todo \/ (p[x].pc \in Dropping /\ b = p[x].bit)

\* Every position from c on is marked for r, and nobody is dropping the mark.
Owed(r, c) ==
  /\ since[p[r].bit] <= c /\ c <= claims /\ claims <= c + RING_SIZE
  /\ \A q \in c .. claims - 1 : p[r].bit \in rc[Slot(q)].m
  /\ \A x \in Writers : Sheds(x, p[r].bit) => p[x].pos < c

\* r connecting, its bit claimed when c slots had been: what was pushed from its
\* start to c is not marked for it; no flag from before c is left in a slot
\* claimed since; the mark it is dropping is an old one; and the walk back
\* stops at c.
Clear(r, c) == \A q \in p[r].start .. c - 1 : claims <= q + RING_SIZE => p[r].bit \notin rc[Slot(q)].m
Fresh(r, c) == \A q \in c .. claims - 1 : f_ct[Slot(q)] < 0 => PosOf(f_ct[Slot(q)]) = q
Drops(r, c) ==
  /\ p[r].pc \in Dropping => p[r].pos < p[r].start
  /\ p[r].pc = "rm_cas" /\ rc[Slot(p[r].pos)] = p[r].w => \A q \in c .. claims - 1 : Slot(q) # Slot(p[r].pos)
Walks(r, c) ==
  p[r].pc = "walk" => /\ c <= p[r].cur /\ p[r].cur <= write_cursor
                      /\ claims <= p[r].start + RING_SIZE \/ claims <= p[r].cur + p[r].pos
Conn(r, c) ==
  /\ Owed(r, c) /\ p[r].start <= c /\ Clear(r, c)
  /\ (p[r].pc \in Scanning => Fresh(r, c)) /\ Drops(r, c) /\ Walks(r, c)

\* r connected: what it has taken from its slot is still there.
Holds(r) ==
  /\ p[r].pc \in Taken =>
       /\ p[r].cur < claims /\ p[r].frag \in Writers \X {p[r].cur}
       /\ \A w \in Writers : p[w].pc \in {"advance", "write"} => p[w].pos # p[r].cur
  /\ p[r].pc = "copy" => p[r].frag = data[Slot(p[r].cur)]

RecvInv(r) ==
  /\ p[r].pc \in Connecting => \E c \in Nat : Conn(r, c)
  /\ p[r].pc \in Reading => Holds(r) /\ \E c \in Nat : c = p[r].cur /\ Owed(r, c)

Good == CursorInv /\ ClaimInv /\ FlagInv /\ SinceInv /\ \A r \in Receivers \ off : RecvInv(r)
ChInv == ChTypes /\ BitInv /\ TodoInv /\ WordInv /\ (~split => Good)

-----------------------------------------------------------------------------
(* Positions, slots and cursors.                                           *)

LEMMA ModIn == \A n \in Nat \ {0}, a \in Int : a % n \in 0 .. n - 1
  OBVIOUS
LEMMA ModId == \A n \in Nat \ {0}, a \in Nat : a < n => a % n = a
  OBVIOUS
LEMMA ModNeg == \A n \in Nat \ {0}, a \in Int : a < 0 /\ 0 <= a + n => a % n = a + n
  OBVIOUS
LEMMA DivRem == \A n \in Nat \ {0}, a \in Int : a \div n \in Int /\ a = (n * (a \div n)) + (a % n)
  OBVIOUS
LEMMA MultGap == \A n \in Nat \ {0}, i, j \in Int : i < j => n * i + n <= n * j
  OBVIOUS

LEMMA SlotIn == \A q \in Int : Slot(q) \in Slots
  BY ModIn, ConstantsAssumption, Zenon DEF Slot, Slots

\* Positions less than a lap apart have different slots.
LEMMA SlotApart ==
  ASSUME NEW a \in Int, NEW b \in Int, a < b, b < a + RING_SIZE
  PROVE  Slot(a) # Slot(b)
<1> DEFINE n == RING_SIZE
           i == a \div n
           j == b \div n
<1>1. i \in Int /\ a = (n * i) + (a % n) /\ j \in Int /\ b = (n * j) + (b % n)
  BY DivRem, ConstantsAssumption, Zenon
<1>2. a % n \in Int /\ b % n \in Int /\ n \in Nat \ {0}
  BY ModIn, ConstantsAssumption
<1>3. ASSUME a % n = b % n PROVE FALSE
  <2> HIDE DEF i, j
  <2>1. n * i \in Int /\ n * j \in Int
    BY <1>1, <1>2
  <2>2. n * i < n * j /\ n * j < n * i + n
    BY <1>1, <1>2, <1>3, <2>1
  <2>3. (i < j => n * i + n <= n * j) /\ (j < i => n * j + n <= n * i)
    BY <1>1, <1>2, MultGap, Zenon
  <2> QED
    BY <1>1, <1>2, <2>1, <2>2, <2>3
<1> QED
  BY <1>3, Zenon DEF Slot

\* Two positions of the same slot that no claim has passed are the same.
LEMMA SlotSame ==
  ASSUME NEW a \in Nat, NEW b \in Nat, NEW k \in Nat, a < k, b < k,
         k <= a + RING_SIZE, k <= b + RING_SIZE, Slot(a) = Slot(b)
  PROVE  a = b
BY SlotApart, ConstantsAssumption

\* Without wrapping, cursors compare as numbers.
LEMMA AfterIsLeq ==
  ASSUME NoWrap, NEW a \in 0 .. MaxPush, NEW b \in 0 .. MaxPush
  PROVE  AtOrAfter(a, b) <=> b <= a
<1>1. CASE b <= a
  <2>1. (a - b) % CursorMod = a - b
    BY <1>1, ModId, ConstantsAssumption DEF NoWrap
  <2> QED
    BY <1>1, <2>1, ConstantsAssumption DEF AtOrAfter, NoWrap
<1>2. CASE a < b
  <2>1. a - b \in Int /\ a - b < 0 /\ 0 <= (a - b) + CursorMod
    BY <1>2, ConstantsAssumption DEF NoWrap
  <2>2. (a - b) % CursorMod = (a - b) + CursorMod
    BY <2>1, ModNeg, ConstantsAssumption
  <2> QED
    BY <1>2, <2>1, <2>2, ConstantsAssumption DEF AtOrAfter, NoWrap
<1> QED
  BY <1>1, <1>2, ConstantsAssumption

LEMMA Unwrapped ==
  ASSUME NoWrap, NEW a \in Nat, NEW b \in Nat, b <= a, a <= MaxPush
  PROVE  (a - b) % CursorMod = a - b
<1>1. a - b \in Nat /\ a - b < CursorMod /\ CursorMod \in Nat \ {0}
  BY ConstantsAssumption DEF NoWrap
<1> QED
  BY <1>1, ModId, Zenon

LEMMA UpIsNext ==
  ASSUME NoWrap, NEW a \in Nat, a < MaxPush
  PROVE  Up(a) = a + 1
<1>1. a + 1 \in Nat /\ a + 1 < CursorMod /\ CursorMod \in Nat \ {0}
  BY ConstantsAssumption DEF NoWrap
<1> QED
  BY <1>1, ModId, Zenon DEF Up

-----------------------------------------------------------------------------
(* What the steps of others leave to a receiver.                           *)

\* A function changed at one argument.
LEMMA Updated ==
  ASSUME NEW D, NEW R, NEW f \in [D -> R], NEW t \in D, NEW v \in R,
         NEW g, g = [f EXCEPT ![t] = v]
  PROVE  g \in [D -> R] /\ g[t] = v /\ \A u \in D : u # t => g[u] = f[u]
BY Zenon

\* No claim is made; marks and flags go, but no mark from c on of r's.
Frame(r, c) ==
  /\ p'[r] = p[r] /\ claims' = claims /\ write_cursor <= write_cursor'
  /\ since'[p[r].bit] = since[p[r].bit]
  /\ \A s \in Slots : f_ct'[s] < 0 =>
       \/ f_ct'[s] = f_ct[s]
       \/ /\ PosOf(f_ct'[s]) < claims /\ claims <= PosOf(f_ct'[s]) + RING_SIZE
          /\ Slot(PosOf(f_ct'[s])) = s
  /\ \A s \in Slots : rc'[s] = rc[s] \/ (rc[s].g < rc'[s].g /\ rc'[s].m \subseteq rc[s].m)
  /\ \A q \in c .. claims - 1 : p[r].bit \in rc[Slot(q)].m => p[r].bit \in rc'[Slot(q)].m
  /\ \A x \in Writers : Sheds(x, p[r].bit)' => p'[x].pos < c

LEMMA OwedKept ==
  ASSUME ChTypes, NEW r \in Receivers, NEW c \in Nat, Owed(r, c), Frame(r, c)
  PROVE  Owed(r, c)'
BY Zenon DEF Frame, Owed, Sheds

\* Positions, bits and words have their types.
LEMMA Typed ==
  ASSUME ChTypes, NEW x \in Procs
  PROVE  /\ p[x].pc \in Labels /\ p[x].pos \in Nat /\ p[x].bit \in Nat /\ p[x].start \in Nat
         /\ p[x].cur \in Nat /\ p[x].w \in Words /\ p[x].cc \in SUBSET Bits
         /\ p[x].todo \in SUBSET Nat /\ p[x].frag \in Frags
BY Zenon DEF ChTypes, Locals

LEMMA ConnKept ==
  ASSUME ChTypes, ChTypes', WordInv, NEW r \in Receivers, NEW c \in Nat, Conn(r, c), Frame(r, c)
  PROVE  Conn(r, c)'
<1>0. /\ p'[r] = p[r] /\ claims' = claims /\ write_cursor <= write_cursor'
      /\ claims \in Nat /\ write_cursor \in Nat /\ write_cursor' \in Nat /\ r \in Procs
  BY Zenon DEF Frame, ChTypes, Procs
<1>p. p[r].start \in Nat /\ p[r].pos \in Nat /\ p[r].cur \in Nat /\ p[r].w \in Words
  BY <1>0, Typed, Zenon
<1>1. Owed(r, c)'
  BY OwedKept, Zenon DEF Conn
<1>2. p'[r].start <= c
  BY <1>0, Zenon DEF Conn
<1>3. Clear(r, c)'
  BY <1>0, <1>p, SlotIn DEF Clear, Conn, Frame
<1>4. p'[r].pc \in Scanning => Fresh(r, c)'
  <2> SUFFICES ASSUME p[r].pc \in Scanning, NEW q \in c .. claims - 1, f_ct'[Slot(q)] < 0
               PROVE  PosOf(f_ct'[Slot(q)]) = q
    BY <1>0, Zenon DEF Fresh
  <2>1. f_ct[Slot(q)] < 0 => PosOf(f_ct[Slot(q)]) = q
    BY Zenon DEF Conn, Fresh
  <2>2. q \in Nat /\ Slot(q) \in Slots /\ q < claims /\ claims <= q + RING_SIZE
    BY SlotIn, <1>0, ConstantsAssumption DEF Conn, Owed
  <2>3. f_ct'[Slot(q)] \in Int /\ PosOf(f_ct'[Slot(q)]) \in Nat
    BY <2>2 DEF ChTypes, PosOf
  <2>4. CASE f_ct'[Slot(q)] = f_ct[Slot(q)]
    BY <2>1, <2>4, Zenon
  <2>5. CASE f_ct'[Slot(q)] # f_ct[Slot(q)]
    BY <2>2, <2>5, <1>0, <2>3, SlotSame, Zenon DEF Frame
  <2> QED
    BY <2>4, <2>5, Zenon
<1>5. Drops(r, c)'
  <2>1. p'[r].pc \in Dropping => p'[r].pos < p'[r].start
    BY <1>0, Zenon DEF Conn, Drops
  <2>2. ASSUME p[r].pc = "rm_cas", rc'[Slot(p[r].pos)] = p[r].w
        PROVE  \A q \in c .. claims - 1 : Slot(q) # Slot(p[r].pos)
    <3>1. p[r].w.g <= rc[Slot(p[r].pos)].g
      BY <2>2, Zenon DEF WordInv
    <3>2. Slot(p[r].pos) \in Slots
      BY <1>p, SlotIn
    <3>3. rc[Slot(p[r].pos)].g \in Nat /\ p[r].w.g \in Nat
      BY <1>p, <3>2, Zenon DEF ChTypes, Words
    <3>4. rc'[Slot(p[r].pos)] = rc[Slot(p[r].pos)]
      BY <2>2, <3>1, <3>2, <3>3 DEF Frame
    <3> QED
      BY <2>2, <3>4, Zenon DEF Conn, Drops
  <2> QED
    BY <1>0, <2>1, <2>2, Zenon DEF Drops
<1>6. Walks(r, c)'
  BY <1>0, <1>p DEF Conn, Walks
<1> QED
  BY <1>1, <1>2, <1>3, <1>4, <1>5, <1>6, Zenon DEF Conn

LEMMA HoldsKept ==
  ASSUME ChTypes, NEW r \in Receivers, p'[r] = p[r], claims' = claims, Holds(r),
         p[r].pc = "copy" => data'[Slot(p[r].cur)] = data[Slot(p[r].cur)],
         \A w \in Writers : p'[w].pc \in {"advance", "write"} =>
            p[w].pc \in {"advance", "write"} /\ p'[w].pos = p[w].pos
  PROVE  Holds(r)'
BY Zenon DEF Holds

-----------------------------------------------------------------------------
(* Steps that make no claim and commit nothing.                            *)

Mild(x) ==
  /\ \A y \in Procs : y # x => p'[y] = p[y]
  /\ UNCHANGED <<connections, write_cursor, data, since, claims, off, split>>
  /\ \A s \in Slots : f_ct'[s] = f_ct[s] \/ f_ct'[s] >= 0
  /\ \A s \in Slots : rc'[s] = rc[s] \/ (rc[s].g < rc'[s].g /\ rc'[s].m \subseteq rc[s].m)

\* A mark is lost to the receiver it is for, or to a writer that sheds it.
Loses(x) ==
  \A s \in Slots, b \in Bits : b \in rc[s].m =>
    \/ b \in rc'[s].m
    \/ x \in Writers /\ s = Slot(p[x].pos) /\ Sheds(x, b)
    \/ x \in Receivers /\ Linked(x) /\ b = p[x].bit

\* A writer sheds marks from before the receiver's start only.
Stales(x) ==
  x \in Writers => \A b \in Bits : Sheds(x, b)' =>
    (p'[x].pos = p[x].pos /\ Sheds(x, b)) \/ p'[x].pos < since[b]

LEMMA MildFrame ==
  ASSUME ChTypes, ChTypes', ClaimInv, NEW x \in Procs, Mild(x),
         NEW r \in Receivers, r # x, p[r].bit \in Bits, NEW c \in Nat, Owed(r, c),
         x \in Receivers /\ Linked(x) => p[x].bit # p[r].bit, Loses(x), Stales(x)
  PROVE  Frame(r, c)
<1>0. r \in Procs /\ write_cursor \in Nat /\ claims \in Nat /\ since[p[r].bit] \in Nat
  BY Zenon DEF Procs, ChTypes
<1>1. /\ p'[r] = p[r] /\ claims' = claims /\ write_cursor' = write_cursor /\ since' = since
      /\ write_cursor <= write_cursor' /\ claims \in Nat
  BY <1>0 DEF Mild
<1>2. \A s \in Slots : f_ct'[s] < 0 => f_ct'[s] = f_ct[s]
  BY DEF Mild, ChTypes
<1>3. ASSUME NEW q \in c .. claims - 1, p[r].bit \in rc[Slot(q)].m PROVE p[r].bit \in rc'[Slot(q)].m
  <2>1. q \in Nat /\ Slot(q) \in Slots /\ c <= q /\ q < claims /\ claims <= q + RING_SIZE
    BY <1>1, SlotIn, ConstantsAssumption DEF Owed
  <2>2. ASSUME x \in Writers, Slot(q) = Slot(p[x].pos), Sheds(x, p[r].bit) PROVE FALSE
    BY <2>2, Typed, <1>1, <2>1, SlotSame DEF Sheds, Claimed, ClaimInv, Owed
  <2> QED
    BY <1>3, <2>1, <2>2, Zenon DEF Loses
<1>4. ASSUME NEW y \in Writers, Sheds(y, p[r].bit)' PROVE p'[y].pos < c
  <2>1. y \in Procs /\ p[y].pos \in Nat
    BY Typed, Zenon DEF Procs
  <2>2. CASE y # x
    BY <2>1, <2>2, <1>1, <1>4, Zenon DEF Mild, Sheds, Owed
  <2>3. CASE y = x /\ p'[x].pos < since[p[r].bit]
    BY Typed, <1>0, <2>3 DEF ChTypes, Locals, Owed
  <2>4. CASE y = x /\ p'[x].pos = p[x].pos /\ Sheds(x, p[r].bit)
    BY <2>4, Zenon DEF Owed
  <2>5. y = x => Sheds(x, p[r].bit)'
    BY <1>4, Zenon
  <2> QED
    BY <2>2, <2>3, <2>4, <2>5, <1>1, Zenon DEF Stales, Sheds
<1>5. \A s \in Slots : rc'[s] = rc[s] \/ (rc[s].g < rc'[s].g /\ rc'[s].m \subseteq rc[s].m)
  BY Zenon DEF Mild
<1> QED
  BY <1>1, <1>2, <1>3, <1>4, <1>5, Zenon DEF Frame

\* What holds of every receiver but the one that moves.
LEMMA OthersKept ==
  ASSUME ChTypes, ChTypes', BitInv, WordInv, Good, NEW x \in Procs, Mild(x),
         NEW r \in Receivers \ off, r # x, Loses(x), Stales(x),
         x \in Writers => p'[x].pc \notin {"advance", "write"}
  PROVE  RecvInv(r)'
<1>0. r \in Procs /\ p'[r] = p[r]
  BY Zenon DEF Mild, Procs
<1> SUFFICES ASSUME p[r].pc \in Connecting \cup Reading PROVE RecvInv(r)'
  BY <1>0, Zenon DEF RecvInv
<1>1. Linked(r)
  BY Zenon DEF Linked, Connecting, Scanning, Reading, Dropping
<1>2. p[r].bit \in Bits
  BY <1>1, Zenon DEF BitInv, ChTypes
<1>3. ASSUME NEW c \in Nat, Owed(r, c) PROVE Frame(r, c)
  BY <1>1, <1>2, <1>3, MildFrame, Zenon DEF BitInv, Good
<1>4. RecvInv(r)
  BY Zenon DEF Good
<1>5. CASE p[r].pc \in Connecting
  <2>1. PICK c \in Nat : Conn(r, c)
    BY <1>4, <1>5, Zenon DEF RecvInv
  <2>2. Conn(r, c)'
    BY <1>3, <2>1, ConnKept, Zenon DEF Conn
  <2>3. p'[r].pc \notin Reading
    BY <1>0, <1>5, Zenon DEF Connecting, Scanning, Reading, Dropping
  <2> QED
    BY <2>2, <2>3, Zenon DEF RecvInv
<1>6. CASE p[r].pc \in Reading
  <2>1. Holds(r) /\ \E c \in Nat : c = p[r].cur /\ Owed(r, c)
    BY <1>4, <1>6, Zenon DEF RecvInv
  <2> PICK c \in Nat : c = p[r].cur /\ Owed(r, c)
    BY <2>1, Zenon
  <2>2. Frame(r, c)
    BY <1>3, Zenon
  <2>6. Owed(r, c)' /\ c = p'[r].cur
    BY <1>0, <2>2, OwedKept, Zenon
  <2>3. \A w \in Writers : p'[w].pc \in {"advance", "write"} => p'[w] = p[w]
    BY Zenon DEF Mild, Procs
  <2>7. data' = data /\ claims' = claims
    BY Zenon DEF Mild
  <2>4. Holds(r)'
    BY <1>0, <2>1, <2>3, <2>7, HoldsKept, Zenon
  <2>5. p'[r].pc \notin Connecting
    BY <1>0, <1>6, Zenon DEF Connecting, Scanning, Reading, Dropping
  <2> QED
    BY <2>4, <2>5, <2>6, Zenon DEF RecvInv
<1> QED
  BY <1>5, <1>6, Zenon

\* The flags and the words of a mild step.
LEMMA MildFlags ==
  ASSUME ChTypes, ChTypes', FlagInv, NEW x \in Procs, Mild(x),
         x \in Writers => p'[x].pc \notin {"advance", "write"}
  PROVE  FlagInv'
<1>1. claims' = claims /\ data' = data
  BY Zenon DEF Mild
<1>2. \A s \in Slots : f_ct'[s] \in Int /\ (f_ct'[s] < 0 => f_ct'[s] = f_ct[s])
  BY DEF Mild, ChTypes
<1>3. \A s \in Slots : f_ct'[s] < 0 =>
        /\ PosOf(f_ct'[s]) < claims' /\ Slot(PosOf(f_ct'[s])) = s
        /\ claims' <= PosOf(f_ct'[s]) + RING_SIZE => data'[s] \in Writers \X {PosOf(f_ct'[s])}
  BY <1>1, <1>2, Zenon DEF FlagInv
<1>4. ASSUME NEW w \in Writers, p'[w].pc \in {"advance", "write"}
      PROVE  f_ct'[Slot(p'[w].pos)] # Commit(p'[w].pos)
  BY <1>4, Typed, SlotIn, <1>2 DEF Mild, Procs, FlagInv, Commit
<1> QED
  BY <1>3, <1>4, Zenon DEF FlagInv

\* A word at hand stays as old as it was.
LEMMA WordsGrow ==
  ASSUME ChTypes, ChTypes', WordInv, NEW x \in Procs, Mild(x), NEW r \in Receivers, r # x,
         p'[r].pc \in {"rm_check", "rm_cas"}
  PROVE  p'[r].w.g <= rc'[Slot(p'[r].pos)].g
<1>1. r \in Procs /\ p'[r] = p[r]
  BY Zenon DEF Mild, Procs
<1>2. Slot(p[r].pos) \in Slots /\ p[r].w \in Words
  BY <1>1, Typed, SlotIn
<1>3. p[r].w.g <= rc[Slot(p[r].pos)].g
  BY <1>1, Zenon DEF WordInv
<1>4. p[r].w.g \in Nat /\ rc[Slot(p[r].pos)].g \in Nat /\ rc'[Slot(p[r].pos)].g \in Nat
  BY <1>2, Zenon DEF ChTypes, Words
<1>5. rc'[Slot(p[r].pos)] = rc[Slot(p[r].pos)] \/ rc[Slot(p[r].pos)].g < rc'[Slot(p[r].pos)].g
  BY <1>2, Zenon DEF Mild
<1> QED
  BY <1>1, <1>3, <1>4, <1>5

\* A mild step of a writer.
LEMMA WriterMild ==
  ASSUME ChInv, ChTypes', NEW w \in Writers, Mild(w), Loses(w), ~split => Stales(w),
         p[w].pc # "advance", p'[w].pc \notin {"advance", "write"},
         p'[w].pc \in Claimed => p[w].pc \in Claimed /\ p'[w].pos = p[w].pos,
         p'[w].pc \in {"flag", "cas"} => p'[w].w.m \cap p'[w].cc = {}
  PROVE  ChInv'
<1>0. /\ w \in Procs /\ ChTypes /\ BitInv /\ TodoInv /\ WordInv
      /\ \A y \in Procs : y # w => p'[y] = p[y]
      /\ \A r \in Receivers : r \in Procs /\ r # w /\ p'[r] = p[r]
      /\ \A v \in Writers : v \in Procs
  BY ConstantsAssumption, Zenon DEF ChInv, Mild, Procs
<1>1. /\ connections' = connections /\ write_cursor' = write_cursor /\ since' = since
      /\ claims' = claims /\ off' = off /\ split' = split
  BY Zenon DEF Mild
<1>2. BitInv' /\ TodoInv'
  BY <1>0, <1>1, Zenon DEF BitInv, TodoInv, Linked
<1>3. WordInv'
  BY <1>0, WordsGrow, Zenon DEF WordInv
<1>4. ASSUME ~split PROVE Good'
  <2>0. CursorInv /\ ClaimInv /\ FlagInv /\ SinceInv /\ Good
    BY <1>4, Zenon DEF ChInv, Good
  <2>1. CursorInv'
    BY <1>0, <1>1, <2>0, Zenon DEF At, CursorInv
  <2>2. ClaimInv'
    BY <1>0, <1>1, <2>0 DEF ClaimInv
  <2>3. FlagInv'
    BY <1>0, <2>0, MildFlags, Zenon
  <2>4. SinceInv'
    BY <1>0, <1>1, <2>0, Zenon DEF SinceInv
  <2>5. \A r \in Receivers \ off : RecvInv(r)'
    BY <1>0, <1>4, <2>0, OthersKept, Zenon
  <2> QED
    BY <1>1, <2>1, <2>2, <2>3, <2>4, <2>5, Zenon DEF Good
<1> QED
  BY <1>1, <1>2, <1>3, <1>4, Zenon DEF ChInv

\* A mild step of a receiver.
LEMMA ReceiverMild ==
  ASSUME ChInv, ChTypes', NEW r \in Receivers, Mild(r), Loses(r), p'[r].todo \in SUBSET Slots,
         Linked(r)' => Linked(r) /\ p'[r].bit = p[r].bit,
         p'[r].pc \in Connecting \cup {"bit"} =>
           p[r].pc \in Connecting \cup {"bit"} /\ p'[r].start = p[r].start,
         p'[r].pc \in {"rm_check", "rm_cas"} => p'[r].w.g <= rc'[Slot(p'[r].pos)].g,
         ~split /\ r \notin off => RecvInv(r)'
  PROVE  ChInv'
<1>0. /\ r \in Procs /\ ChTypes /\ BitInv /\ TodoInv /\ WordInv /\ r \notin Writers
      /\ \A y \in Procs : y # r => p'[y] = p[y]
      /\ \A w \in Writers : w \in Procs /\ p'[w] = p[w]
      /\ \A x \in Receivers : x \in Procs
  BY ConstantsAssumption, Zenon DEF ChInv, Mild, Procs
<1>1. /\ connections' = connections /\ write_cursor' = write_cursor /\ since' = since
      /\ claims' = claims /\ off' = off /\ split' = split
  BY Zenon DEF Mild
<1>2. BitInv'
  BY <1>0, <1>1 DEF Linked, BitInv
<1>t. TodoInv'
  BY <1>0, Zenon DEF TodoInv
<1>3. WordInv'
  BY <1>0, WordsGrow DEF WordInv
<1>4. ASSUME ~split PROVE Good'
  <2>0. CursorInv /\ ClaimInv /\ FlagInv /\ SinceInv /\ Good
    BY <1>4, Zenon DEF ChInv, Good
  <2>1. CursorInv'
    BY <1>0, <1>1, <2>0 DEF CursorInv, At
  <2>2. ClaimInv'
    BY <1>0, <1>1, <2>0, Zenon DEF ClaimInv
  <2>3. FlagInv'
    BY <1>0, <2>0, MildFlags, Zenon
  <2>4. SinceInv'
    BY <1>0, <1>1, <2>0, Zenon DEF SinceInv
  <2>5. Stales(r)
    BY <1>0, Zenon DEF Stales
  <2>6. \A x \in Receivers \ off : RecvInv(x)'
    BY <1>0, <1>4, <2>0, <2>5, OthersKept, Zenon
  <2> QED
    BY <1>1, <2>1, <2>2, <2>3, <2>4, <2>6, Zenon DEF Good
<1> QED
  BY <1>1, <1>2, <1>3, <1>4, <1>t, Zenon DEF ChInv

-----------------------------------------------------------------------------
(* Steps that change the locals of one endpoint only.                      *)

OnlyLocals == UNCHANGED <<connections, write_cursor, ring, since, hist>>
OnlyWord == UNCHANGED <<connections, write_cursor, f_ct, data, since, hist>>
OnlyFlag == UNCHANGED <<connections, write_cursor, rc, data, since, hist>>

LEMMA IdleTyped ==
  /\ Idle \in Locals /\ Idle.pc = "idle" /\ NoWord \in Words
<1>1. NoWord \in Words
  BY Zenon DEF NoWord, Words
<1> QED
  BY <1>1, Zenon DEF Idle, Locals, Labels, Frags, Dropping, Reading

LEMMA Quiet ==
  ASSUME ChTypes, NEW x \in Procs, NEW e \in Locals, Set(x, e),
         OnlyLocals
  PROVE  /\ ChTypes' /\ Mild(x) /\ Loses(x) /\ p'[x] = e /\ rc' = rc /\ f_ct' = f_ct
         /\ claims' = claims /\ since' = since /\ data' = data /\ write_cursor' = write_cursor
<1>1. /\ UNCHANGED <<connections, write_cursor, data, since, claims, off, split>>
      /\ rc' = rc /\ f_ct' = f_ct
      /\ claims' = claims /\ since' = since /\ data' = data /\ write_cursor' = write_cursor
  BY Zenon DEF ring, hist, OnlyLocals
<1>2. p \in [Procs -> Locals] /\ p' = [p EXCEPT ![x] = e]
  BY Zenon DEF ChTypes, Set
<1>3. p' \in [Procs -> Locals] /\ p'[x] = e /\ \A y \in Procs : y # x => p'[y] = p[y]
  BY <1>2, Updated, Zenon
<1>4. ChTypes'
  BY <1>1, <1>3, Zenon DEF ChTypes
<1> QED
  BY <1>1, <1>3, <1>4, Zenon DEF Mild, Loses

Shed(e, b) == /\ e.pc \in {"stale"} \cup Dropping
              /\ b \in e.todo \/ (e.pc \in Dropping /\ b = e.bit)

LEMMA WriterQuiet ==
  ASSUME ChInv, NEW w \in Writers, NEW e \in Locals, Set(w, e),
         OnlyLocals,
         p[w].pc # "advance", e.pc \notin {"advance", "write"},
         e.pc \in Claimed => p[w].pc \in Claimed /\ e.pos = p[w].pos,
         e.pc \in {"flag", "cas"} => e.w.m \cap e.cc = {},
         ~split => \A b \in Bits : Shed(e, b) => Sheds(w, b) \/ e.pos < since[b]
  PROVE  ChInv'
<1>1. ChTypes /\ w \in Procs
  BY Zenon DEF ChInv, Procs
<1>2. ChTypes' /\ Mild(w) /\ Loses(w) /\ p'[w] = e
  BY <1>1, Quiet, Zenon
<1>3. ASSUME ~split PROVE Stales(w)
  BY <1>2, <1>3, Zenon DEF Stales, Shed, Sheds, Claimed
<1> QED
  BY <1>2, <1>3, WriterMild, Zenon

-----------------------------------------------------------------------------
(* Dropping a mark, freeing a slot.                                        *)

\* The word of slot s with b dropped.
Dropped(s, b) == [g |-> rc[s].g + 1, m |-> rc[s].m \ {b}]
Drop(s, b) == rc' = [rc EXCEPT ![s] = Dropped(s, b)]
Free(s, v) == f_ct' = [f_ct EXCEPT ![s] = v]

LEMMA DropMild ==
  ASSUME ChTypes, NEW x \in Procs, NEW e \in Locals, Set(x, e), NEW s \in Slots, NEW b \in Nat,
         Drop(s, b),
         OnlyWord
  PROVE  /\ ChTypes' /\ Mild(x) /\ p'[x] = e
         /\ rc'[s].g = rc[s].g + 1 /\ rc'[s].m = rc[s].m \ {b}
         /\ \A t \in Slots : t # s => rc'[t] = rc[t]
<1>1. UNCHANGED <<connections, write_cursor, data, since, claims, off, split>> /\ f_ct' = f_ct
  BY Zenon DEF hist, OnlyWord
<1>2. p \in [Procs -> Locals] /\ p' = [p EXCEPT ![x] = e] /\ rc \in [Slots -> Words]
  BY Zenon DEF ChTypes, Set
<1>3. p' \in [Procs -> Locals] /\ p'[x] = e /\ \A y \in Procs : y # x => p'[y] = p[y]
  BY <1>2, Updated, Zenon
<1>4. /\ Dropped(s, b) \in Words /\ Dropped(s, b).g = rc[s].g + 1
      /\ Dropped(s, b).m = rc[s].m \ {b} /\ rc[s].g < Dropped(s, b).g
  BY <1>2 DEF Words, Dropped
<1>6. /\ rc' \in [Slots -> Words] /\ rc'[s] = Dropped(s, b)
      /\ \A t \in Slots : t # s => rc'[t] = rc[t]
  BY <1>2, <1>4, Updated, Zenon DEF Drop
<1>7. ChTypes'
  BY <1>1, <1>3, <1>6, Zenon DEF ChTypes
<1>8. \A t \in Slots : rc'[t] = rc[t] \/ (rc[t].g < rc'[t].g /\ rc'[t].m \subseteq rc[t].m)
  BY <1>4, <1>6, Zenon
<1> QED
  BY <1>1, <1>3, <1>4, <1>6, <1>7, <1>8, Zenon DEF Mild

LEMMA FreeMild ==
  ASSUME ChTypes, NEW x \in Procs, NEW e \in Locals, Set(x, e), NEW s \in Slots, NEW v \in Int,
         v = f_ct[s] \/ v >= 0, Free(s, v),
         OnlyFlag
  PROVE  /\ ChTypes' /\ Mild(x) /\ Loses(x) /\ p'[x] = e
<1>1. UNCHANGED <<connections, write_cursor, data, since, claims, off, split>> /\ rc' = rc
  BY Zenon DEF hist, OnlyFlag
<1>2. p \in [Procs -> Locals] /\ p' = [p EXCEPT ![x] = e] /\ f_ct \in [Slots -> Int]
  BY Zenon DEF ChTypes, Set
<1>3. p' \in [Procs -> Locals] /\ p'[x] = e /\ \A y \in Procs : y # x => p'[y] = p[y]
  BY <1>2, Updated, Zenon
<1>4. f_ct' \in [Slots -> Int] /\ f_ct'[s] = v /\ \A t \in Slots : t # s => f_ct'[t] = f_ct[t]
  BY <1>2, Updated, Zenon DEF Free
<1>5. ChTypes'
  BY <1>1, <1>3, <1>4, Zenon DEF ChTypes
<1>6. \A t \in Slots : f_ct'[t] = f_ct[t] \/ f_ct'[t] >= 0
  BY <1>4, Zenon
<1> QED
  BY <1>1, <1>3, <1>5, <1>6, Zenon DEF Mild, Loses

-----------------------------------------------------------------------------
(* Steps of a receiver that leave the ring and the writers alone.          *)

Calm == /\ UNCHANGED <<write_cursor, rc, f_ct, data, claims, split>>
        /\ \A w \in Writers : p'[w] = p[w]

\* A receiver the step does not touch.
LEMMA CalmOther ==
  ASSUME ChTypes, ChTypes', BitInv, WordInv, Calm, NEW x \in Receivers, p'[x] = p[x], RecvInv(x),
         Linked(x) => since'[p[x].bit] = since[p[x].bit]
  PROVE  RecvInv(x)'
<1> SUFFICES ASSUME p[x].pc \in Connecting \cup Reading PROVE RecvInv(x)'
  BY Zenon DEF RecvInv
<1>1. Linked(x)
  BY Zenon DEF Linked, Connecting, Scanning, Reading, Dropping
<1>2. /\ write_cursor' = write_cursor /\ rc' = rc /\ f_ct' = f_ct /\ data' = data /\ claims' = claims
      /\ write_cursor \in Nat /\ \A w \in Writers : p'[w] = p[w]
  BY Zenon DEF Calm, ChTypes
<1>3. ASSUME NEW c \in Nat, Owed(x, c) PROVE Frame(x, c)
  BY <1>2, <1>3, <1>1 DEF Owed, Sheds, Frame
<1>4. CASE p[x].pc \in Connecting
  <2>1. PICK c \in Nat : Conn(x, c)
    BY <1>4, Zenon DEF RecvInv
  <2>2. Conn(x, c)'
    BY <1>3, <2>1, ConnKept, Zenon DEF Conn
  <2>3. p'[x].pc \notin Reading
    BY <1>4, Zenon DEF Connecting, Scanning, Reading, Dropping
  <2> QED
    BY <2>2, <2>3, Zenon DEF RecvInv
<1>5. CASE p[x].pc \in Reading
  BY <1>5, <1>3, OwedKept, <1>2, HoldsKept, Zenon DEF RecvInv, Connecting, Scanning, Reading,
     Dropping
<1> QED
  BY <1>4, <1>5, Zenon

\* What the step has to see to.
Settled ==
  /\ \A b \in Bits : since'[b] <= write_cursor
  /\ \A x \in Receivers : p'[x].pc \in Connecting \cup {"bit"} => p'[x].start <= write_cursor
  /\ \A x \in Receivers \ off' : RecvInv(x)'
SameDrops == \A x \in Receivers : p'[x].pc \in {"rm_check", "rm_cas"} => p'[x] = p[x]

LEMMA CalmKeeps ==
  ASSUME ChInv, ChTypes', BitInv', TodoInv', Calm, SameDrops, ~split => Settled
  PROVE  ChInv'
<1>1. /\ write_cursor' = write_cursor /\ rc' = rc /\ f_ct' = f_ct /\ data' = data /\ claims' = claims
      /\ split' = split /\ \A w \in Writers : p'[w] = p[w]
  BY Zenon DEF Calm
<1>2. WordInv'
  BY <1>1, Zenon DEF ChInv, WordInv, SameDrops
<1>3. ASSUME ~split PROVE Good'
  <2>0. CursorInv /\ ClaimInv /\ FlagInv
    BY <1>3, Zenon DEF ChInv, Good
  <2>1. CursorInv'
    BY <1>1, <2>0, Zenon DEF CursorInv, At
  <2>2. ClaimInv'
    BY <1>1, <2>0, Zenon DEF ClaimInv
  <2>3. FlagInv'
    BY <1>1, <2>0, Zenon DEF FlagInv
  <2>4. SinceInv'
    BY <1>1, <1>3, Zenon DEF SinceInv, Settled
  <2> QED
    BY <1>3, <2>1, <2>2, <2>3, <2>4, Zenon DEF Good, Settled
<1> QED
  BY <1>1, <1>2, <1>3, Zenon DEF ChInv

\* One receiver's locals.
LEMMA CalmSet ==
  ASSUME ChTypes, NEW r \in Receivers, NEW e \in Locals, Set(r, e),
         UNCHANGED <<write_cursor, ring, claims, split>>
  PROVE  /\ Calm /\ p' \in [Procs -> Locals] /\ p'[r] = e
         /\ \A x \in Receivers : x # r => p'[x] = p[x]
BY Updated, ConstantsAssumption DEF ChTypes, Set, Procs, ring, Calm

\* A connecting receiver goes on with its bit.
LEMMA CalmBits ==
  ASSUME BitInv, NEW r \in Receivers, Linked(r), p'[r].bit = p[r].bit, connections' = connections,
         \A x \in Receivers : x # r => p'[x] = p[x]
  PROVE  BitInv'
BY DEF Linked, BitInv

-----------------------------------------------------------------------------
(* A writer in its slot: the cursor, then the commit flag.                 *)

Flags(w) == \A s \in Slots : f_ct'[s] = f_ct[s] \/ (s = Slot(p[w].pos) /\ f_ct'[s] = Commit(p[w].pos))
Writes(w) ==
  /\ \A y \in Procs : y # w => p'[y] = p[y]
  /\ UNCHANGED <<connections, rc, since, claims, off, split>>
  /\ \A s \in Slots : s # Slot(p[w].pos) => data'[s] = data[s]
  /\ Flags(w)

\* It is not writing where a receiver is copying.
LEMMA CopySafe ==
  ASSUME ChTypes, ClaimInv, NEW w \in Writers, p[w].pc \in {"advance", "write"},
         NEW r \in Receivers, p[r].pc = "copy", Holds(r), NEW c \in Nat, c = p[r].cur, Owed(r, c)
  PROVE  Slot(p[r].cur) # Slot(p[w].pos)
<1>1. p[w].pos \in Nat /\ claims \in Nat
  BY Typed, Zenon DEF ChTypes, Procs
<1>2. p[w].pos < claims /\ claims <= p[w].pos + RING_SIZE
  BY Zenon DEF ClaimInv, Claimed
<1>3. c < claims /\ claims <= c + RING_SIZE /\ p[w].pos # c
  BY Zenon DEF Holds, Owed, Taken
<1>4. Slot(c) # Slot(p[w].pos)
  BY <1>1, <1>2, <1>3, SlotSame, Zenon
<1> QED
  BY <1>4, Zenon

LEMMA WritesRecv ==
  ASSUME ChTypes, ChTypes', WordInv, ClaimInv, NEW w \in Writers, Writes(w),
         write_cursor <= write_cursor', p[w].pc \in {"advance", "write"},
         p'[w].pc \in {"write", "marks"}, p'[w].pos = p[w].pos,
         NEW r \in Receivers, RecvInv(r)
  PROVE  RecvInv(r)'
<1>0. /\ p'[r] = p[r] /\ \A y \in Writers : y # w => p'[y] = p[y]
  BY ConstantsAssumption, Zenon DEF Writes, Procs
<1> SUFFICES ASSUME p[r].pc \in Connecting \cup Reading PROVE RecvInv(r)'
  BY <1>0, Zenon DEF RecvInv
<1>1. /\ rc' = rc /\ claims' = claims /\ since' = since
  BY Zenon DEF Writes
<1>2. p[w].pos \in Nat /\ p[w].pos < claims /\ claims <= p[w].pos + RING_SIZE
  BY Typed, Zenon DEF ClaimInv, Claimed, Procs
<1>3. \A s \in Slots : f_ct'[s] < 0 =>
       \/ f_ct'[s] = f_ct[s]
       \/ /\ PosOf(f_ct'[s]) < claims /\ claims <= PosOf(f_ct'[s]) + RING_SIZE
          /\ Slot(PosOf(f_ct'[s])) = s
  BY <1>2 DEF PosOf, Commit, Writes, Flags
<1>4. ASSUME NEW c \in Nat, Owed(r, c) PROVE Frame(r, c)
  BY <1>0, <1>4, <1>1, <1>3, Zenon DEF Sheds, Dropping, Owed, Frame
<1>5. CASE p[r].pc \in Connecting
  <2>1. PICK c \in Nat : Conn(r, c)
    BY <1>5, Zenon DEF RecvInv
  <2>2. Conn(r, c)'
    BY <1>4, <2>1, ConnKept, Zenon DEF Conn
  <2>3. p'[r].pc \notin Reading
    BY <1>0, <1>5, Zenon DEF Connecting, Scanning, Reading, Dropping
  <2> QED
    BY <2>2, <2>3, Zenon DEF RecvInv
<1>6. CASE p[r].pc \in Reading
  <2>1. Holds(r) /\ \E c \in Nat : c = p[r].cur /\ Owed(r, c)
    BY <1>6, Zenon DEF RecvInv
  <2>2. PICK c \in Nat : c = p[r].cur /\ Owed(r, c)
    BY <2>1, Zenon
  <2>3. Owed(r, c)' /\ c = p'[r].cur
    BY <1>0, <1>4, <2>2, OwedKept, Zenon
  <2>4. p[r].pc = "copy" => data'[Slot(p[r].cur)] = data[Slot(p[r].cur)]
    BY SlotIn, <2>1, <2>2, CopySafe DEF Writes
  <2>6. \A y \in Writers : p'[y].pc \in {"advance", "write"} =>
          p[y].pc \in {"advance", "write"} /\ p'[y].pos = p[y].pos
    BY <1>0, Zenon
  <2>7. Holds(r)'
    BY <1>0, <1>1, <2>1, <2>4, <2>6, HoldsKept, Zenon
  <2>8. p'[r].pc \notin Connecting
    BY <1>0, <1>6, Zenon DEF Connecting, Scanning, Reading, Dropping
  <2> QED
    BY <2>3, <2>7, <2>8, Zenon DEF RecvInv
<1> QED
  BY <1>5, <1>6, Zenon

\* What holds whoever shares a slot, and what the two steps have in common.
LEMMA WritesCommon ==
  ASSUME ChInv, ChTypes', NEW w \in Writers, Writes(w), ~split => write_cursor <= write_cursor',
         p[w].pc \in {"advance", "write"}, p'[w].pc \in {"write", "marks"}, p'[w].pos = p[w].pos,
         ~split => CursorInv' /\ FlagInv'
  PROVE  ChInv'
<1>0. /\ ChTypes /\ BitInv /\ TodoInv /\ WordInv
      /\ \A r \in Receivers : p'[r] = p[r]
      /\ \A y \in Writers : y # w => p'[y] = p[y]
  BY ConstantsAssumption, Zenon DEF ChInv, Writes, Procs
<1>1. /\ rc' = rc /\ claims' = claims /\ since' = since /\ off' = off /\ split' = split
      /\ connections' = connections
  BY Zenon DEF Writes
<1>2. BitInv' /\ TodoInv'
  BY <1>0, <1>1, Zenon DEF BitInv, TodoInv, Linked
<1>3. WordInv'
  BY <1>0, <1>1, Zenon DEF WordInv
<1>4. ASSUME ~split PROVE Good'
  <2>0. ClaimInv /\ SinceInv /\ Good /\ CursorInv' /\ FlagInv'
    BY <1>4, Zenon DEF ChInv, Good
  <2>1. ClaimInv'
    BY <1>0, <1>1, <2>0 DEF Claimed, ClaimInv
  <2>2. SinceInv'
    BY <1>0, <1>4, Typed, <1>1, <2>0 DEF ChTypes, Procs, SinceInv
  <2>3. \A r \in Receivers \ off : RecvInv(r)'
    BY <1>0, <1>4, <2>0, WritesRecv, Zenon DEF Good
  <2> QED
    BY <1>1, <2>0, <2>1, <2>2, <2>3, Zenon DEF Good
<1> QED
  BY <1>1, <1>2, <1>3, <1>4, Zenon DEF ChInv

-----------------------------------------------------------------------------
(* A claim.                                                                *)

\* The word of slot s given to the receivers in cc.
Given(s, cc) == [g |-> rc[s].g + 1, m |-> cc]
Claims(w) ==
  /\ rc' = [rc EXCEPT ![Slot(p[w].pos)] = Given(Slot(p[w].pos), p[w].cc)]
  /\ claims' = claims + 1 /\ claims < MaxPush
  /\ off' = off \cup {r \in Receivers : Fails(w, r)}
  /\ split' = (split \/ p[w].pos # write_cursor \/ \E x \in Procs \ {w} : AtWork(x, Slot(p[w].pos)))
  /\ Set(w, [p[w] EXCEPT !.pc = "advance", !.w = NoWord])
OnlyClaims == UNCHANGED <<connections, write_cursor, f_ct, data, since, conns>>

LEMMA MultNext == \A n \in Nat \ {0}, i \in Int : n * (i + 1) = n * i + n
  OBVIOUS

LEMMA SlotLap ==
  ASSUME NEW a \in Int PROVE Slot(a + RING_SIZE) = Slot(a)
<1> DEFINE n == RING_SIZE
           i == a \div n
           j == (a + n) \div n
           x == a % n
           y == (a + n) % n
<1>0. n \in Nat \ {0} /\ a + n \in Int
  BY ConstantsAssumption
<1>a. i \in Int /\ a = (n * i) + x
  BY <1>0, DivRem, Zenon
<1>b. j \in Int /\ a + n = (n * j) + y
  BY <1>0, DivRem, Zenon
<1>c. x \in 0 .. n - 1 /\ y \in 0 .. n - 1
  BY <1>0, ModIn, Zenon
<1>1. /\ i \in Int /\ a = (n * i) + x /\ j \in Int /\ a + n = (n * j) + y
      /\ x \in 0 .. n - 1 /\ y \in 0 .. n - 1 /\ n \in Nat \ {0}
  BY <1>0, <1>a, <1>b, <1>c, Zenon
<1> HIDE DEF n, i, j, x, y
<1>2. n * i \in Int /\ n * j \in Int /\ n * (i + 1) = n * i + n
  BY <1>1, MultNext
<1>3. /\ i + 1 < j => n * (i + 1) + n <= n * j
      /\ j < i + 1 => n * j + n <= n * (i + 1)
  BY <1>1, MultGap
<1>4. ~(i + 1 < j) /\ ~(j < i + 1)
  BY <1>1, <1>2, <1>3
<1>5. j = i + 1
  BY <1>1, <1>4
<1>6. x = y
  BY <1>1, <1>2, <1>5
<1> QED
  BY <1>6, Zenon DEF Slot, n, x, y

\* What a claim leaves.
LEMMA ClaimStep ==
  ASSUME ChInv, NEW w \in Writers, p[w].pc = "cas", rc[Slot(p[w].pos)] = p[w].w, Claims(w), OnlyClaims
  PROVE  /\ ChTypes' /\ BitInv' /\ TodoInv' /\ WordInv'
         /\ p'[w].pc = "advance" /\ p'[w].pos = p[w].pos /\ \A y \in Procs : y # w => p'[y] = p[y]
         /\ rc'[Slot(p[w].pos)].m = p[w].cc /\ rc[Slot(p[w].pos)].g < rc'[Slot(p[w].pos)].g
         /\ \A t \in Slots : t # Slot(p[w].pos) => rc'[t] = rc[t]
         /\ rc[Slot(p[w].pos)].m \cap p[w].cc = {}
<1> DEFINE s == Slot(p[w].pos)
           e == [p[w] EXCEPT !.pc = "advance", !.w = NoWord]
<1>0. /\ ChTypes /\ BitInv /\ TodoInv /\ WordInv /\ w \in Procs /\ Set(w, e) /\ "advance" \in Labels
      /\ rc' = [rc EXCEPT ![s] = Given(s, p[w].cc)] /\ claims' = claims + 1
      /\ connections' = connections /\ UNCHANGED <<write_cursor, f_ct, data, since>>
  BY Zenon DEF ChInv, Claims, OnlyClaims, Procs, Labels
<1>1. /\ p[w] \in Locals /\ p[w].pos \in Nat /\ p[w].cc \in SUBSET Bits /\ s \in Slots /\ NoWord \in Words
      /\ p \in [Procs -> Locals] /\ rc \in [Slots -> Words] /\ rc[s] \in Words
  BY <1>0, Typed, SlotIn, IdleTyped DEF ChTypes
<1>2. e \in Locals /\ e.pc = "advance" /\ e.pos = p[w].pos
  BY <1>0, <1>1, Zenon DEF Locals
<1> HIDE DEF e
<1>3. p' \in [Procs -> Locals] /\ p'[w] = e /\ \A y \in Procs : y # w => p'[y] = p[y]
  BY <1>0, <1>1, <1>2, Updated, Zenon DEF Set
<1>4. Given(s, p[w].cc) \in Words /\ Given(s, p[w].cc).m = p[w].cc /\ rc[s].g < Given(s, p[w].cc).g
  BY <1>1 DEF Given, Words
<1>5. /\ rc' \in [Slots -> Words] /\ rc'[s] = Given(s, p[w].cc) /\ \A t \in Slots : t # s => rc'[t] = rc[t]
  BY <1>0, <1>1, <1>4, Updated, Zenon
<1>6. split' \in BOOLEAN
  BY Zenon DEF Claims
<1>7. ChTypes'
  BY <1>0, <1>3, <1>5, <1>6 DEF ChTypes
<1>8. /\ \A r \in Receivers : p'[r] = p[r] /\ r \in Procs
      /\ \A y \in Writers : y # w => p'[y] = p[y]
  BY <1>3, ConstantsAssumption, Zenon DEF Procs
<1>9. BitInv' /\ TodoInv'
  BY <1>0, <1>8, Zenon DEF BitInv, TodoInv, Linked
<1>10. WordInv'
  <2>1. \A y \in Writers : p'[y].pc \in {"flag", "cas"} => p'[y].w.m \cap p'[y].cc = {}
    BY <1>0, <1>2, <1>3, <1>8, Zenon DEF WordInv
  <2>2. ASSUME NEW r \in Receivers, p[r].pc \in {"rm_check", "rm_cas"}
        PROVE  p[r].w.g <= rc'[Slot(p[r].pos)].g
    <3>1. p[r].w.g <= rc[Slot(p[r].pos)].g
      BY <1>0, <2>2, Zenon DEF WordInv
    <3>2. Slot(p[r].pos) \in Slots /\ p[r].w \in Words
      BY <1>0, <1>8, Typed, SlotIn
    <3>3. p[r].w.g \in Nat /\ rc[Slot(p[r].pos)].g \in Nat /\ rc'[Slot(p[r].pos)].g \in Nat
      BY <1>1, <1>5, <3>2, Zenon DEF Words
    <3> QED
      BY <1>4, <1>5, <3>1, <3>2, <3>3
  <2> QED
    BY <1>8, <2>1, <2>2, Zenon DEF WordInv
<1>11. rc[s].m \cap p[w].cc = {}
  BY <1>0, Zenon DEF WordInv
<1> QED
  BY <1>2, <1>3, <1>4, <1>5, <1>7, <1>9, <1>10, <1>11, Zenon

\* A claim with nobody else at work in the slot, and at the cursor.
Alone(w) ==
  /\ p[w].pos = write_cursor /\ claims = write_cursor
  /\ \A v \in Writers : v # w => p[v].pc # "advance"
  /\ \A v \in Writers : v # w /\ p[v].pc \in Claimed => Slot(p[v].pos) # Slot(p[w].pos)
  /\ \A r \in Receivers : p[r].pc \in Scanning => ~(f_ct[Slot(p[w].pos)] < 0)

LEMMA ClaimAlone ==
  ASSUME ChInv, NEW w \in Writers, p[w].pc = "cas", Claims(w), ~split'
  PROVE  ~split /\ Alone(w)
<1>1. ~split /\ p[w].pos = write_cursor /\ ~\E x \in Procs \ {w} : AtWork(x, Slot(p[w].pos))
  BY Zenon DEF Claims
<1>2. \A v \in Writers : v # w /\ p[v].pc \in Claimed => Slot(p[v].pos) # Slot(p[w].pos)
  BY <1>1, Zenon DEF AtWork, Procs, Claimed
<1>3. ASSUME NEW r \in Receivers, p[r].pc \in Scanning PROVE ~(f_ct[Slot(p[w].pos)] < 0)
  BY ConstantsAssumption, <1>1, <1>3, Zenon DEF Procs, AtWork, Scanning
<1>4. CursorInv
  BY <1>1, Zenon DEF ChInv, Good
<1>5. \A v \in Writers : v # w => p[v].pc # "advance"
  BY <1>1, <1>2, <1>4, Zenon DEF CursorInv, At, Claimed
<1>6. claims = write_cursor
  BY <1>4, <1>5, Zenon DEF CursorInv, At
<1> QED
  BY <1>1, <1>2, <1>3, <1>5, <1>6, Zenon DEF Alone

LEMMA ClaimRecv ==
  ASSUME NoWrap, ChInv, ~split, NEW w \in Writers, p[w].pc = "cas", rc[Slot(p[w].pos)] = p[w].w,
         Claims(w), OnlyClaims, Alone(w),
         NEW r \in Receivers, r \notin off, ~Fails(w, r)
  PROVE  RecvInv(r)'
<1> DEFINE s == Slot(p[w].pos)
<1>0. /\ ChTypes /\ WordInv /\ r \in Procs /\ r # w /\ w \in Procs
      /\ claims' = claims + 1 /\ write_cursor' = write_cursor /\ f_ct' = f_ct /\ data' = data /\ since' = since
      /\ RecvInv(r) /\ CursorInv /\ SinceInv /\ ClaimInv
  BY ConstantsAssumption, Zenon DEF ChInv, Good, Procs, Claims, OnlyClaims
<1>1. /\ ChTypes' /\ p'[r] = p[r] /\ p'[w].pc = "advance" /\ p'[w].pos = p[w].pos
      /\ \A y \in Procs : y # w => p'[y] = p[y]
      /\ rc'[s].m = p[w].cc /\ rc[s].g < rc'[s].g /\ rc[s].m \cap p[w].cc = {}
      /\ \A t \in Slots : t # s => rc'[t] = rc[t]
  BY <1>0, ClaimStep, Zenon
<1> SUFFICES ASSUME p[r].pc \in Connecting \cup Reading PROVE RecvInv(r)'
  BY <1>1, Zenon DEF RecvInv
<1>2. /\ p[w].pos = write_cursor /\ claims = write_cursor /\ claims \in Nat /\ s = Slot(claims)
      /\ p[r].start \in Nat /\ s \in Slots /\ p[r].pos \in Nat /\ p[r].w \in Words
  BY <1>0, Typed, SlotIn DEF Alone, ChTypes
<1>3. p[r].bit \in p[w].cc /\ p[r].bit \notin rc[s].m
  BY <1>1, Zenon DEF Connecting, Scanning, Reading, Dropping, Fails
<1>4. ASSUME NEW c \in Nat, Owed(r, c) PROVE Owed(r, c)' /\ claims < c + RING_SIZE
  <2>1. c <= claims /\ claims <= c + RING_SIZE /\ since[p[r].bit] <= c
    BY <1>4, Zenon DEF Owed
  <2>2. claims # c + RING_SIZE
    BY ConstantsAssumption, <1>4, SlotLap, <1>2, <1>3 DEF Owed
  <2>3. claims < c + RING_SIZE
    BY <1>2, <2>1, <2>2, ConstantsAssumption
  <2>4. since'[p'[r].bit] <= c /\ c <= claims' /\ claims' <= c + RING_SIZE
    <3>1. claims' = claims + 1 /\ since'[p'[r].bit] = since[p[r].bit]
      BY <1>0, <1>1, Zenon
    <3>2. c <= claims + 1 /\ claims + 1 <= c + RING_SIZE
      BY <1>2, <2>1, <2>3, ConstantsAssumption
    <3> QED
      BY <2>1, <3>1, <3>2, Zenon
  <2>5. ASSUME NEW q \in c .. claims' - 1 PROVE p[r].bit \in rc'[Slot(q)].m
    <3>1. CASE Slot(q) = s
      BY <1>1, <1>3, <3>1, Zenon
    <3>2. CASE Slot(q) # s
      <4>1. claims' = claims + 1 /\ Slot(q) # Slot(claims)
        BY <1>0, <1>2, <3>2, Zenon
      <4>2. q \in Int /\ q \in c .. claims - 1
        BY <1>2, <4>1
      <4>3. Slot(q) \in Slots
        BY <4>2, SlotIn, Zenon
      <4> QED
        BY <1>1, <1>4, <3>2, <4>2, <4>3, Zenon DEF Owed
    <3> QED
      BY <3>1, <3>2, Zenon
  <2>6. ASSUME NEW y \in Writers, Sheds(y, p[r].bit)' PROVE p'[y].pos < c
    BY <1>1, <2>6, <1>4 DEF Sheds, Dropping, Procs, Owed
  <2>7. Owed(r, c)'
    BY <1>1, <2>4, <2>5, <2>6, Zenon DEF Owed, Sheds
  <2> QED
    BY <2>3, <2>7, Zenon
<1>5. CASE p[r].pc \in Reading
  <2>1. Holds(r) /\ \E c \in Nat : c = p[r].cur /\ Owed(r, c)
    BY <1>0, <1>5, Zenon DEF RecvInv
  <2>2. PICK c \in Nat : c = p[r].cur /\ Owed(r, c)
    BY <2>1, Zenon
  <2>3. Owed(r, c)' /\ c = p'[r].cur
    BY <1>1, <1>4, <2>2, Zenon
  <2>4. ASSUME p[r].pc \in Taken
        PROVE  /\ c < claims' /\ p[r].frag \in Writers \X {c}
               /\ \A v \in Writers : p'[v].pc \in {"advance", "write"} => p'[v].pos # c
    <3>1. c < claims /\ p[r].frag \in Writers \X {c}
      BY <2>1, <2>2, <2>4, Zenon DEF Holds
    <3>2. c < claims + 1 /\ claims # c
      BY <1>2, <3>1
    <3>3. c < claims' /\ p[w].pos # c
      BY <1>0, <1>2, <3>2, Zenon
    <3>4. \A v \in Writers : v # w => p'[v] = p[v]
      BY <1>1, Zenon DEF Procs
    <3> QED
      BY <1>1, <2>1, <2>2, <2>4, <3>1, <3>3, <3>4, Zenon DEF Holds
  <2>5. Holds(r)'
    BY <1>0, <1>1, <2>1, <2>2, <2>4 DEF Holds
  <2>6. p'[r].pc \notin Connecting
    BY <1>1, <1>5, Zenon DEF Connecting, Scanning, Reading, Dropping
  <2> QED
    BY <2>3, <2>5, <2>6, Zenon DEF RecvInv
<1>6. CASE p[r].pc \in Connecting
  <2>1. PICK c \in Nat : Conn(r, c)
    BY <1>0, <1>6, Zenon DEF RecvInv
  <2>2. /\ Owed(r, c) /\ p[r].start <= c /\ Clear(r, c) /\ Drops(r, c)
        /\ p[r].pc \in Scanning => Fresh(r, c)
    BY <2>1, Zenon DEF Conn
  <2>3. Owed(r, c)' /\ claims < c + RING_SIZE /\ c <= claims
    BY <1>4, <2>2, Zenon DEF Owed
  <2>4. Clear(r, c)'
    <3> SUFFICES ASSUME NEW q \in p[r].start .. c - 1, claims + 1 <= q + RING_SIZE
                 PROVE  p[r].bit \notin rc'[Slot(q)].m
      BY <1>0, <1>1, Zenon DEF Clear
    <3>1. q \in Nat /\ q < claims /\ claims < q + RING_SIZE /\ claims <= q + RING_SIZE /\ Slot(q) \in Slots
      BY <1>2, <2>3, SlotIn, ConstantsAssumption
    <3>2. Slot(q) # s
      BY <1>2, <3>1, SlotApart
    <3>3. p[r].bit \notin rc[Slot(q)].m
      BY <2>2, <3>1, Zenon DEF Clear
    <3> QED
      BY <1>1, <3>1, <3>2, <3>3, Zenon
  <2>5. ASSUME p[r].pc \in Scanning PROVE Fresh(r, c)'
    BY <1>0, <1>2, <2>5, <2>2 DEF Fresh, Alone
  <2>6. Drops(r, c)'
    <3>1. ASSUME p[r].pc = "rm_cas", rc'[Slot(p[r].pos)] = p[r].w, NEW q \in c .. claims
          PROVE  Slot(q) # Slot(p[r].pos)
      <4>1. p[r].w.g <= rc[Slot(p[r].pos)].g
        BY <1>0, <3>1, Zenon DEF WordInv
      <4>2. Slot(p[r].pos) \in Slots /\ p[r].w.g \in Nat
        BY <1>2, SlotIn DEF Words
      <4>3. rc[Slot(p[r].pos)].g \in Nat
        BY <1>0, <4>2, Zenon DEF ChTypes, Words
      <4>4. Slot(p[r].pos) # s
        BY <1>1, <3>1, <4>1, <4>2, <4>3
      <4>5. rc[Slot(p[r].pos)] = p[r].w
        BY <1>1, <3>1, <4>2, <4>4, Zenon
      <4>6. q = claims \/ q \in c .. claims - 1
        BY <1>2
      <4> QED
        BY <1>2, <2>2, <3>1, <4>4, <4>5, <4>6, Zenon DEF Drops
    <3>2. claims' - 1 = claims
      BY <1>0, <1>2
    <3> QED
      BY <1>1, <2>2, <3>1, <3>2, Zenon DEF Drops
  <2>7. Walks(r, c)'
    <3> SUFFICES ASSUME p[r].pc = "walk"
                 PROVE  /\ c <= p[r].cur /\ p[r].cur <= write_cursor
                        /\ claims + 1 <= p[r].start + RING_SIZE
      BY <1>0, <1>1, Zenon DEF Walks
    <3>1. c <= p[r].cur /\ p[r].cur <= write_cursor
      BY <2>1, Zenon DEF Conn, Walks
    <3>2. p[r].start <= claims /\ claims <= MaxPush
      BY <1>0, <1>2, <1>6, Zenon DEF SinceInv, CursorInv
    <3>3. (claims - p[r].start) % CursorMod = claims - p[r].start
      BY <1>2, <3>2, Unwrapped, Zenon
    <3>4. ~(claims - p[r].start >= RING_SIZE)
      BY <1>2, <3>3, Zenon DEF Fails
    <3>5. claims + 1 <= p[r].start + RING_SIZE
      BY <1>2, <3>4, ConstantsAssumption
    <3> QED
      BY <3>1, <3>5, Zenon
  <2>8. Conn(r, c)'
    BY <1>1, <2>2, <2>3, <2>4, <2>5, <2>6, <2>7, Zenon DEF Conn
  <2>9. p'[r].pc \notin Reading
    BY <1>1, <1>6, Zenon DEF Connecting, Scanning, Reading, Dropping
  <2> QED
    BY <2>8, <2>9, Zenon DEF RecvInv
<1> QED
  BY <1>5, <1>6, Zenon
=============================================================================
