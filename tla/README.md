# thoth-ipc in TLA+

TLA+ models of thoth-ipc's Rust port (`src/rust/thoth-ipc/src`) and of the
runner of the cross-language tests (`src/tools/xlang-runner/src`), TLC runs that
check them on small instances, and TLAPS proofs of the properties that matter
most. The C++, Swift and Zig ports speak the same protocols over the same
shared-memory layout; the Rust source is the one translated here, and the C++
sender where only it does something (large messages in chunks).

## The system and its parts

A *route* broadcasts from one sender to up to 32 receivers through a ring of
256 slots in shared memory; a *channel* does the same for many senders. The
processes share no server. Everything is decided by atomic words in shared
memory: the `connections` mask (one bit per receiver), `write_cursor`, `epoch`,
and per slot a word `rc_` holding one mark per receiver that has still to read
it. A table beside the ring (`LV_CONN__`) records for every bit the process that
owns it and the cursor it started at; a record of the same shape names the
route's sole sender. Messages are cut into fragments; large ones may lie in
chunks beside the ring. Blocking calls sleep in a *waiter*, a mutex and a
condition variable in shared memory with one implementation per platform;
asynchronous receivers sleep on a FIFO, a libnotify port or an event.

| Layer | Parts | Modules |
|---|---|---|
| Rings | route ring, its promise | `Route`, `Broadcast` |
| | channel ring (many writers) | `Channel` |
| | header construction, connection bits | `ConnHead` |
| | sole-sender claim | `SoleSender` |
| | owner table, reaper of dead receivers | `Reaper` |
| Messages | fragmentation, reassembly | `Messages` |
| | chunk storage | `ChunkStorage` |
| Synchronisation | mutex, condition and waiter on Linux, macOS, Windows, other POSIX | `LinuxSync`, `AppleSync`, `WindowsSync`, `PosixSync` |
| | semaphores; reader-writer lock | `Semaphore`; `RwLock` |
| | stamps that keep incompatible builds apart | `SyncAbi` |
| Memory | segments and their counts; cache of mappings | `Segment`; `ShmCache` |
| Readiness | notification, asynchronous receive | `Notify` |
| Protocol layer | SPSC ring, service registry, service group | `ShmRing`, `Registry`, `ServiceGroup` |
| | envelope of sealed messages | `Envelope` |
| Demos | pipeline, aggregator, msg_que, send_recv | `Relay` |
| | chat; audio host and Linux service; real-time audio | `Chat`; `Rpc`; `RtAudio` |
| | gateway; bounded buffer; point of sale | `Gateway`; `BoundedBuffer`; `SecurePos` |
| Cross-language tests | plan of the cases; harness; runner | `CasePlan`; `Xlang`; `CaseRunner` |
| | plan and runner of the demos | `DemoPlan`; `DemoRunner` |

How the parts meet. A receiver connects by constructing the header
(`ConnHead`), running the reaper (`Reaper`), claiming a bit, recording its start
and finding its first element (`Route`, `Channel`). A sender must hold the
sole-sender claim (`SoleSender`) before it pushes. `Broadcast` is what a route
promises, and `Route` is shown to implement it; `Messages`, `Notify` and the
demos stand on queues of that kind. `Registry` gives `ServiceGroup` one entry per
name; `Envelope` is part of `SecurePos`; `CasePlan` plans the cases that `Xlang`
runs, in the order in which `exec.rs` starts their processes.

In every module an action is one access to shared memory, or one system call,
that another process can come between; where a part runs under a lock its body
is one action. Deaths are actions of their own, between any two steps, wherever
the code claims to survive them.

## Rings

### Route

| Code | Actions |
|---|---|
| `push_fragment`, claim loop | `LoadConnections`, `LoadSlot`, `CheckBusy`, `ClaimSlot`, `ClaimFails` |
| its wait and the forced push | `WaitDone`, `ForcePush`, `EvictScan`, `EvictConnections`, `EvictMarks`, `Abandon` |
| `write_msg` and the publication | `WriteMsg`, `Publish` |
| `open`, receiver side | `ReadSince`, `ClaimBit`, `set_since` |
| `adopt_cursor` | `AdoptEpoch`, `AdoptCursor`, `AdoptWalk` |
| `recv`, `release_slot` | `ReadBegin`, `ReadEnd`, `release_slot` |
| `disconnect`; a dead receiver reaped | `disconnect`, `reap_dead_receiver` |

A fragment is the position it was pushed at. Cursors are counted from the
creation of the ring and compared modulo `CursorMod` wherever the code compares
32-bit cursors. Writing a slot takes two steps and so does copying one out; a
copy that overlaps a write is `Torn`. A sender may die in the middle of a push
and be succeeded by another (`Abandon`).

The history variable `clean` holds the receivers the ring makes its promise to.
A receiver is in it from the claim of its bit and drops out when

- a push is forced (`ForcePush`) or it is evicted: the epoch moves, and unread
  marks of the older one no longer count, of the receivers that stay either;
- it finished connecting more than a lap after it read its start;
- a push was in flight at its `AdoptCursor` that had not seen its bit
  (`RouteBlindPush`);
- an evicted receiver that still uses the same bit touches it;
- it leaves.

Each of the first four is necessary: without it `UnreadKept` or
`IntactDelivery` is violated. Two more facts about the code bound the promise.
`live_marks` compares with `since`, which is never refreshed: 2^31 fragments after
a receiver connected its marks stop counting (`NoWrap` excludes this). A mark of
a bit's previous owner, at or after the new owner's start, counts against the
new owner in a forced push.

### Channel

`push_fragment_multi`, `commit_multi`, `recv_multi`, `release_mark`,
`release_stale`, `adopt_cursor`, with receivers that die. Three cases are left
out of its properties by history variables.

- `off`, by `Fails` and `Passes`: a writer that had loaded `connections` before a
  receiver's bit was set, or that lapped it while it connected, has claimed a
  slot without marking it for that receiver.
- `off`, by `Haunted`: the bit the receiver claimed is still marked, for an owner
  that has left, on elements pushed since the receiver read the cursor.
  `release_stale` drops the marks on committed slots from before `since` ("Every
  slot addressed to this receiver is at or after `since`, so its bit on a
  committed slot from before is a leftover") and these are not: the newcomer
  takes them for its own, may start at them, and one it does not walk back
  over holds the writers up until it leaves. With three connections, one more
  than the run makes, TLC finds such a mark.
- `split`: a slot was claimed while another writer was at work on it, which the
  code allows when the marks a writer loaded belong to receivers that have all
  left.

A writer killed between its claim and its commit leaves a slot nobody passes;
writers do not die here.

### ConnHead, SoleSender, Reaper

`ConnHead` is `init` under its spin lock and the bit loop. An endpoint is killed
between any two steps, connected or not; a killed receiver's bit stays set, as
`circ.rs` does nothing about it, and nobody may be given it. Freeing it is the
reaper's work and not in this module. `SoleSender` is `claim_sole_owner` and `release_sole_owner`; `SoleStart`
gives a dead process's id to a new one. `Reaper` is the scan of
`reap_dead_receivers`, the claim of a bit, `set_owner`, `disconnect` with
`clear_owner`, and a sender's eviction. In both, `is_process_alive` answers
exactly: the id is in use and, if a token was recorded, by the process it names.
The code's answers in doubt ("alive") are left out.

`OneSender` holds for two processes that keep their ids (`OneOfTwoSends`), and
fails for three (`SoleAlive`).

In `Reaper` receivers disconnect, are evicted, die anywhere and start again under
a dead one's id. `HoldsBit` (a running receiver keeps its bit, alone) fails:
`disconnect` and `force_push` free a bit before its record is cleared, so that it
can be claimed while something of the last tenant is still there, its record, its
own clearing, or a reaper that has its id in hand; what is left then frees or
wipes the newcomer's bit (`ReaperLeave`). `Unsettled` names these cases and
`rp_raced` remembers that a bit was claimed in one of them. `KeepsBit` and
`OnRecord` say that this claim is the only way: as long as every bit was claimed
settled, no reaper hurts a running receiver, whatever else happened and however
long ago it loaded what it acts on. A reaper whose record is of a dead process may
well be at the bit when it is claimed: its CAS compares the id, and fails.

## Messages and chunks

`Messages` cuts, pushes and reassembles over queues; ids are the sender's own
counter on a route and a shared one on a channel. Senders give up half way, die,
and take a route over.

`ChunkStorage` is `id_pool`, the reader sets and the slots that carry the ids. No
Rust sender stores chunks, so the sender is the C++ one (`send` and `try_send` of
`ipc.cpp`, over the multi-writer ring of `prod_cons.h`), and the receivers are
Rust. A push and a read of a slot are one step here; `Channel` has them in
detail. `try_send` gives up on a full ring and `send` forces its push; a push that
fails gives the chunk back (`GiveBack`), and a forced one evicts the slot's late
readers, starts an epoch and has `clear_message` free the chunk of the slot it
overwrites. Both properties are stated until one of two things has happened
(`odd`).

- A receiver joined between the stamp and the push. It reads a chunk whose reader
  set it is not in, and may give the id back a second time.
- A push was forced. `clear_message` frees the old chunk whatever readers it has
  left: one that has read the slot and not yet the chunk, or an evicted one that
  goes on, gives it back again or reads what is stored there next. Marks of the
  older epoch then let plain pushes overwrite slots whose chunks nobody frees.

## Synchronisation

Each platform module is its mutex, its condition and the `Waiter` above them:
`wait_if` with its predicate, time-outs, `notify`, `broadcast`, `quit_waiting`.

- `LinuxSync`: the robust priority-inheriting futex word, the kernel's robust
  list walk after a death, requeueing and its time-out.
- `AppleSync`: the three-state word, the holder word and recovery from a dead
  holder, the sequence number and the waiter count of the condition. The load
  of the holder word, the test of its process and the swap of the state are
  three steps, so that two recoveries, or one and a new owner, can be under way
  at once and both clear the word; from then on exclusion and the wake-ups
  are not claimed (`ap_overlap`).
- `WindowsSync`: mutexes that may be abandoned, a semaphore and a shared count.
  A waiter counts itself, gives the mutex up and waits for a token, which is not
  kept for the waiter it was posted for: one that began to wait later, with
  nothing to wake for, may take it, and the other sleeps on. The comment there
  ("a post that races in after the unlock is not lost", `condition.rs`) is right
  about the token and not about the waiter; such behaviours are exempt
  (`stolen`).
- `PosixSync`: robust pthread mutex and condition, whose calls are atomic. A
  thread that `pthread_cond_wait` returned `EOWNERDEAD` to keeps the mutex
  (`stranded`).

The wake-up properties leave out a waker that died before it broadcast
(`lapse`; on Windows also a `notify`, which wakes one). `Semaphore` has the count in a segment (macOS) and the named POSIX
semaphore; opens and closes that race are exempt (`sm_raced`), since the first
opener's store and the last closer's unlink are not atomic with the count.
`RwLock` is one word. `SyncAbi` is `init_or_validate_within`: initialisers die,
names are cleared, openers of other builds are refused.

## Memory and readiness

`Segment` is `PlatformShm` on POSIX as the system calls it is made of, with a
counter at each size an object was mapped at. `open` does not shrink an object
it finds large enough, but `fstat` and `ftruncate` are two calls: a peer that
grows the object in between has it cut back, whatever the comment there says
("A peer may already have grown it at least this far; never shrink.",
`platform/posix.rs`). On macOS an object is sized once, and a second `ftruncate`
"can even zero the object": an opener that has waited in vain and sizes it
itself may come second. Objects that lost counters either way are exempt
(`wiped`). For the others `SegmentSound` says that one handle at most takes itself
for the first at its size, and that every live handle is on the counter of its
size, so that the one that unlinks the name is the last. `ShmCache` is the cache
of mapped primitives of a process. `Notify` is the sink and the source of
readiness with `AsyncRoute::recv`; a slot that changes hands under a handle the
sender has cached is exempt (`stale`).

## Protocol layer, demos, cross-language tests

`Registry` is the table under its spin lock with deaths and reused ids.
`ServiceGroup` is the supervisor as one thread over children that start,
register, crash, and obey or ignore signals; a crashed child stays a zombie on
Unix. `ShmRing` is `write`, `write_overwrite` and `read` per access; its property is
about `write`, in a ring set up once.

The demos are processes over the queues the library promises. What a send that
times out does to its receiver is part of the model, and so is what the process
does with the result: try again, exit, or carry on. `RtAudio` runs over two
`ShmRing`s one access at a time: `write_overwrite` loads both indices, moves
`read_idx` on when the ring is full, copies and publishes, and `read` loads,
copies in two parts and commits, so that a block may be overwritten while it is
copied (`Seen`). That the host hears the right configuration and gain is stated for
torn blocks too. That blocks come in order, each once, leaves out a ring whose
writer moved `read_idx` on during a read (`met`). The counters it prints are left
out. `SecurePos` encodes and
decodes its events byte by byte, with a smaller byte; `Envelope` does so for the
framing.

What the code lets go wrong there, and the properties therefore leave out, is a
ghost variable in each module: a process id used again (`reuse`, `Registry`); a
child given up at its deadline while it lives, an election that found nobody
(`leaked`, `outage`, `ServiceGroup`); a second opener that zeroes the ring
(`reset`, `ShmRing`; `raced`, `BoundedBuffer`); a semaphore that starts afresh
beside a ring with items in it (`stale`); a wait that timed out (`late`, in
`Rpc`, `Chat` and `Relay`); a process the runner let go of (`lost`, `CaseRunner`); a
grandchild that inherited the output (`held`, `DemoRunner`).

`CasePlan` expands the scenarios for the builds present on a host, `Xlang` runs each
planned case on the verbs of `bin/xlang.rs`, with readers in time or late.
`CaseRunner` and `DemoRunner` are the worker pools: scripts of spawn, wait, kill
and judge, in which processes exit at any time. `DemoPlan` is the product of
languages and slots.

## Runs

Components that never meet share a run: a behaviour is one of the component
`part` names. The MC modules EXTEND the components whose properties are proved,
so that run and theorem speak of the same definition, and INSTANCE the others;
the definitions of the former carry a prefix (`HeadNext`, `RwSpec`, `LxNext`,
`ApCount`, `SmOpen`, `AbiClaim`, `SoleRelease`, `RpNext`, `CachePurge`, `RegLock`,
`RingDone`). The passing runs:

| Run | Instance | Properties |
|---|---|---|
| `RouteSafety` | 2 receivers, 2 bits, 2 slots, 4 fragments, deaths | `TypeOK`; `UnreadKept`: every position an undisturbed receiver has still to read holds its fragment and its mark; `IntactDelivery`: what `recv` hands out was pushed there |
| `RouteForced` | 2 receivers, 2 bits, 1 slot, 2 fragments, 2 forced pushes, fairness | `ImplementsQueue`: the ring refines `Broadcast`; `SendReturns` |
| `Channel` | 2 writers, 2 receivers, 2 bits, 2 slots, 3 claims, 2 connections, deaths | `ChIntact`, `ChUnread`, and `ChNoStuckMark`: no mark holds the writers up for good |
| `Sync` | 3 threads per platform, 1 or 2 operations each, deaths; 3 threads on the semaphore (2 objects), the header and the lock | `OwnerHolds`, `NotOrphaned`, `NoLostWakeup` on Linux; `AppleSound` on macOS; `WaitersSound` on Windows and other POSIX systems; `SemaphoreSound`, `BitsAreOwned`, `RwExclusive` |
| `Platform` | segments: 2 processes, 2 sizes, 2 objects; cache: 3 handles; stamp: 3 processes, 2 builds, 2 fields; notification: 2 readers, 3 messages; messages: 2 senders, 3 fragments; chunks: 2 senders, 2 receivers, 2 chunks, 1 slot, 3 messages; claim: 2 processes, and 3 with reused ids; table: 3 processes, 2 bits, one id used twice | `SegmentSound`, `CacheOneMapping`, `AbiAgrees`, `NtAwake`, `MessagesWhole`, `ChunksKept`, `OneOfTwoSends`, `OwnToken`, `KeepsBit`, `OnRecord` |
| `Services` | registry: 3 names, 2 slots, 2 ids; group: 2 replicas, 4 spawns; rings of 1 to 3 slots for 2 to 5 items; 4 and 3 cases; 3 languages, with every build that lacks a feature | `RegUnique`, `RegKept`, `RingFifo`, `GroupSound`, `DemosDeliver`, `RpcMatched`, `EnvExact`, `RunSerial`, `RunHonest`, `PlansSound` |
| `Progress` | 2 or 3 processes of each component, fairness | `LocksGetOn`, `NtReceived`, `DemosEnd`, `DeadReplaced` |

What each property says is written above it, in the MC module or, at full
length, in the component's. A property that joins several components is one
promise, kept by each of them in its own way (a mutex has one owner on every
platform). Operators marked "Seeded fault" are mutations of the definition that
follows them; each makes a property fail.

Runs that refute what a document or a comment of the repository says:

| Run | Statement | What happens |
|---|---|---|
| `RouteBlindPush` | "every reader receives every message" | A push that loaded `connections` before a receiver claimed its bit is published after the receiver loaded the cursor. The receiver starts at a slot without its mark, and a lap later the slot is overwritten under it. |
| `SoleAlive` | "a live holder is never taken over" | The CAS compares the pid alone, and the pid can be recorded again between the judgement and the CAS. |
| `ReaperLeave` | "a live receiver is never false-reaped" | `disconnect` frees a bit before it clears the record; a reaper pairs the old id with the token of the receiver that has claimed the bit since, and frees the bit under it. |
| `MessagesTakeover` | the cache must not hold an id that is used again | A sender that takes a route over numbers its messages from 0; a receiver that stayed has the predecessor's unfinished message under that id and splices the two. |
| `GroupZombie` | "automatic failover" | A crashed primary nobody has waited for answers `kill(pid, 0)`; a health check leaves it the primary. |

Bounds. Two slots and four fragments take the sender twice round the ring, so
that stale stamps, a reader a full lap behind and a receiver connecting during
a lap all occur; the one-slot run does the same in fewer steps and leaves room
for forced pushes. Two receivers are enough for one to use the bit another was
evicted from. On the channel, three claims of two slots make one slot be claimed
twice, with two writers at work. `CursorMod` is large enough that nothing wraps.
Three threads are a waiter, a waker and a third that steals the mutex or dies
with it; three contenders leave one queued behind another that is killed. Two
generations of a stamp or objects of a name let a late opener meet the wrong
one. Registries, pools and rings are smaller than what is put into them. The
other bounds (`MaxPos`, `MaxEpoch`, `MaxPush`, `MaxConn`, `MaxOps`, `MaxLives`,
`MaxOpen`, `MaxStore`, ...) only stop counters. `CaseRunner` has one worker, because
workers share nothing but the next case's number; the pool of two is in
`DemoRunner`, which has groups. Only `Channel` does not check for deadlock: its
claims run out while receivers wait. `Platform` does not go on from states with
`rp_raced` or, once a forced push is over, `odd`, of which its properties say nothing
(the constraint `Followed`); nor does `Channel` from those after which no
receiver can be `Sound` again, its own `Followed`. Symmetry is used in
`RouteSafety` and `Channel`, which check invariants alone.

Fairness. `RouteForced`: the sender keeps running (weak fairness), which
includes that a wait ends, since every send has a timeout; and the CAS of a slot
word does not fail for ever when it could succeed (strong fairness of
`ClaimSlot`), which the code's weak CAS loop relies on. Receivers have none.
`Progress`: each process or thread keeps running (weak fairness of `Step`), while
deaths, time-outs and new calls may or may not come. A deadline is fair only in
the gateway, where it ends the run; a sender that has not claimed retries on
every send; a receiver that has started `open` runs to its end.

## Proofs

Each theorem holds for every value of the constants that satisfies the
assumption named: any number of processes, bits, slots, names. A proof states
its inductive invariant in named conjuncts, shows that `Init` implies it and that
each action keeps it (one lemma or step per action), and derives the property.
Leaves without arithmetic are left to Zenon, the others to the SMT solver.

| Theorem | Property | Assumes |
|---|---|---|
| `RouteProof!TypeCorrect` | `TypeOK` | `ConstantsAssumption` |
| `RouteProof!UnreadIsKept` | `UnreadKept` | and `NoWrap` |
| `RouteProof!DeliveryIsIntact` | `IntactDelivery` | and `NoWrap` |
| `RouteProof!RouteImplementsQueue` | `ImplementsQueue`, the refinement of `Broadcast` | and `NoWrap` |
| `ChannelProof!ChannelIntact` | `ChIntact` | `ConstantsAssumption` of `Channel`, `NoWrap` |
| `ChannelProof!ChannelUnread` | `ChUnread` | the same |
| `LinuxProof!OwnerHoldsAlways` | `OwnerHolds` | `TidsPositive`: thread ids are positive |
| `LinuxProof!NotOrphanedAlways` | `NotOrphaned` | the same |
| `LinuxProof!NoLostWakeupAlways` | `NoLostWakeup` | the same |
| `LinuxProof!HeadBits` | `BitsAreOwned` | nothing |
| `AppleProof!AppleSoundAlways` | `AppleSound` | `ApSetting`: no thread has the id 0 |
| `SyncProof!SemaphoreSoundAlways` | `SemaphoreSound` | `SmConstants`: finitely many threads, natural bounds |
| `SyncProof!RwLockExclusive` | `RwExclusive` | nothing |
| `PlatformProof!AbiCorrect` | `AbiAgrees` | the fields are `1 .. n`, at least one stamp |
| `PlatformProof!SoleToken` | `OwnToken` | `SoleSetting`: the pids are none of the two reserved ones |
| `PlatformProof!KeepsBitAlways` | `KeepsBit` | `RpSetting`: there is a bit, and 0 is no pid |
| `PlatformProof!OnRecordAlways` | `OnRecord` | the same |
| `PlatformProof!CacheShares` | `CacheOneMapping` | `MaxMade \in Nat` |
| `PlatformProof!RingInOrder` | `RingFifo` | the ring has slots |
| `RouteProof!RegistryUnique` | `RegUnique` | no name is empty, `MaxBirths \in Nat` |
| `RouteProof!RegistryKept` | `RegKept`, an action property | the same |

Components that share a proof module share nothing else: each has its own
section in it.

### Route

`NoWrap`: fewer than half of the cursor's range has been pushed. The invariant is
`IInv`, that is `TypeOK`, `CursorInv`, `RingInv` and, for the receivers in `clean`,
`BitInv`, `PushInv` and `UnreadInv`. `UnreadKept` alone is not inductive: a step of
the sender keeps it only if the sender's locals tell the truth about the
receiver. A push past its first load has the receiver's bit in `cc`, and a push
about to stamp a slot a full lap ahead did not see the receiver's mark there
(`PushInv`). That needs the record of the bit to be the receiver's own
(`BitInv`), so that `live_marks` counts its mark, and the same facts while the
receiver still walks back (`UnreadInv`). `RingInv` keeps the last lap in the slots
and `CursorInv` bounds the cursors. The arithmetic is three lemmas: positions
less than a lap apart have different slots, positions a lap apart share one, and
below `NoWrap` the wrapped comparison is the plain one.

The refinement uses the same invariant. Initial states map to initial states;
`Publish` is the queue's push, a copy of the fragment its take, the release of
the slot its step to the next one; whatever takes receivers out of `clean` is
a `Detach` of them (`Withdraws`), and every other step changes nothing the queue
shows (`HiddenStep`).

### Channel

`ChannelInv` has the invariant `ChInv` and what a step of any kind must do to keep
it, `ChannelReceiverProof` the receivers' actions, `ChannelProof` the writers' and
the theorems. `ChInv` is about behaviours with `split` false and receivers outside
`off`, apart from the types, the ownership of bits (`BitInv`) and the words at
hand (`WordInv`).

- `CursorInv`, `ClaimInv`: at most one claim is ahead of the cursor, and the slots
  of the writers that hold one are different and have not been claimed again.
- `FlagInv`: a commit flag is of a position that was claimed, and vouches for the
  data while no later lap has claimed the slot.
- `Owed(r, c)`: every position from `c` on is marked for `r`, at most a lap has
  been claimed since, and no writer is shedding its mark there as a leftover.
  It is what makes `ChUnread` inductive: a writer that has seen `r`'s bit claims
  over no mark of it (`WordInv`), so the claims stop a lap after `c`. For a
  reading receiver `c` is its cursor.
- `Conn(r, c)`, of a receiver that is connecting: with `c` the number of claims at
  the moment its bit was set, everything from `c` on is owed to it, nothing
  pushed between its start and `c` is marked (`Clear`, which `Haunted` provides),
  no commit flag from before `c` is left in a slot claimed since (`Fresh`), the
  mark it is dropping is an old one (`Drops`: the generation in `rc_` rules the
  late CAS out), and the walk back stops at `c` (`Walks`). The walk thus
  ends at exactly the first position that is owed.
- `Holds(r)`: what a receiver has taken is of its cursor's position, no writer is
  at work on it, and while it copies the slot's data do not change.

`ChInv` was first checked with TLC, exhaustively on the instance of the run and by
simulation on larger ones. `ChNoStuckMark` is not proved: it is about marks of
receivers that have left, on which `ChInv` is silent. It is model-checked for two
connections, and simulated beyond.

### The mutex, the condition and the waiter

Linux. `LxInv` is `TypeInv`, `MutexInv` and `WakeInv`. The properties are about the
word, the list and the sleepers separately; what makes them inductive is what
each live thread may rely on at each of its steps (`Good`) and what is left of a
dead one (`Gone`).

- A thread past its lock and before its release is the `tid` of the word, and
  has the mutex on its robust list or pending wherever it may own it, in its
  sleep too: every death thus finds the mutex in one of the two places the
  kernel looks at, hands the word
  on or marks it, and leaves neither the word, the queue nor the sleepers to the
  dead thread. This gives `OwnerHolds` and `NotOrphaned`.
- `WakeInv` follows a waiter whose predicate has been cleared through the steps
  of `wait_if`: until it loads the sequence number, some live waker has not yet
  got the mutex; while the number it loaded is the current one, a waker has
  still to bump it; once it sleeps, a live waker has still to requeue it.
  `NoLostWakeup` is the last case. The barrier (`Waiter` takes and releases the
  mutex before it wakes) is what carries the first case into the second.

macOS. `ApInv` is `TypeInv`, `ExclInv`, `CoverInv`, `WakeInv` and `CountInv`.

- `ExclInv`, while recoveries have not overlapped: one thread is inside, none when
  the word is 0, at most one recovers, and the holder it recovers from is dead
  and left the word set with nobody inside. The holder on record, if it lives, is
  inside, so the test of its process never condemns the owner.
- `CoverInv`: while threads sleep on the word, it says so (2), or a thread is on
  its way that wakes them or will write 2 again: an unlocker or a recoverer that
  swapped a 2 out, or a woken thread, which relocks as contended.
- `WakeInv` as on Linux. The waker here skips the system call when `waiters` is 0,
  so it needs `CountInv`: the count is no less than the number of waiters on their
  way. It is stated as an injection of these into `1 .. waiters`, since a
  waiter that dies leaves the count too large for good; the steps that count
  and uncount extend and shrink the injection.

### Semaphore

`SmInv` is `SmTypes`, `SmHeld` (a handle in use has an object that was made, and the
steps of one backend are not met on the other), `SmUnmade`, and `SmQuiet` as long as
opens and closes have not overlapped. `SemaphoreSound` alone is not inductive in
two ways. The permits do not add up between the first opener's increment of
the reference count and its store: `SmAlone` says that it is then alone with the
object, and that nothing was posted or taken. A thread may sleep while the count
is positive, when another has been woken for the permit: `SmQuiet` bounds the
count by the number of `Helpers`, threads woken or about to wake one.

### Reaper

`RpInv` is `RpTypeOK`, `RpDead` (a dead process is nowhere in its calls) and, as long
as no bit was claimed unsettled, `RpSafe`, with one conjunct per piece of state a
process may have gone out of date about. It speaks of tenants: processes from the
claim of a bit to the end of `disconnect`, evicted ones included, since an evicted
receiver still writes its record. `RpApart`: a bit has one tenant. `RpRecords`: the
record of its bit is as far as its own `set_owner` or `clear_owner` has got, and
the bit is set unless the tenant was evicted or is leaving. `RpScan`: a reaper
that has loaded the id of a tenant of the bit in hand has loaded, or will load,
that tenant's own token, and so will find it alive; it is never at its CAS.
`RpReaped`: from its CAS to its clear a reaper has a bit without a tenant.

The CAS is the heart of it. It succeeds only if the record is of the id in hand; a
tenant of the bit would have its own id on record, or none, so it would be that
very process, which `RpScan` excludes. An id used again is harmless because the
new process has a bit of its own before it has a record, and claims it settled:
no reaper then judges that id at that bit. The other steps change what belongs to
one tenant's bit (`RpTenantStep`), to a vacant one (`RpVacantStep`), or nothing shared
(`RpLocalStep`).

### The others

- `RwLockExclusive`: the word counts the readers that have entered (`RwCounted`)
  and its flag is the writer's (`RwFlagged`, `RwNoFlag`).
- `HeadBits`: the spin lock has one holder (`HeadOneHolder`), the header is zeroed
  before anyone is through (`HeadOnce`), and a CAS is tried only with a free
  bit (`HeadRoom`). Endpoints are killed anywhere; receivers killed while
  connected keep their bits (`Holders`).
- `CacheShares`: the count of references is no less than the number of handles that
  keep the entry, as an injection (`Counts`), so that no assumption is needed on
  how many handles there are.
- `AbiCorrect`: an initialiser owns its stamp alone and has stored the fields
  before the one at hand (`AbiOwned`); who validates meets a live stamp
  (`AbiLive`).
- `SoleToken`: `OWNER_CLAIMING` is a lock (`Claimer`), and under it the token is
  stored before the pid (`TokFirst`).
- `RegistryUnique`, `RegistryKept`: records have a slot's type and calls their name
  (`RegTypes`); while no pid is used again an active entry is of the process that
  registered it (`Registered`).
- `RingInOrder`: the indices of both sides and the loaded copies they work from
  (`RingIndices`), and the items between them in their slots (`RingFilled`).

### Only model-checked

- `WaitersSound`. The Windows and POSIX primitives are the system's, and their
  calls are atomic in the models; the protocol of the waiter above them is the
  one whose argument is proved for Linux and macOS.
- `ChNoStuckMark` (see above), and `OneOfTwoSends`, which is about exactly two
  processes and false for more.
- Segments, messages, chunks, notification, the service group and the demos: the
  instances of the runs cover them, and no proof has been attempted.
- The envelope, the plans of the cases and the point of sale compute with
  recursive definitions; what such a definition yields for every input needs an
  induction over data that the prover cannot instantiate.
- Liveness (`SendReturns` and the run `Progress`): fairness and `ENABLED` are outside
  the prover's reach.

## Not modelled

- Memory order. Every access is sequentially consistent. The relaxed loads of
  `connections` and `epoch` are not examined for reordering.
- Locks that are not robust. A process killed inside the header's spin lock, the
  chunk lock, the registry's spin lock or between `OWNER_CLAIMING` and its
  pid leaves them held for good, as the code does; the properties speak of
  processes that die elsewhere. A channel writer killed between its claim and
  its commit stops the readers at that slot.
- The 32-bit cursor wrapping on the channel, whose commit flag is 64 bits wide.
- `ChunkStorage`: `clear_chunk_shm`, receivers that die or disconnect with chunks
  unread, whose chunks nobody gives back.
- `ConnHead`: `UnicastConnHead`, whose connections are a counter.
- `Semaphore`: `clear_storage`, Windows. `ShmRing`: `close` and `destroy`.
- `Xlang`: `arecv`, the conformance traces, the encoding of `XlangMsg`.
- The demos' own clean-up of storage under a waiting receiver.
- Shared memory on Windows. Sections vanish with their last handle and cannot
  grow, and removal is a no-op, so nothing of what `Segment` checks arises. Its
  reference count is advisory: the creator finds it at the end of the size it asked
  for, an opener at the end of the region as mapped, which is whole pages.
- Ciphers, key providers, typed channels, codecs, names of shared objects: pure
  functions, or calls of libraries outside the repository.
- Real-time priority, clocks, buffers, pools and guards: system calls or
  owned memory of one thread.
- Parsing of the runner's configuration, its reports, the benchmark, the ABI
  tool and the generated constants.
- The C++, Swift and Zig ports. They share the memory layout; the Rust port is
  the one modelled, but for the C++ sender of chunks.
