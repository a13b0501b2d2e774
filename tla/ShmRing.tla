------------------------------- MODULE ShmRing -------------------------------
(***************************************************************************)
(* The single-producer ring over a segment (shm_ring.rs): open_or_create   *)
(* by both sides, write or write_overwrite by one, read by the other, one  *)
(* access to shared memory a step (setting the header up is one as well).  *)
(***************************************************************************)
EXTENDS Integers

CONSTANTS
  N,           \* capacity
  MaxItems     \* bound: items written

VARIABLES
  over,        \* the writer calls write_overwrite
  creates,     \* the reader calls open_or_create too
  constructed, write_idx, read_idx, slots,
  wr, rd,        \* the writer and the reader
  got,         \* the last item read
  reset        \* ghost: the ring was initialised again after it was in use

ring_vars == <<over, creates, constructed, write_idx, read_idx, slots, wr, rd, got, reset>>

RingInit == /\ over \in BOOLEAN /\ creates \in BOOLEAN
            /\ constructed = FALSE /\ write_idx = 0 /\ read_idx = 0
            /\ slots = [i \in 0 .. N - 1 |-> 0]
            /\ wr = [pc |-> "open", w |-> 0, r |-> 0, item |-> 1]
            /\ rd = [pc |-> "open", r |-> 0, v |-> 0] /\ got = 0 /\ reset = FALSE

hdr == <<constructed, write_idx, read_idx, slots>>

\* open_or_create: an unconstructed header is set up by whoever finds it so.
\* Between the load and the stores the other side may do the same, or be done.
OpenLoad(x, mayCreate) ==
  /\ x.pc = "open" /\ (constructed \/ mayCreate)
  /\ UNCHANGED <<over, creates, hdr, got, reset>>

OpenStore ==
  /\ write_idx' = 0 /\ read_idx' = 0 /\ slots' = [i \in 0 .. N - 1 |-> 0]
  /\ constructed' = TRUE
  /\ reset' = (reset \/ constructed)
  /\ UNCHANGED <<over, creates, got>>

WriterOpens == /\ OpenLoad(wr, TRUE) /\ UNCHANGED rd
               /\ wr' = [wr EXCEPT !.pc = IF constructed THEN "idle" ELSE "init"]
WriterInits == wr.pc = "init" /\ OpenStore /\ wr' = [wr EXCEPT !.pc = "idle"] /\ UNCHANGED rd

\* The reader opens likewise, or waits for open_existing to find it ready.
ReaderOpens == /\ OpenLoad(rd, creates) /\ UNCHANGED wr
               /\ rd' = [rd EXCEPT !.pc = IF constructed THEN "idle" ELSE "init"]
ReaderInits == rd.pc = "init" /\ OpenStore /\ rd' = [rd EXCEPT !.pc = "idle"] /\ UNCHANGED wr

-----------------------------------------------------------------------------
\* write_slot and write_overwrite: load both indices.
WriteLoad ==
  /\ wr.pc = "idle" /\ wr.item <= MaxItems
  /\ wr' = [wr EXCEPT !.w = write_idx, !.r = read_idx,
                      !.pc = IF write_idx - read_idx < N THEN "fill" ELSE IF over THEN "bump" ELSE "idle"]
  /\ UNCHANGED <<over, creates, hdr, rd, got, reset>>

\* write_overwrite on a full ring moves the reader's index on.
WriteBump ==
  /\ wr.pc = "bump" /\ read_idx' = wr.r + 1 /\ wr' = [wr EXCEPT !.pc = "fill"]
  /\ UNCHANGED <<over, creates, constructed, write_idx, slots, rd, got, reset>>

\* Seeded fault: the index is published before the slot is filled.
WriteFill_Late ==
  /\ wr.pc = "fill" /\ write_idx' = write_idx + 1 /\ wr' = [wr EXCEPT !.pc = "commit"]
  /\ UNCHANGED <<over, creates, constructed, read_idx, slots, rd, got, reset>>

WriteFill ==
  /\ wr.pc = "fill" /\ slots' = [slots EXCEPT ![wr.w % N] = wr.item] /\ wr' = [wr EXCEPT !.pc = "commit"]
  /\ UNCHANGED <<over, creates, constructed, write_idx, read_idx, rd, got, reset>>

\* write_commit
WriteCommit ==
  /\ wr.pc = "commit" /\ write_idx' = write_idx + 1
  /\ wr' = [wr EXCEPT !.pc = "idle", !.item = @ + 1]
  /\ UNCHANGED <<over, creates, constructed, read_idx, slots, rd, got, reset>>

\* read_slot
ReadLoad ==
  /\ rd.pc = "idle" /\ read_idx < write_idx
  /\ rd' = [rd EXCEPT !.r = read_idx, !.pc = "copy"]
  /\ UNCHANGED <<over, creates, hdr, wr, got, reset>>

ReadCopy ==
  /\ rd.pc = "copy" /\ rd' = [rd EXCEPT !.pc = "commit", !.v = slots[rd.r % N]]
  /\ UNCHANGED <<over, creates, hdr, wr, got, reset>>

\* read_commit
ReadCommit ==
  /\ rd.pc = "commit" /\ read_idx' = read_idx + 1 /\ got' = rd.v
  /\ rd' = [rd EXCEPT !.pc = "idle"]
  /\ UNCHANGED <<over, creates, constructed, write_idx, slots, wr, reset>>

\* Everything written, and nothing left to read.
RingDone == /\ wr.item > MaxItems /\ rd.pc = "idle" /\ read_idx >= write_idx /\ UNCHANGED ring_vars

RingNext == \/ WriterOpens \/ WriterInits \/ ReaderOpens \/ ReaderInits
            \/ WriteLoad \/ WriteBump \/ WriteFill \/ WriteCommit
            \/ ReadLoad \/ ReadCopy \/ ReadCommit \/ RingDone

RingSpec == RingInit /\ [][RingNext]_ring_vars

-----------------------------------------------------------------------------
\* With write, and a ring set up once, the reader is given every item once and
\* in order, and the ring never holds more than it has room for.
RingFifo ==
  ~over /\ ~reset => /\ write_idx - read_idx \in 0 .. N
                     /\ got = (IF wr.pc = "open" THEN 0 ELSE read_idx)
=============================================================================
