------------------------------ MODULE ConnHead ------------------------------
(***************************************************************************)
(* The connection head of a broadcast ring (circ.rs; init_header and the   *)
(* bit loop of ChanInner::open do the same on RingHeader): constructed     *)
(* once, under a spin lock, by whichever endpoint comes first, then a bit  *)
(* per receiver.  An endpoint may be killed between any two steps, as a    *)
(* connected receiver too: its bit then stays.  Who takes such bits away,  *)
(* the reaper and force_push, is in Reaper.                                *)
(***************************************************************************)
EXTENDS Integers

CONSTANTS HeadThreads, NBits, HeadOps, HeadMayDie

Bits == 0 .. NBits - 1

VARIABLES lc,           \* the spin lock
          constructed,
          cc,           \* the bits taken
          ends             \* each endpoint: pc, expected bits, own bit, calls made

head_vars == <<lc, constructed, cc, ends>>

HeadInit == /\ lc = 0 /\ constructed = FALSE /\ cc = {}
            /\ ends = [t \in HeadThreads |-> [pc |-> "new", curr |-> {}, bit |-> 0, ops |-> 0]]

HeadAt(t, l) == ends[t].pc = l
HeadGoto(t, l) == ends' = [ends EXCEPT ![t].pc = l]

\* init: the fast path, else the lock.
InitFast(t) ==
  /\ HeadAt(t, "new")
  /\ HeadGoto(t, IF constructed THEN "open" ELSE "lock")
  /\ UNCHANGED <<lc, constructed, cc>>

\* SpinLock::lock swaps 1 in until it gets 0 back.
SpinLock(t) ==
  /\ HeadAt(t, "lock") /\ lc = 0
  /\ lc' = 1 /\ HeadGoto(t, "check")
  /\ UNCHANGED <<constructed, cc>>

\* Seeded fault: the head is not looked at again under the lock.
InitCheck_Once(t) ==
  /\ HeadAt(t, "check")
  /\ HeadGoto(t, "zero")
  /\ UNCHANGED <<lc, constructed, cc>>

\* Seeded fault: the early way out forgets the lock.
InitCheck_KeepsLock(t) ==
  /\ HeadAt(t, "check")
  /\ HeadGoto(t, IF constructed THEN "open" ELSE "zero")
  /\ UNCHANGED <<lc, constructed, cc>>

InitCheck(t) ==
  /\ HeadAt(t, "check")
  /\ HeadGoto(t, IF constructed THEN "unlock" ELSE "zero")
  /\ UNCHANGED <<lc, constructed, cc>>

InitZero(t) ==
  /\ HeadAt(t, "zero")
  /\ cc' = {} /\ HeadGoto(t, "publish")
  /\ UNCHANGED <<lc, constructed>>

InitPublish(t) ==
  /\ HeadAt(t, "publish")
  /\ constructed' = TRUE /\ HeadGoto(t, "unlock")
  /\ UNCHANGED <<lc, cc>>

SpinUnlock(t) ==
  /\ HeadAt(t, "unlock")
  /\ lc' = 0 /\ HeadGoto(t, "open")
  /\ UNCHANGED <<constructed, cc>>

\* The word as it is now is what the CAS will expect.
Expect(t, n) == ends' = [ends EXCEPT ![t] = [@ EXCEPT !.curr = cc, !.ops = n,
                                                      !.pc = IF cc = Bits THEN "open" ELSE "cas"]]

\* connect: load, then set the lowest clear bit by CAS; 0 when all are set.
ConnectLoad(t) ==
  /\ HeadAt(t, "open") /\ ends[t].ops < HeadOps
  /\ Expect(t, ends[t].ops + 1)
  /\ UNCHANGED <<lc, constructed, cc>>

Lowest(S) == {b \in S : \A x \in S : b <= x}

\* A lost CAS loads again.
ConnectCas(t) ==
  /\ HeadAt(t, "cas")
  /\ IF cc = ends[t].curr
     THEN \E b \in Lowest(Bits \ cc) :
            /\ cc' = cc \cup {b}
            /\ ends' = [ends EXCEPT ![t] = [@ EXCEPT !.pc = "in", !.curr = {}, !.bit = b]]
     ELSE Expect(t, ends[t].ops) /\ UNCHANGED cc
  /\ UNCHANGED <<lc, constructed>>

Disconnect(t) ==
  /\ HeadAt(t, "in")
  /\ cc' = cc \ {ends[t].bit}
  /\ ends' = [ends EXCEPT ![t] = [@ EXCEPT !.pc = "open", !.bit = 0]]
  /\ UNCHANGED <<lc, constructed>>

\* Killed: "stuck" if it held the lock, "gone" if it was connected.
HeadLocked == {"check", "zero", "publish", "unlock"}
Killed == {"dead", "stuck", "gone"}
HeadDie(t) ==
  /\ t \in HeadMayDie /\ ends[t].pc \notin Killed
  /\ HeadGoto(t, CASE ends[t].pc \in HeadLocked -> "stuck"
                   [] ends[t].pc = "in" -> "gone"
                   [] OTHER -> "dead")
  /\ UNCHANGED <<lc, constructed, cc>>

HeadDone == /\ \A t \in HeadThreads : \/ HeadAt(t, "open") /\ ends[t].ops = HeadOps
                                      \/ ends[t].pc \in Killed
                                      \/ HeadAt(t, "lock") /\ lc = 1
            /\ UNCHANGED head_vars

Construct(t) == \/ InitFast(t) \/ SpinLock(t) \/ InitCheck(t) \/ InitZero(t)
                \/ InitPublish(t) \/ SpinUnlock(t)

HeadNext == \/ \E t \in HeadThreads : \/ Construct(t) \/ ConnectLoad(t) \/ ConnectCas(t)
                                      \/ Disconnect(t) \/ HeadDie(t)
            \/ HeadDone

HeadSpec == HeadInit /\ [][HeadNext]_head_vars

-----------------------------------------------------------------------------
\* Connected receivers and those killed while they were.
Holders == {t \in HeadThreads : ends[t].pc \in {"in", "gone"}}

\* "Initialises the ring header exactly once": no late init wipes the bit of
\* a receiver that has connected, no bit is taken that is nobody's, and no two
\* receivers get the same one, not even that of one that was killed.
BitsAreOwned ==
  /\ cc = {ends[t].bit : t \in Holders}
  /\ \A t, u \in Holders : ends[t].bit = ends[u].bit => t = u

\* t is through init, or the header's spin lock, which nothing recovers, went
\* with its holder.
Through(t) == ends[t].pc \in {"open"} \cup Killed \/ \E u \in HeadThreads : HeadAt(u, "stuck")
=============================================================================
