------------------------------ MODULE SyncAbi ------------------------------
(***************************************************************************)
(* The sidecar stamp that keeps incompatible builds off one primitive:     *)
(* ensure, init_or_validate_within, validate and clear_*_storage.  Openers *)
(* of different builds race for the stamp; an initialiser may be killed    *)
(* half way.  Clearing the name gives later openers a fresh stamp.         *)
(***************************************************************************)
EXTENDS Integers

CONSTANTS
  AbiProcs,
  Builds,      \* what a build expects of the five fields
  Fields,      \* the fields in the order they are stored, 1 .. 5 in the code
  MaxStamps       \* bound: stamps made by clearing the name

VARIABLES
  magic,       \* of each stamp: "zero", "init" or "live"
  field,       \* of each stamp: its fields, 0 when not stored
  gen,         \* the stamp under the name
  build,       \* the build of each process
  opener            \* [pc, stamp opened, next field to store]

abi_vars == <<magic, field, gen, build, opener>>
Stamps == 1 .. MaxStamps
LastField == CHOOSE f \in Fields : \A g \in Fields : g <= f
AbiIdle == [pc |-> "idle", g |-> 0, f |-> 1]

AbiInit == /\ magic = [g \in Stamps |-> "zero"]
           /\ field = [g \in Stamps |-> [f \in Fields |-> 0]]
           /\ gen = 1 /\ build \in [AbiProcs -> Builds]
           /\ opener = [t \in AbiProcs |-> AbiIdle]

AbiAt(t, l) == opener[t].pc = l
AbiGoto(t, l) == opener' = [opener EXCEPT ![t].pc = l]
AbiAdvance(t, l) == opener' = [opener EXCEPT ![t] = [pc |-> l, g |-> @.g, f |-> @.f + 1]]

\* ensure: map the sidecar.
Ensure(t) ==
  /\ AbiAt(t, "idle") /\ opener' = [opener EXCEPT ![t] = [@ EXCEPT !.pc = "load", !.g = gen]]
  /\ UNCHANGED <<magic, field, gen, build>>

\* Load the magic: validate a live stamp, claim a blank one, wait for one that
\* is being initialised.
LoadMagic(t) ==
  LET m == magic[opener[t].g]
  IN /\ AbiAt(t, "load")
     /\ AbiGoto(t, IF m = "live" THEN "validate" ELSE IF m = "zero" THEN "claim" ELSE "wait")
     /\ UNCHANGED <<magic, field, gen, build>>

\* Seeded fault: wait again and again.
Wait_Forever(t) == AbiAt(t, "wait") /\ AbiGoto(t, "load") /\ UNCHANGED <<magic, field, gen, build>>

\* The initialiser came through, or the deadline did.
AbiWait(t) ==
  /\ AbiAt(t, "wait")
  /\ \/ magic[opener[t].g] # "init" /\ AbiGoto(t, "load")
     \/ magic[opener[t].g] = "init" /\ AbiGoto(t, "timed_out")
  /\ UNCHANGED <<magic, field, gen, build>>

\* Seeded fault: the claim is a store.
Claim_Store(t) ==
  /\ AbiAt(t, "claim")
  /\ magic' = [magic EXCEPT ![opener[t].g] = "init"] /\ AbiGoto(t, "store")
  /\ UNCHANGED <<field, gen, build>>

AbiClaim(t) ==
  /\ AbiAt(t, "claim")
  /\ IF magic[opener[t].g] = "zero"
     THEN magic' = [magic EXCEPT ![opener[t].g] = "init"] /\ AbiGoto(t, "store")
     ELSE AbiGoto(t, "load") /\ UNCHANGED magic
  /\ UNCHANGED <<field, gen, build>>

StoreField(t) ==
  /\ AbiAt(t, "store")
  /\ field' = [field EXCEPT ![opener[t].g][opener[t].f] = build[t]]
  /\ AbiAdvance(t, IF opener[t].f = LastField THEN "publish" ELSE "store")
  /\ UNCHANGED <<magic, gen, build>>

Publish(t) ==
  /\ AbiAt(t, "publish")
  /\ magic' = [magic EXCEPT ![opener[t].g] = "live"] /\ AbiGoto(t, "ok")
  /\ UNCHANGED <<field, gen, build>>

\* validate: every field as this build expects it.
Validate(t) ==
  /\ AbiAt(t, "validate")
  /\ AbiGoto(t, IF \A f \in Fields : field[opener[t].g][f] = build[t] THEN "ok" ELSE "mismatch")
  /\ UNCHANGED <<magic, field, gen, build>>

\* clear_mutex_storage, clear_condition_storage.
AbiClear ==
  /\ gen < MaxStamps /\ gen' = gen + 1
  /\ UNCHANGED <<magic, field, build, opener>>

AbiDie(t) ==
  /\ opener[t].pc \notin {"idle", "ok", "mismatch", "timed_out", "dead"}
  /\ AbiGoto(t, "dead") /\ UNCHANGED <<magic, field, gen, build>>

AbiStep(t) == \/ LoadMagic(t) \/ AbiWait(t) \/ AbiClaim(t) \/ StoreField(t) \/ Publish(t) \/ Validate(t)

AbiDone == /\ gen = MaxStamps /\ \A t \in AbiProcs : opener[t].pc \in {"ok", "mismatch", "timed_out", "dead"}
           /\ UNCHANGED abi_vars

AbiNext == (\E t \in AbiProcs : Ensure(t) \/ AbiStep(t) \/ AbiDie(t)) \/ AbiClear \/ AbiDone

AbiSpec == AbiInit /\ [][AbiNext]_abi_vars

-----------------------------------------------------------------------------
\* Two openers of one stamp that are both let through are of one build, and
\* the stamp says so: init_or_validate lets no other in, however the two race
\* for it and wherever an initialiser dies.
AbiAgrees ==
  \A t \in AbiProcs : AbiAt(t, "ok") =>
    /\ magic[opener[t].g] = "live"
    /\ \A f \in Fields : field[opener[t].g][f] = build[t]

Returned(t) == opener[t].pc \in {"ok", "mismatch", "timed_out", "dead"}
=============================================================================
