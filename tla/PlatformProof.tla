---------------------------- MODULE PlatformProof ----------------------------
(***************************************************************************)
(* The stamp of a primitive, the token of the sole sender and the bits of  *)
(* the receivers, for every number of processes, builds, fields,           *)
(* endpoints, bits and lives of a process id, and the single-producer ring *)
(* for every capacity; and the cache of mappings for every number of       *)
(* handles.                                                                *)
(***************************************************************************)
EXTENDS SyncAbi, SoleSender, Reaper, ShmRing, ShmCache, TLAPS

\* A function changed at one argument.
LEMMA Updated ==
  ASSUME NEW D, NEW R, NEW f \in [D -> R], NEW t \in D, NEW v \in R,
         NEW g, g = [f EXCEPT ![t] = v]
  PROVE  /\ g \in [D -> R] /\ g[t] = v
         /\ \A u \in D : u # t => g[u] = f[u]
BY Zenon

-----------------------------------------------------------------------------
(* SyncAbi *)

AbiLabels == {"idle", "load", "wait", "claim", "store", "publish", "validate",
              "ok", "mismatch", "timed_out", "dead"}

Openers == [pc : AbiLabels, g : Stamps \cup {0}, f : Nat]
AbiTypes ==
  /\ magic \in [Stamps -> {"zero", "init", "live"}]
  /\ field \in [Stamps -> [Fields -> Builds \cup {0}]]
  /\ gen \in Stamps
  /\ build \in [AbiProcs -> Builds]
  /\ opener \in [AbiProcs -> Openers]
  /\ \A t \in AbiProcs : opener[t].pc # "idle" => opener[t].g \in Stamps

\* Between the claim and the publication.
AbiOwner(t) == opener[t].pc \in {"store", "publish"}

\* The stamp of an initialiser is in initialisation, is its own alone, and has
\* this build in the fields it has stored: all of them at the publication.
AbiOwned ==
  \A t \in AbiProcs : AbiOwner(t) =>
    /\ magic[opener[t].g] = "init"
    /\ \A u \in AbiProcs : AbiOwner(u) /\ opener[u].g = opener[t].g => u = t
    /\ \A f \in Fields : f < opener[t].f \/ opener[t].pc = "publish" => field[opener[t].g][f] = build[t]

AbiLive == \A t \in AbiProcs : opener[t].pc \in {"validate", "ok"} => magic[opener[t].g] = "live"

\* Who has not claimed yet starts with the first field.
AbiFresh == \A t \in AbiProcs : opener[t].pc \in {"idle", "load", "wait", "claim"} => opener[t].f = 1

AbiInv == AbiTypes /\ AbiOwned /\ AbiLive /\ AbiAgrees /\ AbiFresh

-----------------------------------------------------------------------------
\* The last field is the greatest: storing it completes the stamp.
LEMMA LastIsGreatest ==
  ASSUME NEW n \in Nat \ {0}, Fields = 1 .. n
  PROVE  LastField = n
<1>1. n \in Fields /\ \A g \in Fields : g <= n
  OBVIOUS
<1>2. LastField \in Fields /\ \A g \in Fields : g <= LastField
  BY <1>1, Zenon DEF LastField
<1> QED
  BY <1>1, <1>2, SMT

\* An opener that has just failed, or just begun, disturbs no agreement.
LEMMA AbiAgreesKept ==
  ASSUME AbiAgrees, UNCHANGED <<magic, field, build>>,
         \A u \in AbiProcs : opener'[u].pc = "ok" => opener'[u] = opener[u]
  PROVE  AbiAgrees'
<1> SUFFICES ASSUME NEW u \in AbiProcs, opener'[u].pc = "ok"
             PROVE  /\ magic'[opener'[u].g] = "live"
                    /\ \A f \in Fields : field'[opener'[u].g][f] = build'[u]
  BY Zenon DEF AbiAgrees, AbiAt
<1>1. opener'[u] = opener[u] /\ opener[u].pc = "ok"
  BY Zenon
<1>2. magic[opener[u].g] = "live" /\ \A f \in Fields : field[opener[u].g][f] = build[u]
  BY <1>1, Zenon DEF AbiAgrees, AbiAt
<1> QED
  BY <1>1, <1>2, Zenon

\* Nor does one that is not an initialiser disturb what those have stored.
LEMMA AbiOwnedKept ==
  ASSUME AbiOwned, UNCHANGED <<magic, field, build>>,
         \A u \in AbiProcs : AbiOwner(u)' => opener'[u] = opener[u]
  PROVE  AbiOwned'
<1>0. \A u \in AbiProcs : AbiOwner(u)' => AbiOwner(u)
  BY Zenon DEF AbiOwner
<1> SUFFICES ASSUME NEW t \in AbiProcs, AbiOwner(t)'
             PROVE  /\ magic'[opener'[t].g] = "init"
                    /\ \A u \in AbiProcs : AbiOwner(u)' /\ opener'[u].g = opener'[t].g => u = t
                    /\ \A f \in Fields : f < opener'[t].f \/ opener'[t].pc = "publish"
                                        => field'[opener'[t].g][f] = build'[t]
  BY Zenon DEF AbiOwned
<1>1. AbiOwner(t) /\ opener'[t] = opener[t]
  BY <1>0, Zenon
<1>2. /\ magic[opener[t].g] = "init"
      /\ \A u \in AbiProcs : AbiOwner(u) /\ opener[u].g = opener[t].g => u = t
      /\ \A f \in Fields : f < opener[t].f \/ opener[t].pc = "publish" => field[opener[t].g][f] = build[t]
  BY <1>1, Zenon DEF AbiOwned
<1>3. ASSUME NEW u \in AbiProcs, AbiOwner(u)', opener'[u].g = opener'[t].g PROVE u = t
  BY <1>0, <1>1, <1>2, <1>3, Zenon
<1> QED
  BY <1>1, <1>2, <1>3, Zenon

LEMMA AbiInvInit ==
  ASSUME NEW n \in Nat \ {0}, Fields = 1 .. n, MaxStamps \in Nat \ {0}, AbiInit
  PROVE  AbiInv
<1>1. opener \in [AbiProcs -> Openers] /\ \A t \in AbiProcs : opener[t] = AbiIdle
  <2>1. AbiIdle \in Openers
    BY SMT DEF AbiIdle, Openers, AbiLabels, Stamps
  <2> QED
    BY <2>1, Zenon DEF AbiInit
<1>2. \A t \in AbiProcs : opener[t].pc = "idle" /\ opener[t].f = 1
  <2>1. AbiIdle.pc = "idle" /\ AbiIdle.f = 1
    BY Zenon DEF AbiIdle
  <2> QED
    BY <1>1, <2>1, Zenon
<1>3. gen \in Stamps
  BY SMT DEF AbiInit, Stamps
<1>4. AbiTypes
  BY <1>1, <1>2, <1>3, Zenon DEF AbiInit, AbiTypes
<1>5. AbiOwned /\ AbiLive /\ AbiAgrees /\ AbiFresh
  BY <1>2, Zenon DEF AbiOwned, AbiOwner, AbiLive, AbiAgrees, AbiFresh, AbiAt
<1> QED
  BY <1>4, <1>5, Zenon DEF AbiInv

\* A step of one thread to another label.
LEMMA AbiMoves ==
  ASSUME AbiTypes, NEW t \in AbiProcs, NEW l \in AbiLabels \ {"idle"}, AbiGoto(t, l), ~AbiAt(t, "idle")
  PROVE  /\ opener' \in [AbiProcs -> Openers]
         /\ opener'[t].pc = l /\ opener'[t].g = opener[t].g /\ opener'[t].f = opener[t].f
         /\ \A u \in AbiProcs : u # t => opener'[u] = opener[u]
         /\ \A u \in AbiProcs : opener'[u].pc # "idle" => opener'[u].g \in Stamps
<1> DEFINE e == [opener[t] EXCEPT !.pc = l]
<1>0. opener[t] \in Openers /\ l \in AbiLabels
  BY Zenon DEF AbiTypes
<1>1. e \in Openers /\ e.pc = l /\ e.g = opener[t].g /\ e.f = opener[t].f
  BY <1>0, Zenon DEF Openers
<1>2. opener' = [opener EXCEPT ![t] = e]
  BY Zenon DEF AbiGoto
<1> HIDE DEF e
<1>3. /\ opener' \in [AbiProcs -> Openers] /\ opener'[t] = e
      /\ \A u \in AbiProcs : u # t => opener'[u] = opener[u]
  BY <1>1, <1>2, Updated, Zenon DEF AbiTypes
<1>4. \A u \in AbiProcs : opener[u].pc # "idle" => opener[u].g \in Stamps
  BY Zenon DEF AbiTypes
<1> QED
  BY <1>1, <1>3, <1>4, Zenon DEF AbiAt

LEMMA AbiInvStep ==
  ASSUME NEW n \in Nat \ {0}, Fields = 1 .. n, MaxStamps \in Nat \ {0},
         AbiInv, [AbiNext]_abi_vars
  PROVE  AbiInv'
<1>a. AbiTypes
  BY Zenon DEF AbiInv
<1>b. AbiOwned
  BY Zenon DEF AbiInv
<1>c. AbiLive
  BY Zenon DEF AbiInv
<1>d. AbiAgrees
  BY Zenon DEF AbiInv
<1>g. AbiFresh
  BY Zenon DEF AbiInv
<1>e. \A u \in AbiProcs : opener[u].pc # "idle" => opener[u].g \in Stamps
  BY <1>a, Zenon DEF AbiTypes
<1>f. \A u \in AbiProcs : opener[u].f \in Nat
  BY <1>a, Zenon DEF AbiTypes, Openers
<1>1. ASSUME NEW t \in AbiProcs, Ensure(t) PROVE AbiInv'
  <2>9. opener[t].pc = "idle" /\ opener[t].f = 1
    BY <1>1, <1>g, Zenon DEF Ensure, AbiAt, AbiFresh
  <2> DEFINE e == [opener[t] EXCEPT !.pc = "load", !.g = gen]
  <2>a. opener[t] \in Openers /\ gen \in Stamps
    BY <1>a, Zenon DEF AbiTypes
  <2>b. e \in Openers /\ e.pc = "load" /\ e.g = gen /\ e.f = opener[t].f
    BY <2>a, Zenon DEF Openers, AbiLabels
  <2>c. opener' = [opener EXCEPT ![t] = e]
    BY <1>1, Zenon DEF Ensure
  <2> HIDE DEF e
  <2>0. /\ opener' \in [AbiProcs -> Openers] /\ opener'[t] = e
        /\ \A u \in AbiProcs : u # t => opener'[u] = opener[u]
    BY <1>a, <2>b, <2>c, Updated, Zenon DEF AbiTypes
  <2>1. /\ opener'[t].pc = "load" /\ opener'[t].g = gen /\ opener'[t].f = opener[t].f /\ gen \in Stamps
        /\ \A u \in AbiProcs : u # t => opener'[u] = opener[u]
    BY <2>0, <2>a, <2>b, Zenon
  <2>2. UNCHANGED <<magic, field, build>>
    BY <1>1, Zenon DEF Ensure
  <2>6. \A u \in AbiProcs : opener'[u].pc # "idle" => opener'[u].g \in Stamps
    BY <1>e, <2>1, Zenon
  <2>3. AbiTypes'
    BY <1>1, <1>a, <2>0, <2>6, Zenon DEF Ensure, AbiTypes
  <2>4. AbiOwned'
    <3>1. \A u \in AbiProcs : AbiOwner(u)' => opener'[u] = opener[u]
      BY <2>1, Zenon DEF AbiOwner
    <3> QED
      BY <1>b, <2>2, <3>1, AbiOwnedKept, Zenon
  <2>5. AbiLive'
    BY <1>c, <2>1, <2>2, <2>9, Zenon DEF AbiLive
  <2>7. AbiAgrees'
    <3>1. \A u \in AbiProcs : opener'[u].pc = "ok" => opener'[u] = opener[u]
      BY <2>1, Zenon
    <3> QED
      BY <1>d, <2>2, <3>1, AbiAgreesKept, Zenon
  <2>8. AbiFresh'
    BY <1>g, <2>1, <2>2, <2>9, Zenon DEF AbiFresh
  <2> QED
    BY <2>3, <2>4, <2>5, <2>7, <2>8, Zenon DEF AbiInv
<1>2. ASSUME NEW t \in AbiProcs, LoadMagic(t) PROVE AbiInv'
  <2>0. PICK l \in {"validate", "claim", "wait"} : AbiGoto(t, l) /\ (l = "validate" => magic[opener[t].g] = "live")
    BY <1>2, Zenon DEF LoadMagic
  <2>1. /\ opener'[t].pc = l /\ opener'[t].g = opener[t].g /\ opener'[t].f = opener[t].f
        /\ \A u \in AbiProcs : u # t => opener'[u] = opener[u]
        /\ \A u \in AbiProcs : opener'[u].pc # "idle" => opener'[u].g \in Stamps
    BY <1>2, <1>a, <2>0, AbiMoves, Zenon DEF LoadMagic, AbiAt, AbiLabels
  <2>9. opener' \in [AbiProcs -> Openers]
    BY <1>2, <1>a, <2>0, AbiMoves, Zenon DEF LoadMagic, AbiAt, AbiLabels
  <2>2. UNCHANGED <<magic, field, build>>
    BY <1>2, Zenon DEF LoadMagic
  <2>6. opener[t].pc = "load"
    BY <1>2, Zenon DEF LoadMagic, AbiAt
  <2>3. AbiTypes'
    BY <1>2, <1>a, <2>1, <2>9, Zenon DEF LoadMagic, AbiTypes
  <2>4. AbiOwned'
    <3>1. \A u \in AbiProcs : AbiOwner(u)' => opener'[u] = opener[u]
      BY <2>0, <2>1, Zenon DEF AbiOwner
    <3> QED
      BY <1>b, <2>2, <3>1, AbiOwnedKept, Zenon
  <2>5. AbiLive'
    BY <1>c, <2>0, <2>1, <2>2, <2>6, Zenon DEF AbiLive
  <2>7. AbiAgrees'
    BY <1>c, <1>d, <2>0, <2>1, <2>2, <2>6 DEF AbiLive, AbiAgrees, AbiAt
  <2>8. AbiFresh'
    BY <1>g, <2>0, <2>1, <2>2, <2>6, Zenon DEF AbiFresh
  <2> QED
    BY <2>3, <2>4, <2>5, <2>7, <2>8, Zenon DEF AbiInv
<1>3. ASSUME NEW t \in AbiProcs, AbiWait(t) PROVE AbiInv'
  <2>0. PICK l \in {"load", "timed_out"} : AbiGoto(t, l)
    BY <1>3, Zenon DEF AbiWait
  <2>1. /\ opener'[t].pc = l /\ opener'[t].g = opener[t].g /\ opener'[t].f = opener[t].f
        /\ \A u \in AbiProcs : u # t => opener'[u] = opener[u]
        /\ \A u \in AbiProcs : opener'[u].pc # "idle" => opener'[u].g \in Stamps
    BY <1>3, <1>a, <2>0, AbiMoves, Zenon DEF AbiWait, AbiAt, AbiLabels
  <2>9. opener' \in [AbiProcs -> Openers]
    BY <1>3, <1>a, <2>0, AbiMoves, Zenon DEF AbiWait, AbiAt, AbiLabels
  <2>2. UNCHANGED <<magic, field, build>>
    BY <1>3, Zenon DEF AbiWait
  <2>6. opener[t].pc = "wait"
    BY <1>3, Zenon DEF AbiWait, AbiAt
  <2>3. AbiTypes'
    BY <1>3, <1>a, <2>1, <2>9, Zenon DEF AbiWait, AbiTypes
  <2>4. AbiOwned'
    <3>1. \A u \in AbiProcs : AbiOwner(u)' => opener'[u] = opener[u]
      BY <2>0, <2>1, Zenon DEF AbiOwner
    <3> QED
      BY <1>b, <2>2, <3>1, AbiOwnedKept, Zenon
  <2>5. AbiLive'
    BY <1>c, <2>0, <2>1, <2>2, <2>6, Zenon DEF AbiLive
  <2>7. AbiAgrees'
    BY <1>c, <1>d, <2>0, <2>1, <2>2, <2>6 DEF AbiLive, AbiAgrees, AbiAt
  <2>8. AbiFresh'
    BY <1>g, <2>0, <2>1, <2>2, <2>6, Zenon DEF AbiFresh
  <2> QED
    BY <2>3, <2>4, <2>5, <2>7, <2>8, Zenon DEF AbiInv
<1>4. ASSUME NEW t \in AbiProcs, Validate(t) PROVE AbiInv'
  <2>0. PICK l \in {"ok", "mismatch"} : AbiGoto(t, l) /\ (l = "ok" => \A f \in Fields : field[opener[t].g][f] = build[t])
    BY <1>4, Zenon DEF Validate
  <2>1. /\ opener'[t].pc = l /\ opener'[t].g = opener[t].g /\ opener'[t].f = opener[t].f
        /\ \A u \in AbiProcs : u # t => opener'[u] = opener[u]
        /\ \A u \in AbiProcs : opener'[u].pc # "idle" => opener'[u].g \in Stamps
    BY <1>4, <1>a, <2>0, AbiMoves, Zenon DEF Validate, AbiAt, AbiLabels
  <2>9. opener' \in [AbiProcs -> Openers]
    BY <1>4, <1>a, <2>0, AbiMoves, Zenon DEF Validate, AbiAt, AbiLabels
  <2>2. UNCHANGED <<magic, field, build>>
    BY <1>4, Zenon DEF Validate
  <2>6. opener[t].pc = "validate"
    BY <1>4, Zenon DEF Validate, AbiAt
  <2>3. AbiTypes'
    BY <1>4, <1>a, <2>1, <2>9, Zenon DEF Validate, AbiTypes
  <2>4. AbiOwned'
    <3>1. \A u \in AbiProcs : AbiOwner(u)' => opener'[u] = opener[u]
      BY <2>0, <2>1, Zenon DEF AbiOwner
    <3> QED
      BY <1>b, <2>2, <3>1, AbiOwnedKept, Zenon
  <2>5. AbiLive'
    BY <1>c, <2>0, <2>1, <2>2, <2>6 DEF AbiLive
  <2>7. AbiAgrees'
    BY <1>c, <1>d, <2>0, <2>1, <2>2, <2>6 DEF AbiLive, AbiAgrees, AbiAt
  <2>8. AbiFresh'
    BY <1>g, <2>0, <2>1, <2>2, <2>6, Zenon DEF AbiFresh
  <2> QED
    BY <2>3, <2>4, <2>5, <2>7, <2>8, Zenon DEF AbiInv
<1>5. ASSUME NEW t \in AbiProcs, AbiDie(t) PROVE AbiInv'
  <2>0. PICK l \in {"dead"} : AbiGoto(t, l) /\ ~AbiAt(t, "idle")
    BY <1>5, Zenon DEF AbiDie, AbiAt
  <2>1. /\ opener'[t].pc = l /\ opener'[t].g = opener[t].g /\ opener'[t].f = opener[t].f
        /\ \A u \in AbiProcs : u # t => opener'[u] = opener[u]
        /\ \A u \in AbiProcs : opener'[u].pc # "idle" => opener'[u].g \in Stamps
    BY <1>5, <1>a, <2>0, AbiMoves, Zenon DEF AbiDie, AbiAt, AbiLabels
  <2>9. opener' \in [AbiProcs -> Openers]
    BY <1>5, <1>a, <2>0, AbiMoves, Zenon DEF AbiDie, AbiAt, AbiLabels
  <2>2. UNCHANGED <<magic, field, build>>
    BY <1>5, Zenon DEF AbiDie
  <2>3. AbiTypes'
    BY <1>5, <1>a, <2>1, <2>9, Zenon DEF AbiDie, AbiTypes
  <2>4. AbiOwned'
    <3>1. \A u \in AbiProcs : AbiOwner(u)' => opener'[u] = opener[u]
      BY <2>0, <2>1, Zenon DEF AbiOwner
    <3> QED
      BY <1>b, <2>2, <3>1, AbiOwnedKept, Zenon
  <2>5. AbiLive'
    BY <1>c, <2>0, <2>1, <2>2, Zenon DEF AbiLive
  <2>7. AbiAgrees'
    <3>1. \A u \in AbiProcs : opener'[u].pc = "ok" => opener'[u] = opener[u]
      BY <2>0, <2>1, Zenon
    <3> QED
      BY <1>d, <2>2, <3>1, AbiAgreesKept, Zenon
  <2>8. AbiFresh'
    BY <1>g, <2>0, <2>1, <2>2, Zenon DEF AbiFresh
  <2> QED
    BY <2>3, <2>4, <2>5, <2>7, <2>8, Zenon DEF AbiInv
<1>6. ASSUME NEW t \in AbiProcs, AbiClaim(t) PROVE AbiInv'
  <2>9. opener[t].pc = "claim" /\ opener[t].f = 1 /\ opener[t].g \in Stamps
    BY <1>6, <1>g, <1>e, Zenon DEF AbiClaim, AbiAt, AbiFresh
  <2>0. CASE magic[opener[t].g] # "zero"
    <3>1. AbiGoto(t, "load") /\ UNCHANGED <<magic, field, gen, build>>
      BY <1>6, <2>0, Zenon DEF AbiClaim
    <3>2. /\ opener'[t].pc = "load" /\ opener'[t].f = opener[t].f
          /\ \A u \in AbiProcs : u # t => opener'[u] = opener[u]
          /\ \A u \in AbiProcs : opener'[u].pc # "idle" => opener'[u].g \in Stamps
          /\ opener' \in [AbiProcs -> Openers]
      BY <1>6, <1>a, <2>9, <3>1, AbiMoves, Zenon DEF AbiClaim, AbiAt, AbiLabels
    <3>3. AbiTypes'
      BY <1>a, <3>1, <3>2, Zenon DEF AbiTypes
    <3>4. AbiOwned'
      BY <1>b, <3>1, <3>2, SMT DEF AbiOwned, AbiOwner
    <3>5. AbiLive'
      BY <1>c, <3>1, <3>2, SMT DEF AbiLive
    <3>6. AbiAgrees'
      BY <1>d, <3>1, <3>2, SMT DEF AbiAgrees, AbiAt
    <3>7. AbiFresh'
      BY <1>g, <2>9, <3>2, SMT DEF AbiFresh
    <3> QED
      BY <3>3, <3>4, <3>5, <3>6, <3>7, Zenon DEF AbiInv
  <2>1. CASE magic[opener[t].g] = "zero"
    <3>1. /\ AbiGoto(t, "store") /\ UNCHANGED <<field, gen, build>>
          /\ magic' = [magic EXCEPT ![opener[t].g] = "init"]
      BY <1>6, <2>1, Zenon DEF AbiClaim
    <3>2. /\ opener'[t].pc = "store" /\ opener'[t].g = opener[t].g /\ opener'[t].f = 1 /\ opener[t].g \in Stamps
          /\ \A u \in AbiProcs : u # t => opener'[u] = opener[u]
          /\ \A u \in AbiProcs : opener'[u].pc # "idle" => opener'[u].g \in Stamps
          /\ opener' \in [AbiProcs -> Openers]
      BY <1>6, <1>a, <2>9, <3>1, AbiMoves, Zenon DEF AbiClaim, AbiAt, AbiLabels
    <3>3. AbiTypes'
      BY <1>a, <3>1, <3>2, Zenon DEF AbiTypes
    <3>4. /\ magic'[opener[t].g] = "init"
          /\ \A g \in Stamps : g # opener[t].g => magic'[g] = magic[g]
      BY <1>a, <2>9, <3>1, Zenon DEF AbiTypes
    <3>0. UNCHANGED <<field, build>>
      BY <3>1, Zenon
    <3>5. \A u \in AbiProcs : AbiOwner(u) => opener[u].g # opener[t].g
      BY <1>b, <2>1, SMT DEF AbiOwned
    <3>6. \A u \in AbiProcs : opener[u].pc \in {"validate", "ok"} => opener[u].g # opener[t].g
      BY <1>c, <2>1, SMT DEF AbiLive
    <3>7. AbiOwned'
      BY <1>b, <1>e, <3>0, <3>2, <3>4, <3>5, SMT DEF AbiOwned, AbiOwner
    <3>8. AbiLive'
      BY <1>c, <1>e, <3>2, <3>4, <3>6, SMT DEF AbiLive
    <3>9. AbiAgrees'
      <4>1. SUFFICES ASSUME NEW u \in AbiProcs, opener'[u].pc = "ok"
                     PROVE  /\ magic'[opener'[u].g] = "live"
                            /\ \A f \in Fields : field'[opener'[u].g][f] = build'[u]
        BY Zenon DEF AbiAgrees, AbiAt
      <4>2. u # t /\ opener'[u] = opener[u] /\ opener[u].pc = "ok"
        BY <4>1, <3>2, SMT
      <4>3. opener[u].g \in Stamps /\ opener[u].g # opener[t].g
        BY <1>e, <3>6, <4>2, SMT
      <4>4. magic'[opener[u].g] = magic[opener[u].g]
        BY <3>4, <4>3, Zenon
      <4>5. magic[opener[u].g] = "live" /\ \A f \in Fields : field[opener[u].g][f] = build[u]
        BY <1>d, <4>2, Zenon DEF AbiAgrees, AbiAt
      <4> QED
        BY <4>2, <4>4, <4>5, <3>0, Zenon
    <3>10. AbiFresh'
      BY <1>g, <3>2, SMT DEF AbiFresh
    <3> QED
      BY <3>3, <3>7, <3>8, <3>9, <3>10, Zenon DEF AbiInv
  <2> QED
    BY <2>0, <2>1, Zenon
<1>7. ASSUME NEW t \in AbiProcs, StoreField(t) PROVE AbiInv'
  <2>0. opener[t].pc = "store" /\ opener[t].g \in Stamps /\ opener[t].f + 1 \in Nat /\ build[t] \in Builds
    <3>1. opener[t].pc = "store" /\ build[t] \in Builds
      BY <1>7, <1>a, Zenon DEF StoreField, AbiAt, AbiTypes
    <3> QED
      BY <1>e, <1>f, <3>1, SMT
  <2>12. PICK l \in {"store", "publish"} : AbiAdvance(t, l) /\ (l = "publish" => opener[t].f = LastField)
    BY <1>7, Zenon DEF StoreField
  <2>13. LastField = n
    BY LastIsGreatest, Zenon
  <2> DEFINE e == [pc |-> l, g |-> opener[t].g, f |-> opener[t].f + 1]
  <2>a. e \in Openers /\ e.pc = l /\ e.g = opener[t].g /\ e.f = opener[t].f + 1
    BY <2>0, <2>12, Zenon DEF Openers, AbiLabels
  <2>b. opener' = [opener EXCEPT ![t] = e]
    BY <2>12, Zenon DEF AbiAdvance
  <2> HIDE DEF e
  <2>3. /\ opener' \in [AbiProcs -> Openers] /\ opener'[t] = e
        /\ \A u \in AbiProcs : u # t => opener'[u] = opener[u]
    BY <1>a, <2>a, <2>b, Updated, Zenon DEF AbiTypes
  <2>1. /\ opener'[t].g = opener[t].g /\ opener'[t].f = opener[t].f + 1 /\ opener'[t].pc \in {"store", "publish"}
        /\ opener'[t].pc = "publish" => opener[t].f = n
        /\ \A u \in AbiProcs : u # t => opener'[u] = opener[u]
    BY <2>3, <2>a, <2>12, <2>13, Zenon
  <2>2. UNCHANGED <<magic, build>>
    BY <1>7, Zenon DEF StoreField
  <2>4. field' \in [Stamps -> [Fields -> Builds \cup {0}]]
    BY <1>7, <1>a, <2>0, Zenon DEF StoreField, AbiTypes
  <2>5. AbiTypes'
    BY <1>7, <1>a, <1>e, <2>0, <2>1, <2>3, <2>4, Zenon DEF StoreField, AbiTypes
  <2>6. /\ \A g \in Stamps : g # opener[t].g => field'[g] = field[g]
        /\ opener[t].f \in Fields => field'[opener[t].g][opener[t].f] = build[t]
        /\ \A f \in Fields : f # opener[t].f => field'[opener[t].g][f] = field[opener[t].g][f]
    BY <1>7, <1>a, <2>0, SMT DEF StoreField, AbiTypes
  <2>7. AbiOwned'
    <3>1. /\ magic[opener[t].g] = "init"
          /\ \A u \in AbiProcs : AbiOwner(u) /\ opener[u].g = opener[t].g => u = t
          /\ \A f \in Fields : f < opener[t].f => field[opener[t].g][f] = build[t]
      BY <1>b, <2>0, Zenon DEF AbiOwned, AbiOwner
    <3>2. \A f \in Fields : f < opener[t].f + 1 \/ opener[t].f = n => f = opener[t].f \/ f < opener[t].f
      BY <1>f, SMT
    <3>3. \A f \in Fields : f < opener'[t].f \/ opener'[t].pc = "publish" => field'[opener[t].g][f] = build[t]
      <4>1. SUFFICES ASSUME NEW f \in Fields, f < opener[t].f + 1 \/ opener[t].f = n
                     PROVE  field'[opener[t].g][f] = build[t]
        BY <2>1, Zenon
      <4>2. CASE f = opener[t].f
        BY <2>6, <4>2, Zenon
      <4>3. CASE f < opener[t].f /\ f # opener[t].f
        BY <2>6, <3>1, <4>3, Zenon
      <4> QED
        BY <3>2, <4>1, <4>2, <4>3, Zenon
    <3>4. \A u \in AbiProcs : AbiOwner(u) /\ u # t => field'[opener[u].g] = field[opener[u].g] /\ opener[u].g # opener[t].g
      BY <1>e, <2>6, <3>1, SMT DEF AbiOwner
    <3>5. AbiOwner(t)
      BY <2>0, Zenon DEF AbiOwner
    <3> QED
      BY <1>b, <2>1, <2>2, <3>1, <3>3, <3>4, <3>5, SMT DEF AbiOwned, AbiOwner
  <2>8. \A u \in AbiProcs : opener[u].pc \in {"validate", "ok"} => opener[u].g # opener[t].g
    BY <1>b, <1>c, <2>0, SMT DEF AbiOwned, AbiOwner, AbiLive
  <2>9. AbiLive'
    BY <1>c, <2>1, <2>2, Zenon DEF AbiLive
  <2>10. AbiAgrees'
    BY <1>d, <1>e, <2>1, <2>2, <2>6, <2>8, SMT DEF AbiAgrees, AbiAt
  <2>11. AbiFresh'
    BY <1>g, <2>1, Zenon DEF AbiFresh
  <2> QED
    BY <2>5, <2>7, <2>9, <2>10, <2>11, Zenon DEF AbiInv
<1>8. ASSUME NEW t \in AbiProcs, Publish(t) PROVE AbiInv'
  <2>0. opener[t].pc = "publish" /\ opener[t].g \in Stamps
    BY <1>8, <1>e, SMT DEF Publish, AbiAt
  <2>1. /\ opener'[t].pc = "ok" /\ opener'[t].g = opener[t].g
        /\ \A u \in AbiProcs : u # t => opener'[u] = opener[u]
        /\ \A u \in AbiProcs : opener'[u].pc # "idle" => opener'[u].g \in Stamps
    BY <1>8, <1>a, AbiMoves, Zenon DEF Publish, AbiAt, AbiLabels
  <2>2. UNCHANGED <<field, build>>
    BY <1>8, Zenon DEF Publish
  <2>3. opener' \in [AbiProcs -> Openers]
    BY <1>8, <1>a, AbiMoves, Zenon DEF Publish, AbiAt, AbiLabels
  <2>4. AbiTypes'
    BY <1>8, <1>a, <2>1, <2>3, Zenon DEF Publish, AbiTypes
  <2>5. /\ magic'[opener[t].g] = "live"
        /\ \A g \in Stamps : g # opener[t].g => magic'[g] = magic[g]
    BY <1>8, <1>a, <2>0, Zenon DEF Publish, AbiTypes
  <2>6. /\ \A u \in AbiProcs : AbiOwner(u) /\ opener[u].g = opener[t].g => u = t
        /\ \A f \in Fields : field[opener[t].g][f] = build[t]
    BY <1>b, <2>0, Zenon DEF AbiOwned, AbiOwner
  <2>7. AbiOwned'
    <3>1. \A u \in AbiProcs : AbiOwner(u)' => AbiOwner(u) /\ u # t /\ opener'[u] = opener[u]
      BY <2>1, Zenon DEF AbiOwner
    <3>2. \A u \in AbiProcs : AbiOwner(u) /\ u # t => magic'[opener[u].g] = magic[opener[u].g]
      <4>1. \A u \in AbiProcs : AbiOwner(u) => opener[u].g \in Stamps
        BY <1>e, Zenon DEF AbiOwner
      <4> QED
        BY <2>5, <2>6, <4>1, Zenon
    <3>3. field' = field /\ build' = build
      BY <2>2, Zenon
    <3> SUFFICES ASSUME NEW u \in AbiProcs, AbiOwner(u)'
                 PROVE  /\ magic'[opener'[u].g] = "init"
                        /\ \A v \in AbiProcs : AbiOwner(v)' /\ opener'[v].g = opener'[u].g => v = u
                        /\ \A f \in Fields : f < opener'[u].f \/ opener'[u].pc = "publish"
                                              => field'[opener'[u].g][f] = build'[u]
      BY Zenon DEF AbiOwned
    <3>4. AbiOwner(u) /\ u # t /\ opener'[u] = opener[u]
      BY <3>1, Zenon
    <3>5. magic'[opener'[u].g] = "init"
      BY <1>b, <3>2, <3>4, Zenon DEF AbiOwned
    <3>6. \A v \in AbiProcs : AbiOwner(v)' /\ opener'[v].g = opener'[u].g => v = u
      BY <1>b, <3>1, <3>4, Zenon DEF AbiOwned
    <3>7. \A f \in Fields : f < opener[u].f \/ opener[u].pc = "publish"
                            => field[opener[u].g][f] = build[u]
      BY <1>b, <3>4, Zenon DEF AbiOwned
    <3> QED
      BY <3>3, <3>4, <3>5, <3>6, <3>7, Zenon
  <2>8. AbiLive'
    BY <1>c, <1>e, <2>0, <2>1, <2>5, SMT DEF AbiLive
  <2>9. AbiAgrees'
    BY <1>d, <1>e, <2>0, <2>1, <2>2, <2>5, <2>6, SMT DEF AbiAgrees, AbiAt
  <2>10. AbiFresh'
    BY <1>g, <2>1, Zenon DEF AbiFresh
  <2> QED
    BY <2>4, <2>7, <2>8, <2>9, <2>10, Zenon DEF AbiInv
<1>9. ASSUME gen' \in Stamps, UNCHANGED <<magic, field, build, opener>> PROVE AbiInv'
  <2>1. AbiTypes'
    BY <1>a, <1>9, Zenon DEF AbiTypes
  <2>2. AbiOwned'
    BY <1>b, <1>9 DEF AbiOwned, AbiOwner
  <2>3. AbiLive'
    BY <1>c, <1>9, Zenon DEF AbiLive
  <2>4. AbiAgrees'
    BY <1>d, <1>9, Zenon DEF AbiAgrees, AbiAt
  <2>5. AbiFresh'
    BY <1>g, <1>9, Zenon DEF AbiFresh
  <2> QED
    BY <2>1, <2>2, <2>3, <2>4, <2>5, Zenon DEF AbiInv
<1>10. AbiClear => gen' \in Stamps /\ UNCHANGED <<magic, field, build, opener>>
  BY <1>a, SMT DEF AbiClear, AbiTypes, Stamps
<1>11. UNCHANGED abi_vars => gen' \in Stamps /\ UNCHANGED <<magic, field, build, opener>>
  BY <1>a, Zenon DEF abi_vars, AbiTypes
<1> QED
  BY <1>1, <1>2, <1>3, <1>4, <1>5, <1>6, <1>7, <1>8, <1>9, <1>10, <1>11, Zenon
     DEF AbiNext, AbiStep, AbiDone

-----------------------------------------------------------------------------
\* init_or_validate lets openers of two builds through one stamp in no
\* behaviour, however many processes, builds and fields there are.
THEOREM AbiCorrect ==
  ASSUME NEW n \in Nat \ {0}, Fields = 1 .. n, MaxStamps \in Nat \ {0}
  PROVE  AbiSpec => []AbiAgrees
<1>1. AbiInit => AbiInv
  BY AbiInvInit, Zenon
<1>2. AbiInv /\ [AbiNext]_abi_vars => AbiInv'
  BY AbiInvStep, Zenon
<1>3. AbiInv => AbiAgrees
  BY Zenon DEF AbiInv
<1> QED
  BY <1>1, <1>2, <1>3, PTL DEF AbiSpec

-----------------------------------------------------------------------------
(* SoleSender *)

SoleSetting == /\ SoleProcs \cap {Free, Claiming} = {}
               /\ ProcOf \in [Endpoints -> SoleProcs]

SoleTypes == /\ pid \in SoleProcs \cup {Free, Claiming}
             /\ alive \in [SoleProcs -> BOOLEAN] /\ life \in [SoleProcs -> Nat]
             /\ pc \in [Endpoints -> SoleLabels]
             /\ cur \in [Endpoints -> SoleProcs \cup {Free}]

\* The endpoints of a dead process are nowhere.
DeadOut == \A e \in Endpoints : ~alive[ProcOf[e]] => pc[e] = "out"

\* OWNER_CLAIMING is a lock: one endpoint is between its CAS and its store.
InClaim(e) == pc[e] \in {"store_tok", "store_pid"}
Claimer == \A e \in Endpoints : InClaim(e) =>
             pid = Claiming /\ \A f \in Endpoints : InClaim(f) => f = e

\* Under it the token is stored before the pid.
TokFirst == \A e \in Endpoints : pc[e] = "store_pid" => start_tok \in {NoTok, start_token(ProcOf[e])}

SoleInv == SoleTypes /\ DeadOut /\ Claimer /\ TokFirst /\ OwnToken

-----------------------------------------------------------------------------
LEMMA SoleInvInit ==
  ASSUME SoleSetting, SoleInit PROVE SoleInv
<1>1. SoleTypes
  BY Zenon DEF SoleSetting, SoleInit, SoleTypes, SoleLabels
<1>2. DeadOut /\ Claimer /\ TokFirst /\ OwnToken
  BY Zenon DEF SoleSetting, SoleInit, DeadOut, Claimer, InClaim, TokFirst, OwnToken, Holding
<1> QED
  BY <1>1, <1>2, Zenon DEF SoleInv

\* A step of an endpoint that leaves the record alone and does not enter the
\* claim or the right to send.
LEMMA SoleQuiet ==
  ASSUME SoleSetting, SoleInv, NEW e \in Endpoints, alive[ProcOf[e]],
         NEW l \in SoleLabels, SoleGoto(e, l),
         l \in {"out", "tok", "alive", "cas"} \/ (l \in Holding /\ pc[e] \in Holding),
         UNCHANGED <<pid, start_tok, alive, life>>,
         cur' \in [Endpoints -> SoleProcs \cup {Free}]
  PROVE  SoleInv'
<1>0. SoleTypes /\ DeadOut /\ Claimer /\ TokFirst /\ OwnToken
  BY Zenon DEF SoleInv
<1>1. SoleTypes'
  BY <1>0, Zenon DEF SoleGoto, SoleTypes
<1>2. pc'[e] = l /\ \A f \in Endpoints : f # e => pc'[f] = pc[f]
  BY <1>0, Zenon DEF SoleGoto, SoleTypes
<1>3. DeadOut'
  BY <1>0, <1>2, Zenon DEF DeadOut
<1>4. Claimer'
  BY <1>0, <1>2, Zenon DEF Claimer, InClaim, Holding
<1>5. TokFirst'
  BY <1>0, <1>2, Zenon DEF TokFirst, Holding, start_token
<1>6. OwnToken'
  BY <1>0, <1>2, Zenon DEF OwnToken, Holding, start_token
<1> QED
  BY <1>1, <1>3, <1>4, <1>5, <1>6, Zenon DEF SoleInv

LEMMA SoleInvStep ==
  ASSUME SoleSetting, SoleInv, [SoleNext]_sole_vars PROVE SoleInv'
<1>0. SoleTypes /\ DeadOut /\ Claimer /\ TokFirst /\ OwnToken
  BY Zenon DEF SoleInv
<1>a. Claiming \notin SoleProcs /\ Free \notin SoleProcs /\ Free # Claiming /\ \A e \in Endpoints : ProcOf[e] \in SoleProcs
  BY Zenon DEF SoleSetting, Free, Claiming
<1>1. ASSUME NEW e \in Endpoints, LoadPid(e) \/ LoadTok(e) \/ CheckAlive(e) PROVE SoleInv'
  <2>1. cur' \in [Endpoints -> SoleProcs \cup {Free}]
    BY <1>0, <1>1, Zenon DEF SoleTypes, LoadPid, LoadTok, CheckAlive, Forget
  <2>2. UNCHANGED <<pid, start_tok, alive, life>> /\ alive[ProcOf[e]]
    BY <1>1, Zenon DEF LoadPid, LoadTok, CheckAlive, SoleRuns
  <2>3. \E l \in {"out", "tok", "alive", "cas"} : SoleGoto(e, l)
    BY <1>1, Zenon DEF LoadPid, LoadTok, CheckAlive
  <2> QED
    BY <2>1, <2>2, <2>3, SoleQuiet, Zenon DEF SoleLabels
<1>2. ASSUME NEW e \in Endpoints, ClaimCas(e) PROVE SoleInv'
  <2>1. cur' \in [Endpoints -> SoleProcs \cup {Free}]
    BY <1>0, <1>2, Zenon DEF SoleTypes, ClaimCas, Forget
  <2>2. CASE pid # cur[e]
    BY <1>2, <2>1, <2>2, SoleQuiet, Zenon DEF ClaimCas, SoleRuns, SoleLabels
  <2>3. CASE pid = cur[e]
    <3>1. /\ SoleGoto(e, "store_tok") /\ pid' = Claiming /\ UNCHANGED <<start_tok, alive, life>>
          /\ alive[ProcOf[e]]
      BY <1>2, <2>3, Zenon DEF ClaimCas, SoleRuns
    <3>2. pid # Claiming
      BY <1>0, <1>a, <2>3, Zenon DEF SoleTypes
    <3>3. pc'[e] = "store_tok" /\ \A f \in Endpoints : f # e => pc'[f] = pc[f]
      BY <1>0, <3>1, Zenon DEF SoleGoto, SoleTypes
    <3>4. SoleTypes'
      BY <1>0, <2>1, <3>1, Zenon DEF SoleGoto, SoleTypes, SoleLabels
    <3>5. DeadOut'
      BY <1>0, <3>1, <3>3, Zenon DEF DeadOut
    <3>6. Claimer'
      BY <1>0, <3>1, <3>2, <3>3, Zenon DEF Claimer, InClaim
    <3>7. TokFirst'
      BY <1>0, <3>1, <3>3, Zenon DEF TokFirst, start_token
    <3>8. OwnToken'
      BY <1>a, <3>1, Zenon DEF OwnToken
    <3> QED
      BY <3>4, <3>5, <3>6, <3>7, <3>8, Zenon DEF SoleInv
  <2> QED
    BY <2>2, <2>3, Zenon
<1>3. ASSUME NEW e \in Endpoints, StoreTok(e) PROVE SoleInv'
  <2>1. /\ SoleGoto(e, "store_pid") /\ UNCHANGED <<pid, alive, life, cur>> /\ alive[ProcOf[e]]
        /\ pc[e] = "store_tok" /\ start_tok' = start_token(ProcOf[e])
    BY <1>3, Zenon DEF StoreTok, SoleRuns
  <2>2. pc'[e] = "store_pid" /\ \A f \in Endpoints : f # e => pc'[f] = pc[f]
    BY <1>0, <2>1, Zenon DEF SoleGoto, SoleTypes
  <2>3. pid = Claiming /\ \A f \in Endpoints : InClaim(f) => f = e
    BY <1>0, <2>1, Zenon DEF Claimer, InClaim
  <2>4. SoleTypes'
    BY <1>0, <2>1, Zenon DEF SoleGoto, SoleTypes, SoleLabels
  <2>5. DeadOut'
    BY <1>0, <2>1, <2>2, Zenon DEF DeadOut
  <2>6. Claimer'
    BY <2>1, <2>2, <2>3, Zenon DEF Claimer, InClaim
  <2>7. TokFirst'
    BY <2>1, <2>2, <2>3, Zenon DEF TokFirst, InClaim, start_token
  <2>8. OwnToken'
    BY <1>a, <2>1, <2>3, Zenon DEF OwnToken
  <2> QED
    BY <2>4, <2>5, <2>6, <2>7, <2>8, Zenon DEF SoleInv
<1>4. ASSUME NEW e \in Endpoints, StorePid(e) PROVE SoleInv'
  <2>1. /\ SoleGoto(e, "holds") /\ UNCHANGED <<start_tok, alive, life, cur>> /\ alive[ProcOf[e]]
        /\ pc[e] = "store_pid" /\ pid' = ProcOf[e]
    BY <1>4, Zenon DEF StorePid, SoleRuns
  <2>2. pc'[e] = "holds" /\ \A f \in Endpoints : f # e => pc'[f] = pc[f]
    BY <1>0, <2>1, Zenon DEF SoleGoto, SoleTypes
  <2>3. \A f \in Endpoints : InClaim(f) => f = e
    BY <1>0, <2>1, Zenon DEF Claimer, InClaim
  <2>4. SoleTypes'
    BY <1>0, <1>a, <2>1, Zenon DEF SoleGoto, SoleTypes, SoleLabels
  <2>5. DeadOut'
    BY <1>0, <2>1, <2>2, Zenon DEF DeadOut
  <2>6. Claimer'
    BY <2>2, <2>3, Zenon DEF Claimer, InClaim
  <2>7. TokFirst'
    BY <2>2, <2>3, Zenon DEF TokFirst, InClaim
  <2>8. start_tok \in {NoTok, start_token(ProcOf[e])}
    BY <1>0, <2>1, Zenon DEF TokFirst
  <2>9. OwnToken'
    BY <2>1, <2>8, Zenon DEF OwnToken, start_token
  <2> QED
    BY <2>4, <2>5, <2>6, <2>7, <2>9, Zenon DEF SoleInv
<1>5. ASSUME NEW e \in Endpoints, ReleaseBegin(e) PROVE SoleInv'
  <2>1. /\ UNCHANGED <<pid, start_tok, alive, life, cur>> /\ alive[ProcOf[e]]
        /\ pc[e] = "holds" /\ (SoleGoto(e, "drop_tok") \/ SoleGoto(e, "out"))
    BY <1>5, Zenon DEF ReleaseBegin, SoleRuns
  <2> QED
    BY <1>0, <2>1, SoleQuiet, Zenon DEF SoleTypes, SoleLabels, Holding
<1>6. ASSUME NEW e \in Endpoints, ReleaseTok(e) PROVE SoleInv'
  <2>1. /\ SoleGoto(e, "drop_pid") /\ UNCHANGED <<pid, alive, life, cur>> /\ alive[ProcOf[e]]
        /\ pc[e] = "drop_tok" /\ start_tok' = NoTok
    BY <1>6, Zenon DEF ReleaseTok, SoleRuns
  <2>2. pc'[e] = "drop_pid" /\ \A f \in Endpoints : f # e => pc'[f] = pc[f]
    BY <1>0, <2>1, Zenon DEF SoleGoto, SoleTypes
  <2>4. SoleTypes'
    BY <1>0, <2>1, Zenon DEF SoleGoto, SoleTypes, SoleLabels
  <2>5. DeadOut'
    BY <1>0, <2>1, <2>2, Zenon DEF DeadOut
  <2>6. Claimer'
    BY <1>0, <2>1, <2>2, Zenon DEF Claimer, InClaim
  <2>7. TokFirst' /\ OwnToken'
    BY <2>1, Zenon DEF TokFirst, OwnToken
  <2> QED
    BY <2>4, <2>5, <2>6, <2>7, Zenon DEF SoleInv
<1>7. ASSUME NEW e \in Endpoints, ReleasePid(e) PROVE SoleInv'
  <2>1. /\ SoleGoto(e, "out") /\ UNCHANGED <<start_tok, alive, life, cur>> /\ alive[ProcOf[e]]
        /\ pc[e] = "drop_pid" /\ pid' = IF pid = ProcOf[e] THEN Free ELSE pid
    BY <1>7, Zenon DEF ReleasePid, SoleRuns
  <2>2. CASE pid # ProcOf[e]
    BY <1>0, <2>1, <2>2, SoleQuiet, Zenon DEF SoleTypes, SoleLabels
  <2>3. CASE pid = ProcOf[e]
    <3>1. pc'[e] = "out" /\ \A f \in Endpoints : f # e => pc'[f] = pc[f]
      BY <1>0, <2>1, Zenon DEF SoleGoto, SoleTypes
    <3>2. SoleTypes'
      BY <1>0, <2>1, Zenon DEF SoleGoto, SoleTypes, SoleLabels
    <3>3. DeadOut'
      BY <1>0, <2>1, <3>1, Zenon DEF DeadOut
    <3>4. Claimer' /\ TokFirst'
      <4>1. \A f \in Endpoints : ~InClaim(f)
        BY <1>0, <1>a, <2>3, Zenon DEF Claimer
      <4> QED
        BY <3>1, <4>1, Zenon DEF Claimer, TokFirst, InClaim
    <3>5. OwnToken'
      BY <1>a, <2>1, <2>3, Zenon DEF OwnToken
    <3> QED
      BY <3>2, <3>3, <3>4, <3>5, Zenon DEF SoleInv
  <2> QED
    BY <2>2, <2>3, Zenon
<1>8. ASSUME NEW p \in SoleProcs, SoleDie(p) PROVE SoleInv'
  <2>1. /\ UNCHANGED <<pid, start_tok, life>>
        /\ \A e \in Endpoints : pc'[e] = "out" \/ (pc'[e] = pc[e] /\ ProcOf[e] # p)
        /\ \A q \in SoleProcs : q # p => alive'[q] = alive[q]
    BY <1>0, <1>8, Zenon DEF SoleDie, SoleTypes
  <2>2. SoleTypes'
    BY <1>0, <1>8, Zenon DEF SoleDie, SoleTypes, SoleLabels
  <2>3. DeadOut'
    BY <1>0, <1>a, <2>1, Zenon DEF DeadOut
  <2>4. Claimer'
    BY <1>0, <2>1, Zenon DEF Claimer, InClaim
  <2>5. TokFirst'
    BY <1>0, <2>1, Zenon DEF TokFirst, start_token
  <2>6. OwnToken'
    BY <1>0, <2>1, Zenon DEF OwnToken, Holding, start_token
  <2> QED
    BY <2>2, <2>3, <2>4, <2>5, <2>6, Zenon DEF SoleInv
<1>9. ASSUME NEW p \in SoleProcs, SoleStart(p) PROVE SoleInv'
  <2>1. /\ UNCHANGED <<pid, start_tok, pc, cur>> /\ ~alive[p]
        /\ \A q \in SoleProcs : q # p => alive'[q] = alive[q] /\ life'[q] = life[q]
    BY <1>0, <1>9, Zenon DEF SoleStart, SoleTypes
  <2>2. \A e \in Endpoints : pc[e] # "out" => ProcOf[e] # p
    BY <1>0, <2>1, Zenon DEF DeadOut
  <2>3. SoleTypes'
    <3>1. life[p] + 1 \in Nat
      BY <1>0 DEF SoleTypes
    <3> QED
      BY <1>0, <1>9, <3>1, Zenon DEF SoleStart, SoleTypes
  <2>4. DeadOut'
    <3>1. alive'[p]
      BY <1>0, <1>9, Zenon DEF SoleStart, SoleTypes
    <3> QED
      BY <1>0, <1>a, <2>1, <3>1, Zenon DEF DeadOut
  <2>5. Claimer'
    BY <1>0, <2>1, Zenon DEF Claimer, InClaim
  <2>6. TokFirst'
    BY <1>0, <1>a, <2>1, <2>2, Zenon DEF TokFirst, start_token
  <2>7. OwnToken'
    BY <1>0, <1>a, <2>1, <2>2, Zenon DEF OwnToken, Holding, start_token
  <2> QED
    BY <2>3, <2>4, <2>5, <2>6, <2>7, Zenon DEF SoleInv
<1>10. CASE UNCHANGED sole_vars
  <2>1. SoleTypes' /\ DeadOut'
    BY <1>0, <1>10, Zenon DEF sole_vars, SoleTypes, DeadOut
  <2>2. Claimer' /\ TokFirst' /\ OwnToken'
    BY <1>0, <1>10, Zenon DEF sole_vars, Claimer, InClaim, TokFirst, OwnToken, start_token
  <2> QED
    BY <2>1, <2>2, Zenon DEF SoleInv
<1> QED
  BY <1>1, <1>2, <1>3, <1>4, <1>5, <1>6, <1>7, <1>8, <1>9, <1>10, Zenon
     DEF SoleNext, SoleClaim, SoleRelease, SoleDone

-----------------------------------------------------------------------------
\* claim_sole_owner and release_sole_owner never leave the token of another
\* process beside the pid of a holder that runs, however often process ids
\* are used again and wherever their processes die.
THEOREM SoleToken ==
  ASSUME SoleSetting PROVE SoleSpec => []OwnToken
<1>1. SoleInit => SoleInv
  BY SoleInvInit, Zenon
<1>2. SoleInv /\ [SoleNext]_sole_vars => SoleInv'
  BY SoleInvStep, Zenon
<1>3. SoleInv => OwnToken
  BY Zenon DEF SoleInv
<1> QED
  BY <1>1, <1>2, <1>3, PTL DEF SoleSpec

-----------------------------------------------------------------------------
(* Reaper *)

\* There is a bit, and 0 is no process id.
RpSetting == NBits \in Nat \ {0} /\ NoPid \notin Procs

\* The dead are nowhere in open or disconnect.
RpDead == \A p \in Procs : ~rp_alive[p] => rp_pc[p] = "out"

\* No two processes are at one bit.
RpApart ==
  \A p, q \in Procs : Tenant(p) /\ Tenant(q) /\ conn_id[p] = conn_id[q] => p = q

\* A tenant's record is its own, as far as it has got with it.
Record(p) ==
  /\ Connected(p) => conn_id[p] \in connections
  /\ rp_pc[p] # "own_tok" => owner_tok[conn_id[p]] = rp_start_token(p)
  /\ rp_pc[p] \in {"in", "wipe_pid"} => owner_pid[conn_id[p]] = p
  /\ rp_pc[p] \notin {"in", "wipe_pid"} => owner_pid[conn_id[p]] = NoPid
RpRecords == \A p \in Procs : Tenant(p) => Record(p)

\* A reaper that has loaded the id of a tenant of the bit in hand will find
\* that it is alive.
Spares(q, d) ==
  Tenant(d) /\ conn_id[d] = bit[q] =>
    /\ rp_pc[d] # "own_tok" /\ rp_pc[q] # "cas"
    /\ rp_pc[q] = "alive" => rp_tok[q] = rp_start_token(d)
Scanned(q) == owner[q] \in Procs /\ \A d \in Procs : owner[q] = d => Spares(q, d)
RpScan == \A q \in Procs : Scanning(q) => Scanned(q)

\* A bit that is being freed has no tenant.
Vacant(b) == \A p \in Procs : Tenant(p) => conn_id[p] # b
RpReaped == \A q \in Procs : Reaps(q) => Vacant(bit[q])

RpSafe == RpApart /\ RpRecords /\ RpScan /\ RpReaped
RpInv == RpTypeOK /\ RpDead /\ (~rp_raced => RpSafe)

-----------------------------------------------------------------------------
LEMMA RpInvInit ==
  ASSUME RpSetting, RpInit
  PROVE  RpInv
<1>1. 0 \in Bits /\ 1 \in Nat
  BY DEF RpSetting, Bits
<1>2. RpTypeOK
  BY <1>1, Zenon DEF RpInit, RpTypeOK, RpLabels, OwnerTokens
<1>3. \A p \in Procs : rp_pc[p] = "out" /\ rp_alive[p]
  BY Zenon DEF RpInit
<1>4. \A p \in Procs : ~Tenant(p) /\ ~Scanning(p) /\ ~Reaps(p)
  BY <1>3, Zenon DEF Tenant, Scanning, Reaps
<1> QED
  BY <1>2, <1>3, <1>4, Zenon
  DEF RpInv, RpDead, RpSafe, RpApart, RpRecords, RpScan, RpReaped

\* A step of one process by which nobody becomes a tenant is left to show what
\* it does to the records, and what the process knows of its scan.
LEMMA RpOneMoves ==
  ASSUME RpSafe, NEW p \in Procs,
         \A q \in Procs : q # p =>
           /\ rp_pc'[q] = rp_pc[q] /\ bit'[q] = bit[q] /\ owner'[q] = owner[q]
           /\ rp_tok'[q] = rp_tok[q] /\ conn_id'[q] = conn_id[q]
           /\ rp_alive'[q] = rp_alive[q] /\ rp_life'[q] = rp_life[q],
         Tenant(p)' => /\ Tenant(p) /\ conn_id'[p] = conn_id[p]
                       /\ rp_life'[p] = rp_life[p] /\ rp_pc'[p] # "own_tok",
         \A q \in Procs : Tenant(q)' => Record(q)',
         Scanning(p)' => Scanned(p)',
         Reaps(p)' => Vacant(bit'[p])
  PROVE  RpSafe'
<1>1. \A q \in Procs : Tenant(q)' =>
        /\ Tenant(q) /\ conn_id'[q] = conn_id[q] /\ rp_life'[q] = rp_life[q]
        /\ rp_pc'[q] = "own_tok" => rp_pc[q] = "own_tok"
  BY Zenon DEF Tenant
<1>2. RpApart'
  BY <1>1, Zenon DEF RpSafe, RpApart
<1>3. RpRecords'
  BY Zenon DEF RpRecords
<1>4. \A q \in Procs : q # p => /\ Scanning(q)' <=> Scanning(q)
                                /\ Reaps(q)' <=> Reaps(q)
  BY Zenon DEF Scanning, Reaps
<1>5. RpScan'
  <2> SUFFICES ASSUME NEW q \in Procs, Scanning(q)', q # p PROVE Scanned(q)'
    BY Zenon DEF RpScan
  <2>1. Scanned(q) /\ owner'[q] = owner[q]
    BY <1>4, Zenon DEF RpSafe, RpScan
  <2>2. ASSUME NEW d \in Procs, owner[q] = d PROVE Spares(q, d)'
    <3> SUFFICES ASSUME Tenant(d)', conn_id'[d] = bit'[q]
                 PROVE  /\ rp_pc'[d] # "own_tok" /\ rp_pc'[q] # "cas"
                        /\ rp_pc'[q] = "alive" => rp_tok'[q] = rp_start_token(d)'
      BY Zenon DEF Spares
    <3>1. Tenant(d) /\ conn_id[d] = bit[q] /\ Spares(q, d)
      BY <1>1, <2>1, <2>2, Zenon DEF Scanned
    <3>2. rp_start_token(d)' = rp_start_token(d)
      BY <1>1, Zenon DEF rp_start_token
    <3> QED
      BY <1>1, <3>1, <3>2, Zenon DEF Spares
  <2> QED
    BY <2>1, <2>2, Zenon DEF Scanned
<1>6. RpReaped'
  <2> SUFFICES ASSUME NEW q \in Procs, Reaps(q)', q # p PROVE Vacant(bit[q])'
    BY <1>1, Zenon DEF RpReaped, Vacant
  <2>1. Vacant(bit[q]) /\ bit'[q] = bit[q]
    BY <1>4, Zenon DEF RpSafe, RpReaped
  <2> QED
    BY <1>1, <2>1, Zenon DEF Vacant
<1> QED
  BY <1>2, <1>3, <1>5, <1>6, Zenon DEF RpSafe

\* The records of the tenants after a step that leaves theirs alone.
LEMMA RpRecordKept ==
  ASSUME RpSafe, NEW q \in Procs, Tenant(q), rp_pc'[q] = rp_pc[q], conn_id'[q] = conn_id[q],
         rp_life'[q] = rp_life[q], rp_alive'[q] = rp_alive[q],
         q \in evicted => q \in evicted',
         conn_id[q] \in connections /\ Connected(q)' => conn_id[q] \in connections',
         owner_pid'[conn_id[q]] = owner_pid[conn_id[q]],
         owner_tok'[conn_id[q]] = owner_tok[conn_id[q]]
  PROVE  Record(q)'
<1>1. Record(q)
  BY Zenon DEF RpSafe, RpRecords
<1>2. rp_start_token(q)' = rp_start_token(q)
  BY Zenon DEF rp_start_token
<1>3. Connected(q)' => Connected(q)
  BY Zenon DEF Connected, Claimed
<1> QED
  BY <1>1, <1>2, <1>3, Zenon DEF Record

\* A reaper that touches nothing shared.
LEMMA RpLocalStep ==
  ASSUME RpInv, RpTypeOK', NEW p \in Procs, rp_alive[p], ~Tenant(p),
         UNCHANGED <<connections, owner_pid, owner_tok, rp_alive, rp_life, conn_id, evicted, rp_raced>>,
         \A q \in Procs : q # p => /\ rp_pc'[q] = rp_pc[q] /\ bit'[q] = bit[q]
                                   /\ owner'[q] = owner[q] /\ rp_tok'[q] = rp_tok[q],
         ~Tenant(p)', ~Reaps(p)',
         RpSafe /\ Scanning(p)' => Scanned(p)'
  PROVE  RpInv'
<1>1. RpDead'
  BY Zenon DEF RpInv, RpDead
<1>2. ASSUME ~rp_raced PROVE RpSafe'
  <2>1. RpSafe
    BY <1>2, Zenon DEF RpInv
  <2>2. \A q \in Procs : Tenant(q)' => Tenant(q) /\ q # p
    BY Zenon DEF Tenant
  <2>3. \A q \in Procs : Tenant(q)' => Record(q)'
    BY <2>1, <2>2, RpRecordKept, Zenon
  <2> QED
    BY <2>1, <2>2, <2>3, RpOneMoves, Zenon
<1> QED
  BY <1>1, <1>2, Zenon DEF RpInv

\* Back to the scan.
LEMMA RpNextBitTypes ==
  ASSUME RpSetting, RpTypeOK, NEW p \in Procs, NextBit(p)
  PROVE  /\ rp_pc' \in [Procs -> RpLabels] /\ bit' \in [Procs -> Bits]
         /\ owner' \in [Procs -> Procs \cup {NoPid}] /\ rp_tok' \in [Procs -> OwnerTokens]
         /\ rp_pc'[p] = "next"
         /\ \A q \in Procs : q # p => /\ rp_pc'[q] = rp_pc[q] /\ bit'[q] = bit[q]
                                      /\ owner'[q] = owner[q] /\ rp_tok'[q] = rp_tok[q]
<1>1. 0 \in Bits
  BY DEF RpSetting, Bits
<1>2. /\ rp_pc \in [Procs -> RpLabels] /\ bit \in [Procs -> Bits]
      /\ owner \in [Procs -> Procs \cup {NoPid}] /\ rp_tok \in [Procs -> OwnerTokens]
  BY Zenon DEF RpTypeOK
<1> QED
  BY <1>1, <1>2, Zenon DEF NextBit, RpGoto, RpLabels, OwnerTokens

LEMMA RpNextBit ==
  ASSUME RpSetting, RpInv, NEW p \in Procs, NextBit(p), ~Tenant(p), rp_alive[p],
         UNCHANGED <<connections, owner_pid, owner_tok, rp_alive, rp_life, live, conn_id, evicted,
                     rp_raced>>
  PROVE  RpInv'
<1>1. RpTypeOK
  BY Zenon DEF RpInv
<1>2. /\ rp_pc' \in [Procs -> RpLabels] /\ bit' \in [Procs -> Bits]
      /\ owner' \in [Procs -> Procs \cup {NoPid}] /\ rp_tok' \in [Procs -> OwnerTokens]
      /\ rp_pc'[p] = "next"
      /\ \A q \in Procs : q # p => /\ rp_pc'[q] = rp_pc[q] /\ bit'[q] = bit[q]
                                   /\ owner'[q] = owner[q] /\ rp_tok'[q] = rp_tok[q]
  BY <1>1, RpNextBitTypes, Zenon
<1>3. RpTypeOK'
  BY <1>1, <1>2, Zenon DEF RpTypeOK
<1>4. ~Tenant(p)' /\ ~Scanning(p)' /\ ~Reaps(p)'
  BY <1>2, Zenon DEF Tenant, Scanning, Reaps
<1> QED
  BY <1>2, <1>3, <1>4, RpLocalStep, Zenon

\* Loading the bits, an owner and its token, and the check of the owner.
LEMMA RpLooks ==
  ASSUME RpSetting, RpInv, NEW p \in Procs,
         LoadLive(p) \/ LoadOwner(p) \/ LoadOwnerTok(p) \/ CheckOwner(p)
  PROVE  RpInv'
<1>1. RpTypeOK
  BY Zenon DEF RpInv
<1>2. /\ rp_pc \in [Procs -> RpLabels] /\ bit \in [Procs -> Bits] /\ live \in [Procs -> SUBSET Bits]
      /\ owner \in [Procs -> Procs \cup {NoPid}] /\ rp_tok \in [Procs -> OwnerTokens]
      /\ owner_pid \in [Bits -> Procs \cup {NoPid}] /\ owner_tok \in [Bits -> OwnerTokens]
      /\ connections \in SUBSET Bits
  BY <1>1, Zenon DEF RpTypeOK
<1>3. /\ rp_pc[p] \in {"out", "next", "tok", "alive"} /\ rp_alive[p]
      /\ UNCHANGED <<connections, owner_pid, owner_tok, rp_alive, rp_life, conn_id, evicted, rp_raced>>
  BY Zenon DEF LoadLive, LoadOwner, LoadOwnerTok, CheckOwner, Runs, table, procs
<1>4. ~Tenant(p)
  BY <1>3, Zenon DEF Tenant
<1>5. CASE LoadLive(p)
  <2>1. /\ rp_pc' = [rp_pc EXCEPT ![p] = "next"] /\ live' = [live EXCEPT ![p] = connections]
        /\ UNCHANGED <<bit, owner, rp_tok>>
    BY <1>5, Zenon DEF LoadLive, RpGoto
  <2>2. RpTypeOK' /\ rp_pc'[p] = "next" /\ \A q \in Procs : q # p => rp_pc'[q] = rp_pc[q]
    BY <1>1, <1>2, <1>3, <2>1, Zenon DEF RpTypeOK, RpLabels
  <2>3. ~Tenant(p)' /\ ~Scanning(p)' /\ ~Reaps(p)'
    BY <2>2, Zenon DEF Tenant, Scanning, Reaps
  <2> QED
    BY <1>3, <1>4, <2>1, <2>2, <2>3, RpLocalStep, Zenon
<1>6. CASE LoadOwner(p)
  <2>1. PICK b \in live[p] :
          /\ live' = [live EXCEPT ![p] = live[p] \ {b}]
          /\ IF owner_pid[b] = NoPid
             THEN UNCHANGED <<bit, owner, rp_pc>>
             ELSE /\ bit' = [bit EXCEPT ![p] = b]
                  /\ owner' = [owner EXCEPT ![p] = owner_pid[b]]
                  /\ rp_pc' = [rp_pc EXCEPT ![p] = "tok"]
    BY <1>6, Zenon DEF LoadOwner, RpGoto
  <2>2. rp_pc[p] = "next" /\ UNCHANGED rp_tok
    BY <1>6, Zenon DEF LoadOwner, Runs
  <2>3. b \in Bits /\ live' \in [Procs -> SUBSET Bits]
    BY <1>2, <2>1, Zenon
  <2>4. CASE owner_pid[b] = NoPid
    <3>1. RpTypeOK'
      BY <1>1, <1>3, <2>1, <2>2, <2>3, <2>4, Zenon DEF RpTypeOK
    <3>2. UNCHANGED <<bit, owner, rp_pc>>
      BY <2>1, <2>4, Zenon
    <3>3. ~Tenant(p)' /\ ~Scanning(p)' /\ ~Reaps(p)'
      BY <2>2, <3>2, Zenon DEF Tenant, Scanning, Reaps
    <3> QED
      BY <1>3, <1>4, <2>2, <3>1, <3>2, <3>3, RpLocalStep, Zenon
  <2>5. CASE owner_pid[b] # NoPid
    <3>1. owner_pid[b] \in Procs
      BY <1>2, <2>3, <2>5, Zenon
    <3>2. /\ rp_pc'[p] = "tok" /\ bit'[p] = b /\ owner'[p] = owner_pid[b]
          /\ \A q \in Procs : q # p => /\ rp_pc'[q] = rp_pc[q] /\ bit'[q] = bit[q]
                                       /\ owner'[q] = owner[q]
          /\ rp_pc' \in [Procs -> RpLabels] /\ bit' \in [Procs -> Bits]
          /\ owner' \in [Procs -> Procs \cup {NoPid}]
      <4>1. /\ bit' = [bit EXCEPT ![p] = b] /\ owner' = [owner EXCEPT ![p] = owner_pid[b]]
            /\ rp_pc' = [rp_pc EXCEPT ![p] = "tok"]
        BY <2>1, <2>5, Zenon
      <4>2. "tok" \in RpLabels /\ owner_pid[b] \in Procs \cup {NoPid}
        BY <3>1, Zenon DEF RpLabels
      <4> QED
        BY <1>2, <2>3, <4>1, <4>2, Updated, Zenon
    <3>3. RpTypeOK'
      BY <1>1, <1>3, <2>2, <2>3, <3>2, Zenon DEF RpTypeOK
    <3>4. ~Tenant(p)' /\ ~Reaps(p)'
      BY <3>2, Zenon DEF Tenant, Reaps
    <3>5. ASSUME RpSafe PROVE Scanned(p)'
      <4> SUFFICES ASSUME NEW d \in Procs, owner'[p] = d, Tenant(d)', conn_id'[d] = bit'[p]
                   PROVE  rp_pc'[d] # "own_tok"
        BY <3>1, <3>2, Zenon DEF Scanned, Spares
      <4>1. d # p /\ Tenant(d) /\ conn_id[d] = b /\ owner_pid[b] = d /\ rp_pc'[d] = rp_pc[d]
        BY <1>3, <3>2, <3>4, Zenon DEF Tenant
      <4>2. Record(d)
        BY <3>5, <4>1, Zenon DEF RpSafe, RpRecords
      <4> QED
        BY <2>5, <4>1, <4>2, Zenon DEF Record
    <3> QED
      BY <1>3, <1>4, <2>2, <3>2, <3>3, <3>4, <3>5, RpLocalStep, Zenon
  <2> QED
    BY <2>4, <2>5, Zenon
<1>7. CASE LoadOwnerTok(p)
  <2>1. /\ rp_pc[p] = "tok" /\ rp_pc' = [rp_pc EXCEPT ![p] = "alive"]
        /\ rp_tok' = [rp_tok EXCEPT ![p] = owner_tok[bit[p]]]
        /\ UNCHANGED <<live, bit, owner>>
    BY <1>7, Zenon DEF LoadOwnerTok, Runs, RpGoto
  <2>2. bit[p] \in Bits /\ owner_tok[bit[p]] \in OwnerTokens
    BY <1>2, Zenon
  <2>3. /\ rp_pc'[p] = "alive" /\ rp_tok'[p] = owner_tok[bit[p]]
        /\ \A q \in Procs : q # p => rp_pc'[q] = rp_pc[q] /\ rp_tok'[q] = rp_tok[q]
        /\ rp_pc' \in [Procs -> RpLabels] /\ rp_tok' \in [Procs -> OwnerTokens]
    BY <1>2, <2>1, <2>2, Zenon DEF RpLabels
  <2>4. RpTypeOK'
    BY <1>1, <1>3, <2>1, <2>3, Zenon DEF RpTypeOK
  <2>5. ~Tenant(p)' /\ ~Reaps(p)'
    BY <2>3, Zenon DEF Tenant, Reaps
  <2>6. ASSUME RpSafe PROVE Scanned(p)'
    <3>1. Scanned(p)
      BY <1>3, <2>1, <2>6, Zenon DEF RpSafe, RpScan, Scanning
    <3> SUFFICES ASSUME NEW d \in Procs, owner[p] = d, Tenant(d)', conn_id'[d] = bit'[p]
                 PROVE  rp_pc'[d] # "own_tok" /\ rp_tok'[p] = rp_start_token(d)'
      BY <2>1, <2>3, <3>1, Zenon DEF Scanned, Spares
    <3>2. d # p /\ Tenant(d) /\ conn_id[d] = bit[p] /\ rp_pc'[d] = rp_pc[d]
      BY <1>3, <2>1, <2>3, <2>5, Zenon DEF Tenant
    <3>3. rp_pc[d] # "own_tok" /\ Record(d)
      BY <2>6, <3>1, <3>2, Zenon DEF RpSafe, RpRecords, Scanned, Spares
    <3>4. rp_start_token(d)' = rp_start_token(d)
      BY <1>3, Zenon DEF rp_start_token
    <3> QED
      BY <2>3, <3>2, <3>3, <3>4, Zenon DEF Record
  <2> QED
    BY <1>3, <1>4, <2>1, <2>3, <2>4, <2>5, <2>6, RpLocalStep, Zenon
<1>8. CASE CheckOwner(p)
  <2>1. rp_pc[p] = "alive" /\ UNCHANGED live
    BY <1>8, Zenon DEF CheckOwner, Runs
  <2>2. CASE rp_is_process_alive(owner[p], rp_tok[p])
    <3>1. NextBit(p)
      BY <1>8, <2>2, Zenon DEF CheckOwner
    <3> QED
      BY <1>3, <1>4, <2>1, <3>1, RpNextBit, Zenon
  <2>3. CASE ~rp_is_process_alive(owner[p], rp_tok[p])
    <3>1. rp_pc' = [rp_pc EXCEPT ![p] = "cas"] /\ UNCHANGED <<bit, owner, rp_tok>>
      BY <1>8, <2>3, Zenon DEF CheckOwner, RpGoto
    <3>2. /\ rp_pc'[p] = "cas" /\ \A q \in Procs : q # p => rp_pc'[q] = rp_pc[q]
          /\ rp_pc' \in [Procs -> RpLabels]
      BY <1>2, <3>1, Zenon DEF RpLabels
    <3>3. RpTypeOK'
      BY <1>1, <1>3, <2>1, <3>1, <3>2, Zenon DEF RpTypeOK
    <3>4. ~Tenant(p)' /\ ~Reaps(p)'
      BY <3>2, Zenon DEF Tenant, Reaps
    <3>5. ASSUME RpSafe PROVE Scanned(p)'
      <4>1. Scanned(p)
        BY <1>3, <2>1, <3>5, Zenon DEF RpSafe, RpScan, Scanning
      <4> SUFFICES ASSUME NEW d \in Procs, owner[p] = d, Tenant(d)', conn_id'[d] = bit'[p]
                   PROVE  FALSE
        BY <3>1, <4>1, Zenon DEF Scanned, Spares
      <4>2. d # p /\ Tenant(d) /\ conn_id[d] = bit[p]
        BY <1>3, <3>1, <3>2, <3>4, Zenon DEF Tenant
      <4>3. rp_tok[p] = rp_start_token(d) /\ rp_alive[d]
        BY <2>1, <4>1, <4>2, Zenon DEF Scanned, Spares, Tenant
      <4> QED
        BY <2>3, <4>3, Zenon DEF rp_is_process_alive
    <3> QED
      BY <1>3, <1>4, <3>1, <3>2, <3>3, <3>4, <3>5, RpLocalStep, Zenon
  <2> QED
    BY <2>2, <2>3, Zenon
<1> QED
  BY <1>5, <1>6, <1>7, <1>8, Zenon

-----------------------------------------------------------------------------
\* A reaper changes only what belongs to a bit without a tenant.
LEMMA RpVacantStep ==
  ASSUME RpInv, RpTypeOK', NEW p \in Procs, rp_alive[p], ~Tenant(p),
         UNCHANGED <<rp_alive, rp_life, conn_id, evicted, rp_raced>>,
         \A q \in Procs : q # p => /\ rp_pc'[q] = rp_pc[q] /\ bit'[q] = bit[q]
                                   /\ owner'[q] = owner[q] /\ rp_tok'[q] = rp_tok[q],
         ~Tenant(p)', ~Scanning(p)', Reaps(p)' => bit'[p] = bit[p],
         RpSafe => Vacant(bit[p]),
         \A b \in Bits : b # bit[p] =>
           /\ owner_pid'[b] = owner_pid[b] /\ owner_tok'[b] = owner_tok[b]
           /\ b \in connections => b \in connections'
  PROVE  RpInv'
<1>1. RpDead'
  BY Zenon DEF RpInv, RpDead
<1>2. ASSUME ~rp_raced PROVE RpSafe'
  <2>1. RpSafe /\ Vacant(bit[p])
    BY <1>2, Zenon DEF RpInv
  <2>2. \A q \in Procs : Tenant(q)' => Tenant(q) /\ q # p
    BY Zenon DEF Tenant
  <2>3. \A q \in Procs : Tenant(q) => conn_id[q] \in Bits /\ conn_id[q] # bit[p]
    BY <2>1, Zenon DEF Vacant, RpInv, RpTypeOK
  <2>4. \A q \in Procs : Tenant(q)' => Record(q)'
    BY <2>1, <2>2, <2>3, RpRecordKept, Zenon
  <2>5. Reaps(p)' => Vacant(bit'[p])
    BY <2>1, Zenon
  <2> QED
    BY <2>1, <2>2, <2>4, <2>5, RpOneMoves, Zenon
<1> QED
  BY <1>1, <1>2, Zenon DEF RpInv

\* The reaper's compare-and-swap.
LEMMA RpReapCas ==
  ASSUME RpSetting, RpInv, NEW p \in Procs, ReapCas(p)
  PROVE  RpInv'
<1>1. RpTypeOK
  BY Zenon DEF RpInv
<1>2. /\ rp_pc \in [Procs -> RpLabels] /\ bit \in [Procs -> Bits]
      /\ owner_pid \in [Bits -> Procs \cup {NoPid}]
  BY <1>1, Zenon DEF RpTypeOK
<1>3. /\ rp_pc[p] = "cas" /\ rp_alive[p] /\ ~Tenant(p) /\ Scanning(p)
      /\ UNCHANGED <<connections, owner_tok, rp_alive, rp_life, live, conn_id, evicted, rp_raced>>
  BY Zenon DEF ReapCas, Runs, procs, Tenant, Scanning
<1>4. CASE owner_pid[bit[p]] # owner[p]
  <2>1. NextBit(p) /\ UNCHANGED owner_pid
    BY <1>4, Zenon DEF ReapCas
  <2> QED
    BY <1>3, <2>1, RpNextBit, Zenon
<1>5. CASE owner_pid[bit[p]] = owner[p]
  <2>1. /\ owner_pid' = [owner_pid EXCEPT ![bit[p]] = NoPid]
        /\ rp_pc' = [rp_pc EXCEPT ![p] = "wipe"]
        /\ UNCHANGED <<bit, owner, rp_tok>>
    BY <1>5, Zenon DEF ReapCas, RpGoto
  <2>2. bit[p] \in Bits /\ "wipe" \in RpLabels /\ NoPid \in Procs \cup {NoPid}
    BY <1>2, Zenon DEF RpLabels
  <2>3. /\ rp_pc'[p] = "wipe" /\ \A q \in Procs : q # p => rp_pc'[q] = rp_pc[q]
        /\ rp_pc' \in [Procs -> RpLabels]
    BY <1>2, <2>1, <2>2, Updated, Zenon
  <2>4. /\ owner_pid' \in [Bits -> Procs \cup {NoPid}]
        /\ \A b \in Bits : b # bit[p] => owner_pid'[b] = owner_pid[b]
    BY <1>2, <2>1, <2>2, Updated, Zenon
  <2>5. RpTypeOK'
    BY <1>1, <1>3, <2>1, <2>3, <2>4, Zenon DEF RpTypeOK
  <2>6. ~Tenant(p)' /\ ~Scanning(p)'
    BY <2>3, Zenon DEF Tenant, Scanning
  <2>7. ASSUME RpSafe PROVE Vacant(bit[p])
    <3> SUFFICES ASSUME NEW d \in Procs, Tenant(d), conn_id[d] = bit[p] PROVE FALSE
      BY Zenon DEF Vacant
    <3>1. Scanned(p) /\ Record(d)
      BY <1>3, <2>7, Zenon DEF RpSafe, RpScan, RpRecords
    <3>2. owner[p] \in Procs /\ owner[p] # NoPid
      BY <3>1, Zenon DEF Scanned, RpSetting
    <3>3. owner_pid[bit[p]] = d
      BY <1>5, <3>1, <3>2, Zenon DEF Record
    <3> QED
      BY <1>3, <1>5, <3>1, <3>3, Zenon DEF Scanned, Spares
  <2> QED
    BY <1>3, <2>1, <2>3, <2>4, <2>5, <2>6, <2>7, RpVacantStep, Zenon
<1> QED
  BY <1>4, <1>5, Zenon

\* Wiping the token of a reaped bit, and freeing the bit.
LEMMA RpReapWipe ==
  ASSUME RpInv, NEW p \in Procs, ReapWipe(p)
  PROVE  RpInv'
<1>1. RpTypeOK
  BY Zenon DEF RpInv
<1>2. /\ rp_pc[p] = "wipe" /\ rp_alive[p] /\ ~Tenant(p) /\ Reaps(p)
      /\ rp_pc' = [rp_pc EXCEPT ![p] = "clear"]
      /\ owner_tok' = [owner_tok EXCEPT ![bit[p]] = NoOwnerTok]
      /\ UNCHANGED <<connections, owner_pid, rp_alive, rp_life, live, bit, owner, rp_tok,
                     conn_id, evicted, rp_raced>>
  BY Zenon DEF ReapWipe, Runs, RpGoto, procs, scan, Tenant, Reaps
<1>3. /\ bit[p] \in Bits /\ "clear" \in RpLabels /\ NoOwnerTok \in OwnerTokens
      /\ rp_pc \in [Procs -> RpLabels] /\ owner_tok \in [Bits -> OwnerTokens]
  BY <1>1, Zenon DEF RpTypeOK, RpLabels, OwnerTokens
<1>4. /\ rp_pc'[p] = "clear" /\ \A q \in Procs : q # p => rp_pc'[q] = rp_pc[q]
      /\ rp_pc' \in [Procs -> RpLabels]
  BY <1>2, <1>3, Updated, Zenon
<1>5. /\ owner_tok' \in [Bits -> OwnerTokens]
      /\ \A b \in Bits : b # bit[p] => owner_tok'[b] = owner_tok[b]
  BY <1>2, <1>3, Updated, Zenon
<1>6. RpTypeOK'
  BY <1>1, <1>2, <1>4, <1>5, Zenon DEF RpTypeOK
<1>7. ~Tenant(p)' /\ ~Scanning(p)'
  BY <1>4, Zenon DEF Tenant, Scanning
<1>8. RpSafe => Vacant(bit[p])
  BY <1>2, Zenon DEF RpSafe, RpReaped
<1> QED
  BY <1>2, <1>4, <1>5, <1>6, <1>7, <1>8, RpVacantStep, Zenon

LEMMA RpReapClear ==
  ASSUME RpSetting, RpInv, NEW p \in Procs, ReapClear(p)
  PROVE  RpInv'
<1>1. RpTypeOK
  BY Zenon DEF RpInv
<1>2. /\ rp_pc[p] = "clear" /\ rp_alive[p] /\ ~Tenant(p) /\ Reaps(p) /\ NextBit(p)
      /\ connections' = connections \ {bit[p]}
      /\ UNCHANGED <<owner_pid, owner_tok, rp_alive, rp_life, live, conn_id, evicted, rp_raced>>
  BY Zenon DEF ReapClear, Runs, procs, Tenant, Reaps
<1>3. /\ rp_pc' \in [Procs -> RpLabels] /\ bit' \in [Procs -> Bits]
      /\ owner' \in [Procs -> Procs \cup {NoPid}] /\ rp_tok' \in [Procs -> OwnerTokens]
      /\ rp_pc'[p] = "next"
      /\ \A q \in Procs : q # p => /\ rp_pc'[q] = rp_pc[q] /\ bit'[q] = bit[q]
                                   /\ owner'[q] = owner[q] /\ rp_tok'[q] = rp_tok[q]
  BY <1>1, <1>2, RpNextBitTypes, Zenon
<1>4. connections' \in SUBSET Bits
  BY <1>1, <1>2, Zenon DEF RpTypeOK
<1>5. RpTypeOK'
  BY <1>1, <1>2, <1>3, <1>4, Zenon DEF RpTypeOK
<1>6. ~Tenant(p)' /\ ~Scanning(p)' /\ ~Reaps(p)'
  BY <1>3, Zenon DEF Tenant, Scanning, Reaps
<1>7. RpSafe => Vacant(bit[p])
  BY <1>2, Zenon DEF RpSafe, RpReaped
<1>8. \A b \in Bits : b # bit[p] => (b \in connections => b \in connections')
  BY <1>2, Zenon
<1> QED
  BY <1>2, <1>3, <1>5, <1>6, <1>7, <1>8, RpVacantStep, Zenon

\* Claiming a clear bit, which is settled unless rp_raced is set.
LEMMA RpClaimBit ==
  ASSUME RpSetting, RpInv, NEW p \in Procs, ClaimBit(p)
  PROVE  RpInv'
<1>1. RpTypeOK
  BY Zenon DEF RpInv
<1>2. /\ rp_pc[p] = "next" /\ rp_alive[p] /\ ~Tenant(p) /\ ~Scanning(p) /\ ~Reaps(p)
      /\ UNCHANGED <<owner_pid, owner_tok, rp_alive, rp_life, live, bit, owner, rp_tok>>
  BY Zenon DEF ClaimBit, Runs, procs, scan, Tenant, Scanning, Reaps
<1>3. rp_pc \in [Procs -> RpLabels] /\ conn_id \in [Procs -> Bits] /\ connections \in SUBSET Bits
  BY <1>1, Zenon DEF RpTypeOK
<1>4. CASE connections = Bits
  <2>1. rp_pc' = [rp_pc EXCEPT ![p] = "out"] /\ UNCHANGED <<connections, conn_id, evicted, rp_raced>>
    BY <1>4, Zenon DEF ClaimBit, RpGoto
  <2>2. "out" \in RpLabels
    BY Zenon DEF RpLabels
  <2>3. /\ rp_pc'[p] = "out" /\ \A q \in Procs : q # p => rp_pc'[q] = rp_pc[q]
        /\ rp_pc' \in [Procs -> RpLabels]
    BY <1>3, <2>1, <2>2, Updated, Zenon
  <2>4. RpTypeOK'
    BY <1>1, <1>2, <2>1, <2>3, Zenon DEF RpTypeOK
  <2>5. ~Tenant(p)' /\ ~Scanning(p)' /\ ~Reaps(p)'
    BY <2>3, Zenon DEF Tenant, Scanning, Reaps
  <2> QED
    BY <1>2, <2>1, <2>3, <2>4, <2>5, RpLocalStep, Zenon
<1>5. CASE connections # Bits
  <2>1. PICK b \in Bits \ connections :
          /\ connections' = connections \cup {b}
          /\ conn_id' = [conn_id EXCEPT ![p] = b]
          /\ evicted' = evicted \ {p}
          /\ rp_raced' = (rp_raced \/ Unsettled(b))
          /\ rp_pc' = [rp_pc EXCEPT ![p] = "own_tok"]
    BY <1>5, Zenon DEF ClaimBit, RpGoto
  <2>2. "own_tok" \in RpLabels /\ b \in Bits
    BY Zenon DEF RpLabels
  <2>3. /\ rp_pc'[p] = "own_tok" /\ \A q \in Procs : q # p => rp_pc'[q] = rp_pc[q]
        /\ rp_pc' \in [Procs -> RpLabels]
    BY <1>3, <2>1, <2>2, Updated, Zenon
  <2>4. /\ conn_id'[p] = b /\ \A q \in Procs : q # p => conn_id'[q] = conn_id[q]
        /\ conn_id' \in [Procs -> Bits]
    BY <1>3, <2>1, <2>2, Updated, Zenon
  <2>5. evicted' \in SUBSET Procs /\ connections' \in SUBSET Bits /\ rp_raced' \in BOOLEAN
    BY <1>1, <1>3, <2>1, <2>2, Zenon DEF RpTypeOK
  <2>6. RpTypeOK'
    BY <1>1, <1>2, <2>3, <2>4, <2>5, Zenon DEF RpTypeOK
  <2>7. RpDead'
    BY <1>2, <2>3, Zenon DEF RpInv, RpDead
  <2>8. ASSUME ~rp_raced' PROVE RpSafe'
    <3>1. ~rp_raced /\ ~Unsettled(b)
      BY <2>1, <2>8, Zenon
    <3>2. RpSafe
      BY <3>1, Zenon DEF RpInv
    <3>3. /\ owner_pid[b] = NoPid /\ Vacant(b)
          /\ \A q \in Procs : Reaps(q) => bit[q] # b
          /\ \A q \in Procs : Scanning(q) /\ bit[q] = b => ~rp_alive[owner[q]]
      BY <3>1, Zenon DEF Unsettled, Vacant
    <3>4. \A q \in Procs : q # p =>
            /\ Tenant(q)' <=> Tenant(q)
            /\ Scanning(q)' <=> Scanning(q)
            /\ Reaps(q)' <=> Reaps(q)
      BY <1>2, <2>3, Zenon DEF Tenant, Scanning, Reaps
    <3>5. Tenant(p)' /\ ~Scanning(p)' /\ ~Reaps(p)'
      BY <1>2, <2>3, Zenon DEF Tenant, Scanning, Reaps
    <3>6. RpApart'
      <4>1. \A q \in Procs : Tenant(q)' /\ q # p => conn_id'[q] # b
        BY <2>4, <3>3, <3>4, Zenon DEF Vacant
      <4> SUFFICES ASSUME NEW x \in Procs, NEW y \in Procs, Tenant(x)', Tenant(y)',
                          conn_id'[x] = conn_id'[y]
                   PROVE  x = y
        BY Zenon DEF RpApart
      <4>2. CASE x = p \/ y = p
        BY <2>4, <4>1, <4>2, Zenon
      <4>3. CASE x # p /\ y # p
        BY <2>4, <3>2, <3>4, <4>3, Zenon DEF RpSafe, RpApart
      <4> QED
        BY <4>2, <4>3, Zenon
    <3>7. RpRecords'
      <4> SUFFICES ASSUME NEW q \in Procs, Tenant(q)' PROVE Record(q)'
        BY Zenon DEF RpRecords
      <4>1. CASE q = p
        <5>1. conn_id'[p] \in connections'
          BY <2>1, <2>4, Zenon
        <5> QED
          BY <1>2, <2>3, <2>4, <3>3, <4>1, <5>1, Zenon DEF Record
      <4>2. CASE q # p
        <5>1. /\ conn_id[q] \in connections => conn_id[q] \in connections'
              /\ q \in evicted => q \in evicted'
          BY <2>1, <4>2, Zenon
        <5> QED
          BY <1>2, <2>3, <2>4, <3>2, <3>4, <4>2, <5>1, RpRecordKept, Zenon
      <4> QED
        BY <4>1, <4>2, Zenon
    <3>8. RpScan'
      <4> SUFFICES ASSUME NEW q \in Procs, Scanning(q)' PROVE Scanned(q)'
        BY Zenon DEF RpScan
      <4>1. q # p /\ Scanning(q) /\ Scanned(q)
        BY <3>2, <3>4, <3>5, Zenon DEF RpSafe, RpScan
      <4>2. ASSUME NEW d \in Procs, owner[q] = d PROVE Spares(q, d)'
        <5>1. CASE d = p
          <6>1. bit[q] # b
            BY <1>2, <3>3, <4>1, <4>2, <5>1, Zenon
          <6> QED
            BY <1>2, <2>4, <5>1, <6>1, Zenon DEF Spares
        <5>2. CASE d # p
          <6>1. Spares(q, d)
            BY <4>1, <4>2, Zenon DEF Scanned
          <6>2. rp_start_token(d)' = rp_start_token(d)
            BY <1>2, Zenon DEF rp_start_token
          <6> QED
            BY <1>2, <2>3, <2>4, <3>4, <4>1, <5>2, <6>1, <6>2, Zenon DEF Spares
        <5> QED
          BY <5>1, <5>2, Zenon
      <4> QED
        BY <1>2, <4>1, <4>2, Zenon DEF Scanned
    <3>9. RpReaped'
      <4> SUFFICES ASSUME NEW q \in Procs, Reaps(q)', NEW x \in Procs, Tenant(x)'
                   PROVE  conn_id'[x] # bit'[q]
        BY Zenon DEF RpReaped, Vacant
      <4>1. q # p /\ Reaps(q) /\ bit[q] # b /\ Vacant(bit[q])
        BY <3>2, <3>3, <3>4, <3>5, Zenon DEF RpSafe, RpReaped
      <4> QED
        BY <1>2, <2>4, <3>4, <4>1, Zenon DEF Vacant
    <3> QED
      BY <3>6, <3>7, <3>8, <3>9, Zenon DEF RpSafe
  <2> QED
    BY <2>6, <2>7, <2>8, Zenon DEF RpInv
<1> QED
  BY <1>4, <1>5, Zenon

-----------------------------------------------------------------------------
\* A tenant changes only what belongs to its own bit.
LEMMA RpTenantStep ==
  ASSUME RpInv, RpTypeOK', NEW p \in Procs, Tenant(p),
         UNCHANGED <<rp_alive, rp_life, bit, owner, rp_tok, rp_raced>>,
         \A q \in Procs : q # p => /\ rp_pc'[q] = rp_pc[q] /\ conn_id'[q] = conn_id[q]
                                   /\ q \in evicted => q \in evicted',
         Tenant(p)' => conn_id'[p] = conn_id[p] /\ rp_pc'[p] # "own_tok",
         ~Scanning(p)', ~Reaps(p)',
         RpSafe /\ Tenant(p)' => Record(p)',
         \A b \in Bits : b # conn_id[p] =>
           /\ owner_pid'[b] = owner_pid[b] /\ owner_tok'[b] = owner_tok[b]
           /\ b \in connections => b \in connections'
  PROVE  RpInv'
<1>1. RpDead'
  BY Zenon DEF RpInv, RpDead, Tenant
<1>2. ASSUME ~rp_raced PROVE RpSafe'
  <2>1. RpSafe
    BY <1>2, Zenon DEF RpInv
  <2>2. ASSUME NEW q \in Procs, Tenant(q)', q # p PROVE Record(q)'
    <3>1. Tenant(q)
      BY <2>2, Zenon DEF Tenant
    <3>2. conn_id[q] \in Bits /\ conn_id[q] # conn_id[p]
      BY <2>1, <2>2, <3>1, Zenon DEF RpSafe, RpApart, RpInv, RpTypeOK
    <3> QED
      BY <2>1, <2>2, <3>1, <3>2, RpRecordKept, Zenon
  <2>3. \A q \in Procs : Tenant(q)' => Record(q)'
    BY <2>1, <2>2, Zenon
  <2> QED
    BY <2>1, <2>3, RpOneMoves, Zenon
<1> QED
  BY <1>1, <1>2, Zenon DEF RpInv

\* set_owner: the token, then the pid.
LEMMA RpSetOwnerTok ==
  ASSUME RpInv, NEW p \in Procs, SetOwnerTok(p)
  PROVE  RpInv'
<1>1. RpTypeOK
  BY Zenon DEF RpInv
<1>2. /\ rp_pc[p] = "own_tok" /\ rp_alive[p] /\ Tenant(p)
      /\ rp_pc' = [rp_pc EXCEPT ![p] = "own_pid"]
      /\ owner_tok' = [owner_tok EXCEPT ![conn_id[p]] = rp_start_token(p)]
      /\ UNCHANGED <<connections, owner_pid, rp_alive, rp_life, live, bit, owner, rp_tok,
                     conn_id, evicted, rp_raced>>
  BY Zenon DEF SetOwnerTok, Runs, RpGoto, procs, scan, Tenant
<1>3. /\ conn_id[p] \in Bits /\ "own_pid" \in RpLabels /\ rp_start_token(p) \in OwnerTokens
      /\ rp_pc \in [Procs -> RpLabels] /\ owner_tok \in [Bits -> OwnerTokens]
  BY <1>1, Zenon DEF RpTypeOK, RpLabels, OwnerTokens, rp_start_token
<1>4. /\ rp_pc'[p] = "own_pid" /\ \A q \in Procs : q # p => rp_pc'[q] = rp_pc[q]
      /\ rp_pc' \in [Procs -> RpLabels]
  BY <1>2, <1>3, Updated, Zenon
<1>5. /\ owner_tok' \in [Bits -> OwnerTokens] /\ owner_tok'[conn_id[p]] = rp_start_token(p)
      /\ \A b \in Bits : b # conn_id[p] => owner_tok'[b] = owner_tok[b]
  BY <1>2, <1>3, Updated, Zenon
<1>6. RpTypeOK'
  BY <1>1, <1>2, <1>4, <1>5, Zenon DEF RpTypeOK
<1>7. ~Scanning(p)' /\ ~Reaps(p)' /\ rp_pc'[p] # "own_tok"
  BY <1>4, Zenon DEF Scanning, Reaps
<1>8. ASSUME RpSafe PROVE Record(p)'
  <2>1. Record(p)
    BY <1>2, <1>8, Zenon DEF RpSafe, RpRecords
  <2>2. Connected(p)' => Connected(p)
    BY <1>2, Zenon DEF Connected, Claimed
  <2>3. rp_start_token(p)' = rp_start_token(p)
    BY <1>2, Zenon DEF rp_start_token
  <2> QED
    BY <1>2, <1>4, <1>5, <2>1, <2>2, <2>3, Zenon DEF Record
<1> QED
  BY <1>2, <1>4, <1>5, <1>6, <1>7, <1>8, RpTenantStep, Zenon

LEMMA RpSetOwnerPid ==
  ASSUME RpInv, NEW p \in Procs, SetOwnerPid(p)
  PROVE  RpInv'
<1>1. RpTypeOK
  BY Zenon DEF RpInv
<1>2. /\ rp_pc[p] = "own_pid" /\ rp_alive[p] /\ Tenant(p)
      /\ rp_pc' = [rp_pc EXCEPT ![p] = "in"]
      /\ owner_pid' = [owner_pid EXCEPT ![conn_id[p]] = p]
      /\ UNCHANGED <<connections, owner_tok, rp_alive, rp_life, live, bit, owner, rp_tok,
                     conn_id, evicted, rp_raced>>
  BY Zenon DEF SetOwnerPid, Runs, RpGoto, procs, scan, Tenant
<1>3. /\ conn_id[p] \in Bits /\ "in" \in RpLabels /\ p \in Procs \cup {NoPid}
      /\ rp_pc \in [Procs -> RpLabels] /\ owner_pid \in [Bits -> Procs \cup {NoPid}]
  BY <1>1, Zenon DEF RpTypeOK, RpLabels
<1>4. /\ rp_pc'[p] = "in" /\ \A q \in Procs : q # p => rp_pc'[q] = rp_pc[q]
      /\ rp_pc' \in [Procs -> RpLabels]
  BY <1>2, <1>3, Updated, Zenon
<1>5. /\ owner_pid' \in [Bits -> Procs \cup {NoPid}] /\ owner_pid'[conn_id[p]] = p
      /\ \A b \in Bits : b # conn_id[p] => owner_pid'[b] = owner_pid[b]
  BY <1>2, <1>3, Updated, Zenon
<1>6. RpTypeOK'
  BY <1>1, <1>2, <1>4, <1>5, Zenon DEF RpTypeOK
<1>7. ~Scanning(p)' /\ ~Reaps(p)' /\ rp_pc'[p] # "own_tok"
  BY <1>4, Zenon DEF Scanning, Reaps
<1>8. ASSUME RpSafe PROVE Record(p)'
  <2>1. Record(p)
    BY <1>2, <1>8, Zenon DEF RpSafe, RpRecords
  <2>2. Connected(p)' => Connected(p)
    BY <1>2, Zenon DEF Connected, Claimed
  <2>3. rp_start_token(p)' = rp_start_token(p)
    BY <1>2, Zenon DEF rp_start_token
  <2> QED
    BY <1>2, <1>4, <1>5, <2>1, <2>2, <2>3, Zenon DEF Record
<1> QED
  BY <1>2, <1>4, <1>5, <1>6, <1>7, <1>8, RpTenantStep, Zenon

\* disconnect frees the bit; clear_owner wipes its record.
LEMMA RpDisconnect ==
  ASSUME RpInv, NEW p \in Procs, Disconnect(p)
  PROVE  RpInv'
<1>1. RpTypeOK
  BY Zenon DEF RpInv
<1>2. /\ rp_pc[p] = "in" /\ rp_alive[p] /\ Tenant(p)
      /\ rp_pc' = [rp_pc EXCEPT ![p] = "wipe_pid"]
      /\ connections' = connections \ {conn_id[p]}
      /\ UNCHANGED <<owner_pid, owner_tok, rp_alive, rp_life, live, bit, owner, rp_tok,
                     conn_id, evicted, rp_raced>>
  BY Zenon DEF Disconnect, Runs, RpGoto, procs, scan, Tenant
<1>3. "wipe_pid" \in RpLabels /\ rp_pc \in [Procs -> RpLabels]
  BY <1>1, Zenon DEF RpTypeOK, RpLabels
<1>4. /\ rp_pc'[p] = "wipe_pid" /\ \A q \in Procs : q # p => rp_pc'[q] = rp_pc[q]
      /\ rp_pc' \in [Procs -> RpLabels]
  BY <1>2, <1>3, Updated, Zenon
<1>5. /\ connections' \in SUBSET Bits
      /\ \A b \in Bits : b # conn_id[p] => (b \in connections => b \in connections')
  BY <1>1, <1>2, Zenon DEF RpTypeOK
<1>6. RpTypeOK'
  BY <1>1, <1>2, <1>4, <1>5, Zenon DEF RpTypeOK
<1>7. ~Scanning(p)' /\ ~Reaps(p)' /\ rp_pc'[p] # "own_tok" /\ ~Connected(p)'
  BY <1>4, Zenon DEF Scanning, Reaps, Connected, Claimed
<1>8. ASSUME RpSafe PROVE Record(p)'
  <2>1. Record(p)
    BY <1>2, <1>8, Zenon DEF RpSafe, RpRecords
  <2>2. rp_start_token(p)' = rp_start_token(p)
    BY <1>2, Zenon DEF rp_start_token
  <2> QED
    BY <1>2, <1>4, <1>7, <2>1, <2>2, Zenon DEF Record
<1> QED
  BY <1>2, <1>4, <1>5, <1>6, <1>7, <1>8, RpTenantStep, Zenon

LEMMA RpClearOwnerPid ==
  ASSUME RpInv, NEW p \in Procs, ClearOwnerPid(p)
  PROVE  RpInv'
<1>1. RpTypeOK
  BY Zenon DEF RpInv
<1>2. /\ rp_pc[p] = "wipe_pid" /\ rp_alive[p] /\ Tenant(p)
      /\ rp_pc' = [rp_pc EXCEPT ![p] = "wipe_tok"]
      /\ owner_pid' = [owner_pid EXCEPT ![conn_id[p]] = NoPid]
      /\ UNCHANGED <<connections, owner_tok, rp_alive, rp_life, live, bit, owner, rp_tok,
                     conn_id, evicted, rp_raced>>
  BY Zenon DEF ClearOwnerPid, Runs, RpGoto, procs, scan, Tenant
<1>3. /\ conn_id[p] \in Bits /\ "wipe_tok" \in RpLabels /\ NoPid \in Procs \cup {NoPid}
      /\ rp_pc \in [Procs -> RpLabels] /\ owner_pid \in [Bits -> Procs \cup {NoPid}]
  BY <1>1, Zenon DEF RpTypeOK, RpLabels
<1>4. /\ rp_pc'[p] = "wipe_tok" /\ \A q \in Procs : q # p => rp_pc'[q] = rp_pc[q]
      /\ rp_pc' \in [Procs -> RpLabels]
  BY <1>2, <1>3, Updated, Zenon
<1>5. /\ owner_pid' \in [Bits -> Procs \cup {NoPid}] /\ owner_pid'[conn_id[p]] = NoPid
      /\ \A b \in Bits : b # conn_id[p] => owner_pid'[b] = owner_pid[b]
  BY <1>2, <1>3, Updated, Zenon
<1>6. RpTypeOK'
  BY <1>1, <1>2, <1>4, <1>5, Zenon DEF RpTypeOK
<1>7. ~Scanning(p)' /\ ~Reaps(p)' /\ rp_pc'[p] # "own_tok" /\ ~Connected(p)'
  BY <1>4, Zenon DEF Scanning, Reaps, Connected, Claimed
<1>8. ASSUME RpSafe PROVE Record(p)'
  <2>1. Record(p)
    BY <1>2, <1>8, Zenon DEF RpSafe, RpRecords
  <2>2. rp_start_token(p)' = rp_start_token(p)
    BY <1>2, Zenon DEF rp_start_token
  <2> QED
    BY <1>2, <1>4, <1>5, <1>7, <2>1, <2>2, Zenon DEF Record
<1> QED
  BY <1>2, <1>4, <1>5, <1>6, <1>7, <1>8, RpTenantStep, Zenon

LEMMA RpClearOwnerTok ==
  ASSUME RpSetting, RpInv, NEW p \in Procs, ClearOwnerTok(p)
  PROVE  RpInv'
<1>1. RpTypeOK
  BY Zenon DEF RpInv
<1>2. /\ rp_pc[p] = "wipe_tok" /\ rp_alive[p] /\ Tenant(p)
      /\ rp_pc' = [rp_pc EXCEPT ![p] = "out"]
      /\ owner_tok' = [owner_tok EXCEPT ![conn_id[p]] = NoOwnerTok]
      /\ conn_id' = [conn_id EXCEPT ![p] = 0] /\ evicted' = evicted \ {p}
      /\ UNCHANGED <<connections, owner_pid, rp_alive, rp_life, live, bit, owner, rp_tok, rp_raced>>
  BY Zenon DEF ClearOwnerTok, Runs, RpGoto, Gone, procs, scan, Tenant
<1>3. 0 \in Bits
  BY DEF RpSetting, Bits
<1>4. /\ conn_id[p] \in Bits /\ "out" \in RpLabels /\ NoOwnerTok \in OwnerTokens
      /\ rp_pc \in [Procs -> RpLabels] /\ owner_tok \in [Bits -> OwnerTokens]
      /\ conn_id \in [Procs -> Bits] /\ evicted \in SUBSET Procs
  BY <1>1, Zenon DEF RpTypeOK, RpLabels, OwnerTokens
<1>5. /\ rp_pc'[p] = "out" /\ \A q \in Procs : q # p => rp_pc'[q] = rp_pc[q]
      /\ rp_pc' \in [Procs -> RpLabels]
  BY <1>2, <1>4, Updated, Zenon
<1>6. /\ owner_tok' \in [Bits -> OwnerTokens]
      /\ \A b \in Bits : b # conn_id[p] => owner_tok'[b] = owner_tok[b]
  BY <1>2, <1>4, Updated, Zenon
<1>7. conn_id' \in [Procs -> Bits] /\ \A q \in Procs : q # p => conn_id'[q] = conn_id[q]
  BY <1>2, <1>3, <1>4, Updated, Zenon
<1>8. evicted' \in SUBSET Procs /\ \A q \in Procs : q # p => (q \in evicted => q \in evicted')
  BY <1>2, <1>4, Zenon
<1>9. RpTypeOK'
  BY <1>1, <1>2, <1>5, <1>6, <1>7, <1>8, Zenon DEF RpTypeOK
<1>10. ~Scanning(p)' /\ ~Reaps(p)' /\ ~Tenant(p)'
  BY <1>5, Zenon DEF Scanning, Reaps, Tenant
<1> QED
  BY <1>2, <1>5, <1>6, <1>7, <1>8, <1>9, <1>10, RpTenantStep, Zenon

-----------------------------------------------------------------------------
\* A step of no process, that leaves the bits of those who have one.
LEMMA RpBitsStep ==
  ASSUME RpInv, connections' \in SUBSET Bits, evicted' \in SUBSET Procs,
         UNCHANGED <<owner_pid, owner_tok, rp_alive, rp_life, rp_pc, live, bit, owner, rp_tok,
                     conn_id, rp_raced>>,
         \A q \in Procs :
           /\ q \in evicted => q \in evicted'
           /\ conn_id[q] \in connections /\ Connected(q)' => conn_id[q] \in connections'
  PROVE  RpInv'
<1>1. RpTypeOK'
  BY Zenon DEF RpInv, RpTypeOK
<1>2. RpDead'
  BY Zenon DEF RpInv, RpDead
<1>3. ASSUME ~rp_raced PROVE RpSafe'
  <2>1. RpSafe
    BY <1>3, Zenon DEF RpInv
  <2>2. \A q \in Procs : /\ Tenant(q)' <=> Tenant(q)
                         /\ Scanning(q)' <=> Scanning(q)
                         /\ Reaps(q)' <=> Reaps(q)
                         /\ rp_start_token(q)' = rp_start_token(q)
    BY Zenon DEF Tenant, Scanning, Reaps, rp_start_token
  <2>3. RpApart'
    BY <2>1, <2>2, Zenon DEF RpSafe, RpApart
  <2>4. RpRecords'
    BY <2>1, <2>2, RpRecordKept, Zenon DEF RpRecords
  <2>5. RpScan'
    <3> SUFFICES ASSUME NEW q \in Procs, Scanning(q)' PROVE Scanned(q)'
      BY Zenon DEF RpScan
    <3>1. Scanned(q)
      BY <2>1, <2>2, Zenon DEF RpSafe, RpScan
    <3>2. ASSUME NEW d \in Procs, owner[q] = d PROVE Spares(q, d)'
      <4>1. Spares(q, d)
        BY <3>1, <3>2, Zenon DEF Scanned
      <4> QED
        BY <2>2, <4>1, Zenon DEF Spares
    <3> QED
      BY <3>1, <3>2, Zenon DEF Scanned
  <2>6. RpReaped'
    <3> SUFFICES ASSUME NEW q \in Procs, Reaps(q)', NEW x \in Procs, Tenant(x)'
                 PROVE  conn_id'[x] # bit'[q]
      BY Zenon DEF RpReaped, Vacant
    <3>1. Vacant(bit[q])
      BY <2>1, <2>2, Zenon DEF RpSafe, RpReaped
    <3> QED
      BY <2>2, <3>1, Zenon DEF Vacant
  <2> QED
    BY <2>3, <2>4, <2>5, <2>6, Zenon DEF RpSafe
<1> QED
  BY <1>1, <1>2, <1>3, Zenon DEF RpInv

\* A sender frees the bit of a late reader.
LEMMA RpEvict ==
  ASSUME RpInv, NEW b \in Bits, Evict(b)
  PROVE  RpInv'
<1>1. /\ connections' = connections \ {b}
      /\ evicted' = evicted \cup {p \in Procs : Claimed(p) /\ conn_id[p] = b}
      /\ UNCHANGED <<owner_pid, owner_tok, rp_alive, rp_life, rp_pc, live, bit, owner, rp_tok,
                     conn_id, rp_raced>>
  BY Zenon DEF Evict, procs, scan
<1>2. connections' \in SUBSET Bits /\ evicted' \in SUBSET Procs
  BY <1>1, Zenon DEF RpInv, RpTypeOK
<1>3. ASSUME NEW q \in Procs
      PROVE  /\ q \in evicted => q \in evicted'
             /\ conn_id[q] \in connections /\ Connected(q)' => conn_id[q] \in connections'
  <2>1. Connected(q)' => conn_id[q] # b
    BY <1>1, Zenon DEF Connected, Claimed
  <2> QED
    BY <1>1, <2>1, Zenon
<1> QED
  BY <1>1, <1>2, <1>3, RpBitsStep, Zenon

\* A process dies wherever it is.
LEMMA RpDie ==
  ASSUME RpSetting, RpInv, NEW p \in Procs, Die(p)
  PROVE  RpInv'
<1>1. RpTypeOK
  BY Zenon DEF RpInv
<1>2. /\ rp_alive' = [rp_alive EXCEPT ![p] = FALSE]
      /\ rp_pc' = [rp_pc EXCEPT ![p] = "out"]
      /\ conn_id' = [conn_id EXCEPT ![p] = 0] /\ evicted' = evicted \ {p}
      /\ live' = [live EXCEPT ![p] = {}] /\ bit' = [bit EXCEPT ![p] = 0]
      /\ owner' = [owner EXCEPT ![p] = NoPid] /\ rp_tok' = [rp_tok EXCEPT ![p] = NoOwnerTok]
      /\ UNCHANGED <<connections, owner_pid, owner_tok, rp_life, rp_raced>>
  BY Zenon DEF Die, RpGoto, Gone, table
<1>3. 0 \in Bits
  BY DEF RpSetting, Bits
<1>4. /\ rp_alive \in [Procs -> BOOLEAN] /\ rp_pc \in [Procs -> RpLabels]
      /\ live \in [Procs -> SUBSET Bits] /\ bit \in [Procs -> Bits]
      /\ owner \in [Procs -> Procs \cup {NoPid}] /\ rp_tok \in [Procs -> OwnerTokens]
      /\ conn_id \in [Procs -> Bits] /\ evicted \in SUBSET Procs
  BY <1>1, Zenon DEF RpTypeOK
<1>5. /\ "out" \in RpLabels /\ NoOwnerTok \in OwnerTokens /\ NoPid \in Procs \cup {NoPid}
      /\ {} \in SUBSET Bits /\ FALSE \in BOOLEAN
  BY Zenon DEF RpLabels, OwnerTokens
<1>6. /\ rp_alive' \in [Procs -> BOOLEAN] /\ ~rp_alive'[p]
      /\ \A q \in Procs : q # p => rp_alive'[q] = rp_alive[q]
  BY <1>2, <1>4, <1>5, Updated, Zenon
<1>7. /\ rp_pc' \in [Procs -> RpLabels] /\ rp_pc'[p] = "out"
      /\ \A q \in Procs : q # p => rp_pc'[q] = rp_pc[q]
  BY <1>2, <1>4, <1>5, Updated, Zenon
<1>8. bit' \in [Procs -> Bits] /\ \A q \in Procs : q # p => bit'[q] = bit[q]
  BY <1>2, <1>3, <1>4, Updated, Zenon
<1>9. /\ owner' \in [Procs -> Procs \cup {NoPid}]
      /\ \A q \in Procs : q # p => owner'[q] = owner[q]
  BY <1>2, <1>4, <1>5, Updated, Zenon
<1>10. rp_tok' \in [Procs -> OwnerTokens] /\ \A q \in Procs : q # p => rp_tok'[q] = rp_tok[q]
  BY <1>2, <1>4, <1>5, Updated, Zenon
<1>11. conn_id' \in [Procs -> Bits] /\ \A q \in Procs : q # p => conn_id'[q] = conn_id[q]
  BY <1>2, <1>3, <1>4, Updated, Zenon
<1>12. live' \in [Procs -> SUBSET Bits]
  BY <1>2, <1>4, <1>5, Updated, Zenon
<1>13. evicted' \in SUBSET Procs /\ \A q \in Procs : q # p => (q \in evicted => q \in evicted')
  BY <1>2, <1>4, Zenon
<1>14. RpTypeOK'
  BY <1>1, <1>2, <1>6, <1>7, <1>8, <1>9, <1>10, <1>11, <1>12, <1>13, Zenon DEF RpTypeOK
<1>15. RpDead'
  BY <1>6, <1>7, Zenon DEF RpInv, RpDead
<1>16. ASSUME ~rp_raced PROVE RpSafe'
  <2>1. RpSafe
    BY <1>16, Zenon DEF RpInv
  <2>2. ~Tenant(p)' /\ ~Scanning(p)' /\ ~Reaps(p)'
    BY <1>6, Zenon DEF Tenant, Scanning, Reaps
  <2>3. \A q \in Procs : Tenant(q)' => Tenant(q) /\ q # p
    BY <1>6, <1>7, <2>2, Zenon DEF Tenant
  <2>4. \A q \in Procs : Tenant(q)' => Record(q)'
    BY <1>2, <1>6, <1>7, <1>11, <1>13, <2>1, <2>3, RpRecordKept, Zenon
  <2> QED
    BY <1>2, <1>6, <1>7, <1>8, <1>9, <1>10, <1>11, <2>1, <2>2, <2>4, RpOneMoves, Zenon
<1> QED
  BY <1>2, <1>14, <1>15, <1>16, Zenon DEF RpInv

\* A new process gets a dead one's id, and with it a new start token.
LEMMA RpStart ==
  ASSUME RpInv, NEW p \in Procs, Start(p)
  PROVE  RpInv'
<1>1. RpTypeOK
  BY Zenon DEF RpInv
<1>2. /\ ~rp_alive[p] /\ rp_alive' = [rp_alive EXCEPT ![p] = TRUE]
      /\ rp_life' = [rp_life EXCEPT ![p] = rp_life[p] + 1]
      /\ UNCHANGED <<connections, owner_pid, owner_tok, rp_pc, live, bit, owner, rp_tok,
                     conn_id, evicted, rp_raced>>
  BY Zenon DEF Start, table, scan
<1>3. rp_pc[p] = "out"
  BY <1>2, Zenon DEF RpInv, RpDead
<1>4. rp_alive \in [Procs -> BOOLEAN] /\ rp_life \in [Procs -> Nat] /\ rp_life[p] \in Nat
  BY <1>1, Zenon DEF RpTypeOK
<1>5. rp_life[p] + 1 \in Nat /\ TRUE \in BOOLEAN
  BY <1>4
<1>6. /\ rp_alive' \in [Procs -> BOOLEAN] /\ rp_alive'[p]
      /\ \A q \in Procs : q # p => rp_alive'[q] = rp_alive[q]
  BY <1>2, <1>4, <1>5, Updated, Zenon
<1>7. rp_life' \in [Procs -> Nat] /\ \A q \in Procs : q # p => rp_life'[q] = rp_life[q]
  BY <1>2, <1>4, <1>5, Updated, Zenon
<1>8. RpTypeOK'
  BY <1>1, <1>2, <1>6, <1>7, Zenon DEF RpTypeOK
<1>9. RpDead'
  BY <1>2, <1>6, Zenon DEF RpInv, RpDead
<1>10. ASSUME ~rp_raced PROVE RpSafe'
  <2>1. RpSafe
    BY <1>10, Zenon DEF RpInv
  <2>2. ~Tenant(p)' /\ ~Scanning(p)' /\ ~Reaps(p)'
    BY <1>2, <1>3, Zenon DEF Tenant, Scanning, Reaps
  <2>3. \A q \in Procs : Tenant(q)' => Tenant(q) /\ q # p
    BY <1>2, <1>6, <2>2, Zenon DEF Tenant
  <2>4. \A q \in Procs : Tenant(q)' => Record(q)'
    BY <1>2, <1>6, <1>7, <2>1, <2>3, RpRecordKept, Zenon
  <2> QED
    BY <1>2, <1>6, <1>7, <2>1, <2>2, <2>4, RpOneMoves, Zenon
<1> QED
  BY <1>2, <1>8, <1>9, <1>10, Zenon DEF RpInv

-----------------------------------------------------------------------------
LEMMA RpInvNext ==
  ASSUME RpSetting, RpInv, [RpNext]_rp_vars
  PROVE  RpInv'
<1>1. CASE UNCHANGED rp_vars
  <2>1. UNCHANGED <<connections, owner_pid, owner_tok, rp_alive, rp_life, rp_pc, live, bit, owner,
                    rp_tok, conn_id, evicted, rp_raced>>
    BY <1>1, Zenon DEF rp_vars, table, procs, scan
  <2>2. connections' \in SUBSET Bits /\ evicted' \in SUBSET Procs
    BY <2>1, Zenon DEF RpInv, RpTypeOK
  <2> QED
    BY <2>1, <2>2, RpBitsStep, Zenon
<1>2. ASSUME NEW p \in Procs, Connect(p) PROVE RpInv'
  BY <1>2, RpLooks, RpReapCas, RpReapWipe, RpReapClear, RpClaimBit, RpSetOwnerTok,
     RpSetOwnerPid, Zenon DEF Connect
<1>3. ASSUME NEW p \in Procs,
             Disconnect(p) \/ ClearOwnerPid(p) \/ ClearOwnerTok(p) \/ Die(p) \/ Start(p)
      PROVE  RpInv'
  BY <1>3, RpDisconnect, RpClearOwnerPid, RpClearOwnerTok, RpDie, RpStart, Zenon
<1>4. ASSUME NEW b \in Bits, Evict(b) PROVE RpInv'
  BY <1>4, RpEvict, Zenon
<1> QED
  BY <1>1, <1>2, <1>3, <1>4, Zenon DEF RpNext, RpDone

\* Receivers may disconnect, be evicted, die anywhere and start again under a
\* dead one's id, and every reaper may act on a record it loaded long ago: as
\* long as no bit was claimed unsettled, the bit of a running receiver stays set
\* and is its alone (ChanInner::open, disconnect, reap_dead_receivers).
THEOREM KeepsBitAlways ==
  ASSUME RpSetting
  PROVE  RpSpec => []KeepsBit
<1>1. RpInit => RpInv
  BY RpInvInit, Zenon
<1>2. RpInv /\ [RpNext]_rp_vars => RpInv'
  BY RpInvNext, Zenon
<1>3. RpInv => KeepsBit
  <2> SUFFICES ASSUME RpInv, ~rp_raced PROVE HoldsBit
    BY Zenon DEF RpInv, KeepsBit
  <2>1. RpApart /\ RpRecords
    BY Zenon DEF RpInv, RpSafe
  <2>2. \A p \in Procs : Connected(p) => Tenant(p)
    BY Zenon DEF Connected, Claimed, Tenant
  <2>3. \A p \in Procs : Connected(p) => conn_id[p] \in connections
    BY <2>1, <2>2, Zenon DEF RpRecords, Record
  <2> QED
    BY <2>1, <2>2, <2>3, Zenon DEF RpInv, HoldsBit, RpApart
<1> QED
  BY <1>1, <1>2, <1>3, PTL DEF RpSpec

\* Under the same circumstances a running receiver that has finished open has
\* its own id and token on record: neither set_owner's two stores nor a reaper's
\* late wipe of the former tenant's leave it without, or with a half of another's.
THEOREM OnRecordAlways ==
  ASSUME RpSetting
  PROVE  RpSpec => []OnRecord
<1>1. RpInit => RpInv
  BY RpInvInit, Zenon
<1>2. RpInv /\ [RpNext]_rp_vars => RpInv'
  BY RpInvNext, Zenon
<1>3. RpInv => OnRecord
  <2> SUFFICES ASSUME RpInv, ~rp_raced, NEW p \in Procs, Connected(p), rp_pc[p] = "in"
               PROVE  owner_pid[conn_id[p]] = p /\ owner_tok[conn_id[p]] = rp_start_token(p)
    BY Zenon DEF OnRecord
  <2>1. Record(p)
    BY Zenon DEF RpInv, RpSafe, RpRecords, Connected, Claimed, Tenant
  <2> QED
    BY <2>1, Zenon DEF Record
<1> QED
  BY <1>1, <1>2, <1>3, PTL DEF RpSpec

-----------------------------------------------------------------------------
(* ShmRing *)

RingSlots == 0 .. N - 1
WriterState == [pc : {"open", "init", "idle", "bump", "fill", "commit"}, w : Nat, r : Nat, item : Nat]
ReaderState == [pc : {"open", "init", "idle", "copy", "commit"}, r : Nat, v : Nat]

\* Item k + 1 is written at index k.  What lies between the two indices is in
\* its slot, the slot a writer fills is beyond the reader, the slot a reader
\* copies is behind the writer, and nobody is at work before the header is.
RingTypes ==
  /\ write_idx \in Nat /\ read_idx \in Nat /\ slots \in [RingSlots -> Nat]
  /\ wr \in WriterState /\ rd \in ReaderState
RingIndices ==
  /\ read_idx <= write_idx /\ write_idx <= read_idx + N
  /\ got = read_idx /\ wr.item = write_idx + 1 /\ wr.pc # "bump"
  /\ wr.pc \in {"open", "init"} => write_idx = 0
  /\ ~constructed => wr.pc \in {"open", "init"} /\ rd.pc \in {"open", "init"}
  /\ wr.pc \in {"fill", "commit"} => wr.w = write_idx /\ write_idx < read_idx + N
  /\ rd.pc \in {"copy", "commit"} => rd.r = read_idx /\ read_idx < write_idx
  /\ rd.pc = "commit" => rd.v = read_idx + 1
RingFilled ==
  /\ wr.pc = "commit" => slots[write_idx % N] = write_idx + 1
  /\ \A k \in Nat : read_idx <= k /\ k < write_idx => slots[k % N] = k + 1
RingInv == ~over /\ ~reset => RingTypes /\ RingIndices /\ RingFilled

\* A remainder lies below the divisor.
LEMMA IndexSlot ==
  ASSUME N \in Nat \ {0}, NEW k \in Nat
  PROVE  k % N \in RingSlots
BY SMT DEF RingSlots

\* Indices less than a lap apart have slots of their own.
LEMMA IndicesApart ==
  ASSUME N \in Nat \ {0}, NEW a \in Nat, NEW b \in Nat, a < b, b < a + N
  PROVE  a % N # b % N
<1> DEFINE i == a \div N
           j == b \div N
<1>1. /\ i \in Int /\ a = (N * i) + (a % N) /\ a % N \in Int
      /\ j \in Int /\ b = (N * j) + (b % N) /\ b % N \in Int
  BY SMT
<1>2. N * i \in Int /\ N * j \in Int
  BY <1>1, SMT
<1> HIDE DEF i, j
<1>3. ASSUME a % N = b % N PROVE FALSE
  <2>1. N * i < N * j /\ N * j < N * i + N
    BY <1>1, <1>2, <1>3, SMT
  <2>2. \A x, y \in Int : x < y => N * x + N <= N * y
    BY SMT
  <2>3. (i < j => N * i + N <= N * j) /\ (j < i => N * j + N <= N * i)
    BY <1>1, <2>2, Zenon
  <2> QED
    BY <1>1, <1>2, <2>1, <2>3, SMT
<1> QED
  BY <1>3

LEMMA RingInvInit ==
  ASSUME N \in Nat \ {0}, RingInit
  PROVE  RingInv
<1>1. /\ wr.pc = "open" /\ wr.item = 1 /\ rd.pc = "open" /\ write_idx = 0 /\ read_idx = 0 /\ got = 0
  BY DEF RingInit
<1>2. RingTypes
  <2>1. wr \in WriterState /\ rd \in ReaderState
    BY SMT DEF RingInit, WriterState, ReaderState
  <2>2. slots \in [RingSlots -> Nat]
    BY SMT DEF RingInit, RingSlots
  <2> QED
    BY <1>1, <2>1, <2>2 DEF RingTypes
<1> QED
  BY <1>1, <1>2, SMT DEF RingInv, RingIndices, RingFilled

LEMMA RingInvStep ==
  ASSUME N \in Nat \ {0}, RingInv, [RingNext]_ring_vars
  PROVE  RingInv'
<1> SUFFICES ASSUME ~over', ~reset'
             PROVE  RingTypes' /\ RingIndices' /\ RingFilled'
  BY DEF RingInv
<1>0. RingTypes /\ RingIndices /\ RingFilled /\ ~over /\ ~reset
  <2>1. over' = over /\ (reset => reset')
    <3>1. CASE WriterInits \/ ReaderInits
      BY <3>1, Zenon DEF WriterInits, ReaderInits, OpenStore
    <3>2. CASE ~(WriterInits \/ ReaderInits)
      <4>1. UNCHANGED <<over, reset>>
        BY <3>2 DEF RingNext, ring_vars, RingDone, WriterOpens, ReaderOpens, OpenLoad, WriteLoad,
                    WriteBump, WriteFill, WriteCommit, ReadLoad, ReadCopy, ReadCommit
      <4> QED
        BY <4>1
    <3> QED
      BY <3>1, <3>2
  <2> QED
    BY <2>1 DEF RingInv
<1>t. /\ write_idx \in Nat /\ read_idx \in Nat /\ slots \in [RingSlots -> Nat]
      /\ wr \in WriterState /\ rd \in ReaderState
  BY <1>0 DEF RingTypes
<1>n. wr.item \in Nat /\ wr.w \in Nat /\ rd.r \in Nat /\ rd.v \in Nat
  BY <1>t, Zenon DEF WriterState, ReaderState
<1>1. CASE WriterOpens
  <2>1. wr' \in WriterState /\ wr'.pc = (IF constructed THEN "idle" ELSE "init") /\ wr'.item = wr.item
    BY <1>1, <1>t, Zenon DEF WriterOpens, WriterState
  <2>2. /\ UNCHANGED <<constructed, write_idx, read_idx, slots, rd, got>> /\ wr.pc = "open"
    BY <1>1 DEF WriterOpens, OpenLoad, hdr
  <2>3. RingTypes'
    BY <1>t, <2>1, <2>2 DEF RingTypes
  <2>4. RingIndices'
    BY <1>0, <2>1, <2>2, SMT DEF RingIndices
  <2>5. RingFilled'
    BY <1>0, <2>1, <2>2, SMT DEF RingFilled
  <2> QED
    BY <2>3, <2>4, <2>5
<1>2. CASE WriterInits \/ ReaderInits
  <2>1. ~constructed /\ constructed'
    BY <1>2, Zenon DEF WriterInits, ReaderInits, OpenStore
  <2>2. write_idx = 0 /\ read_idx = 0 /\ got = 0 /\ wr.item = 1 /\ wr.pc \in {"open", "init"}
        /\ rd.pc \in {"open", "init"}
    BY <1>0, <1>t, <2>1, SMT DEF RingIndices
  <2>3. write_idx' = 0 /\ read_idx' = 0 /\ got' = 0 /\ slots' = [i \in 0 .. N - 1 |-> 0]
    BY <1>2, <2>2 DEF WriterInits, ReaderInits, OpenStore
  <2>4. wr' \in WriterState /\ wr'.item = wr.item /\ wr'.pc \in {"open", "init", "idle"}
    <3>1. CASE WriterInits
      BY <1>t, <3>1, Zenon DEF WriterInits, WriterState
    <3>2. CASE ReaderInits
      BY <1>t, <2>2, <3>2, Zenon DEF ReaderInits
    <3> QED
      BY <1>2, <3>1, <3>2
  <2>5. rd' \in ReaderState /\ rd'.pc \in {"open", "init", "idle"}
    <3>1. CASE WriterInits
      BY <1>t, <2>2, <3>1, Zenon DEF WriterInits
    <3>2. CASE ReaderInits
      BY <1>t, <3>2, Zenon DEF ReaderInits, ReaderState
    <3> QED
      BY <1>2, <3>1, <3>2
  <2>6. slots' \in [RingSlots -> Nat]
    BY <2>3, SMT DEF RingSlots
  <2>7. RingTypes'
    BY <2>3, <2>4, <2>5, <2>6 DEF RingTypes
  <2>8. RingIndices' /\ RingFilled'
    BY <2>1, <2>2, <2>3, <2>4, <2>5, SMT DEF RingIndices, RingFilled
  <2> QED
    BY <2>7, <2>8
<1>3. CASE ReaderOpens
  <2>1. rd' \in ReaderState /\ rd'.pc = (IF constructed THEN "idle" ELSE "init")
    BY <1>3, <1>t, Zenon DEF ReaderOpens, ReaderState
  <2>2. UNCHANGED <<constructed, write_idx, read_idx, slots, wr, got>>
    BY <1>3 DEF ReaderOpens, OpenLoad, hdr
  <2>3. RingTypes'
    BY <1>t, <2>1, <2>2 DEF RingTypes
  <2>4. RingIndices'
    BY <1>0, <2>1, <2>2, SMT DEF RingIndices
  <2>5. RingFilled'
    BY <1>0, <2>1, <2>2, SMT DEF RingFilled
  <2> QED
    BY <2>3, <2>4, <2>5
<1>4. CASE WriteLoad
  <2>1. /\ wr' \in WriterState /\ wr'.w = write_idx /\ wr'.item = wr.item
        /\ wr'.pc = IF write_idx - read_idx < N THEN "fill" ELSE "idle"
    BY <1>0, <1>4, <1>t, Zenon DEF WriteLoad, WriterState
  <2>2. UNCHANGED <<constructed, write_idx, read_idx, slots, rd, got>> /\ wr.pc = "idle"
    BY <1>4 DEF WriteLoad, hdr
  <2>3. RingTypes'
    BY <1>t, <2>1, <2>2 DEF RingTypes
  <2>4. RingIndices'
    BY <1>0, <1>t, <2>1, <2>2, SMT DEF RingIndices
  <2>5. RingFilled'
    BY <1>0, <2>1, <2>2, SMT DEF RingFilled
  <2> QED
    BY <2>3, <2>4, <2>5
<1>5. CASE WriteBump
  BY <1>0, <1>5 DEF WriteBump, RingIndices
<1>6. CASE WriteFill
  <2>1. wr.w = write_idx /\ write_idx < read_idx + N /\ wr.item = write_idx + 1 /\ wr.pc = "fill"
    BY <1>0, <1>6 DEF WriteFill, RingIndices
  <2>2. /\ wr' \in WriterState /\ wr'.pc = "commit" /\ wr'.item = wr.item /\ wr'.w = wr.w
    BY <1>6, <1>t, Zenon DEF WriteFill, WriterState
  <2>3. UNCHANGED <<constructed, write_idx, read_idx, rd, got>>
    BY <1>6 DEF WriteFill
  <2>4. write_idx % N \in RingSlots
    BY <1>t, IndexSlot, Zenon
  <2>5. /\ slots' \in [RingSlots -> Nat] /\ slots'[write_idx % N] = wr.item
        /\ \A i \in RingSlots : i # write_idx % N => slots'[i] = slots[i]
    <3>1. slots' = [slots EXCEPT ![write_idx % N] = wr.item]
      BY <1>6, <2>1 DEF WriteFill
    <3> QED
      BY <1>t, <1>n, <2>4, <3>1, Zenon
  <2>6. RingTypes'
    BY <1>t, <2>2, <2>3, <2>5 DEF RingTypes
  <2>7. RingIndices'
    BY <1>0, <2>1, <2>2, <2>3, SMT DEF RingIndices
  <2>8. RingFilled'
    <3>1. ASSUME NEW k \in Nat, read_idx <= k, k < write_idx PROVE slots'[k % N] = k + 1
      <4>1. k % N # write_idx % N
        <5>1. write_idx < k + N
          BY <1>t, <2>1, <3>1, SMT
        <5> QED
          BY <1>t, <3>1, <5>1, IndicesApart, Zenon
      <4>2. slots[k % N] = k + 1
        BY <1>0, <3>1 DEF RingFilled
      <4> QED
        BY <2>5, <4>1, <4>2, IndexSlot, Zenon
    <3> QED
      BY <2>1, <2>3, <2>5, <3>1, Zenon DEF RingFilled
  <2> QED
    BY <2>6, <2>7, <2>8
<1>7. CASE WriteCommit
  <2>1. wr.item + 1 \in Nat /\ wr.pc = "commit" /\ write_idx' = write_idx + 1
    BY <1>7, <1>n DEF WriteCommit
  <2>2. wr' \in WriterState /\ wr'.pc = "idle" /\ wr'.item = wr.item + 1
    BY <1>7, <1>t, <2>1, Zenon DEF WriteCommit, WriterState
  <2>3. UNCHANGED <<constructed, read_idx, slots, rd, got>>
    BY <1>7 DEF WriteCommit
  <2>4. RingTypes'
    BY <1>t, <2>1, <2>2, <2>3 DEF RingTypes
  <2>5. RingIndices'
    BY <1>0, <1>t, <2>1, <2>2, <2>3, SMT DEF RingIndices
  <2>6. RingFilled'
    <3>1. \A k \in Nat : k < write_idx + 1 => k < write_idx \/ k = write_idx
      BY <1>t, SMT
    <3>2. slots[write_idx % N] = write_idx + 1
      BY <1>0, <2>1 DEF RingFilled
    <3> QED
      BY <1>0, <2>1, <2>2, <2>3, <3>1, <3>2 DEF RingFilled
  <2> QED
    BY <2>4, <2>5, <2>6
<1>8. CASE ReadLoad
  <2>1. rd' \in ReaderState /\ rd'.pc = "copy" /\ rd'.r = read_idx
    BY <1>8, <1>t, Zenon DEF ReadLoad, ReaderState
  <2>2. UNCHANGED <<constructed, write_idx, read_idx, slots, wr, got>> /\ rd.pc = "idle" /\ read_idx < write_idx
    BY <1>8 DEF ReadLoad, hdr
  <2>3. RingTypes'
    BY <1>t, <2>1, <2>2 DEF RingTypes
  <2>4. RingIndices'
    BY <1>0, <2>1, <2>2, SMT DEF RingIndices
  <2>5. RingFilled'
    BY <1>0, <2>2, SMT DEF RingFilled
  <2> QED
    BY <2>3, <2>4, <2>5
<1>9. CASE ReadCopy
  <2>1. rd.pc = "copy" /\ rd.r = read_idx /\ read_idx < write_idx
    BY <1>0, <1>9 DEF ReadCopy, RingIndices
  <2>2. slots[rd.r % N] = read_idx + 1 /\ read_idx + 1 \in Nat
    BY <1>0, <1>t, <2>1, SMT DEF RingFilled
  <2>3. rd' \in ReaderState /\ rd'.pc = "commit" /\ rd'.r = rd.r /\ rd'.v = read_idx + 1
    BY <1>9, <1>t, <2>2, Zenon DEF ReadCopy, ReaderState
  <2>4. UNCHANGED <<constructed, write_idx, read_idx, slots, wr, got>>
    BY <1>9 DEF ReadCopy, hdr
  <2>5. RingTypes'
    BY <1>t, <2>3, <2>4 DEF RingTypes
  <2>6. RingIndices'
    BY <1>0, <2>1, <2>3, <2>4, SMT DEF RingIndices
  <2>7. RingFilled'
    BY <1>0, <2>4, SMT DEF RingFilled
  <2> QED
    BY <2>5, <2>6, <2>7
<1>10. CASE ReadCommit
  <2>1. rd.pc = "commit" /\ read_idx' = read_idx + 1 /\ got' = rd.v
    BY <1>10 DEF ReadCommit
  <2>2. rd' \in ReaderState /\ rd'.pc = "idle"
    BY <1>10, <1>t, Zenon DEF ReadCommit, ReaderState
  <2>3. UNCHANGED <<constructed, write_idx, slots, wr>>
    BY <1>10 DEF ReadCommit
  <2>4. RingTypes'
    BY <1>t, <2>1, <2>2, <2>3 DEF RingTypes
  <2>5. RingIndices'
    BY <1>0, <1>t, <2>1, <2>2, <2>3, SMT DEF RingIndices
  <2>6. RingFilled'
    <3>1. \A k \in Nat : read_idx + 1 <= k => read_idx <= k
      BY <1>t, SMT
    <3>2. \A k \in Nat : read_idx' <= k /\ k < write_idx' => slots'[k % N] = k + 1
      BY <1>0, <2>1, <2>3, <3>1, Zenon DEF RingFilled
    <3>3. wr'.pc = "commit" => slots'[write_idx' % N] = write_idx' + 1
      BY <1>0, <2>3 DEF RingFilled
    <3> QED
      BY <3>2, <3>3 DEF RingFilled
  <2> QED
    BY <2>4, <2>5, <2>6
<1>11. CASE UNCHANGED ring_vars
  BY <1>0, <1>11 DEF ring_vars, RingTypes, RingIndices, RingFilled
<1> QED
  BY <1>1, <1>2, <1>3, <1>4, <1>5, <1>6, <1>7, <1>8, <1>9, <1>10, <1>11, Zenon DEF RingNext, RingDone

\* A ring that is set up once and written with write gives its reader every
\* item once and in order, whatever its capacity and however the steps of the
\* two sides interleave.
THEOREM RingInOrder ==
  ASSUME N \in Nat \ {0}
  PROVE  RingSpec => []RingFifo
<1>1. RingInit => RingInv
  BY RingInvInit
<1>2. RingInv /\ [RingNext]_ring_vars => RingInv'
  BY RingInvStep
<1>3. RingInv => RingFifo
  BY SMT DEF RingInv, RingFifo, RingTypes, RingIndices
<1> QED
  BY <1>1, <1>2, <1>3, PTL DEF RingSpec

-----------------------------------------------------------------------------
(* ShmCache *)

\* A count that is no less than the members of a set: each has a number of
\* its own in it.
Counts(S, n) == n \in Nat /\ \E f \in [S -> 1..n] : \A a, b \in S : f[a] = f[b] => a = b

LEMMA CountsNone ==
  ASSUME NEW S, S = {}
  PROVE  Counts(S, 0)
<1>1. [x \in S |-> 0] \in [S -> 1..0]
  BY Zenon
<1>2. 0 \in Nat
  OBVIOUS
<1> QED
  BY <1>1, <1>2, Zenon DEF Counts

LEMMA CountsAdd ==
  ASSUME NEW S, NEW n, Counts(S, n), NEW t, t \notin S
  PROVE  Counts(S \cup {t}, n + 1)
<1>1. PICK f \in [S -> 1..n] : \A a, b \in S : f[a] = f[b] => a = b
  BY Zenon DEF Counts
<1> DEFINE g == [x \in S \cup {t} |-> IF x = t THEN n + 1 ELSE f[x]]
<1>2. n + 1 \in Nat /\ n + 1 \in 1..(n + 1) /\ \A i \in 1..n : i \in 1..(n + 1) /\ i # n + 1
  <2>1. n \in Nat
    BY Zenon DEF Counts
  <2> QED
    BY <2>1
<1>3. g \in [S \cup {t} -> 1..(n + 1)]
  BY <1>2, Zenon
<1>4. \A a, b \in S \cup {t} : g[a] = g[b] => a = b
  BY <1>1, <1>2, Zenon
<1> HIDE DEF g
<1> QED
  BY <1>2, <1>3, <1>4, Zenon DEF Counts

LEMMA CountsRemove ==
  ASSUME NEW S, NEW n, Counts(S, n), NEW t \in S
  PROVE  Counts(S \ {t}, n - 1) /\ n >= 1
<1>1. PICK f \in [S -> 1..n] : \A a, b \in S : f[a] = f[b] => a = b
  BY Zenon DEF Counts
<1> DEFINE g == [x \in S \ {t} |-> IF f[x] = n THEN f[t] ELSE f[x]]
<1>2. n \in Nat /\ \A x \in S : f[x] \in 1..n
  BY Zenon DEF Counts
<1>3. n - 1 \in Nat /\ n >= 1 /\ \A x \in S : f[x] # n => f[x] \in 1..(n - 1)
  BY <1>2
<1>4. g \in [S \ {t} -> 1..(n - 1)]
  BY <1>1, <1>3, Zenon
<1>5. ASSUME NEW a \in S \ {t}, NEW b \in S \ {t}, g[a] = g[b]
      PROVE  a = b
  <2>1. f[a] # f[t] /\ f[b] # f[t] /\ (f[a] = f[b] => a = b)
    BY <1>1, Zenon
  <2>2. g[a] = (IF f[a] = n THEN f[t] ELSE f[a]) /\ g[b] = (IF f[b] = n THEN f[t] ELSE f[b])
    BY Zenon
  <2> QED
    BY <1>5, <2>1, <2>2, Zenon
<1> HIDE DEF g
<1> QED
  BY <1>3, <1>4, <1>5, Zenon DEF Counts

Keepers == {x \in Handles : kept[x] # 0}

\* Until the name is cleared the entry under it counts all the handles that are
\* open, and they all keep it.
CacheInv ==
  /\ map \in Entries \cup {0} /\ mapped \in 0 .. MaxMade
  /\ local_ref \in [Entries -> Int] /\ kept \in [Handles -> Entries \cup {0}]
  /\ ~purged => /\ CacheOneMapping
                /\ map # 0 => Counts(Keepers, local_ref[map])

LEMMA CacheInvInit ==
  ASSUME MaxMade \in Nat, CacheInit
  PROVE  CacheInv
<1>1. map = 0 /\ mapped = 0 /\ 0 \in 0 .. MaxMade
  BY SMT DEF CacheInit
<1>2. /\ local_ref \in [Entries -> Int] /\ kept \in [Handles -> Entries \cup {0}]
      /\ \A x \in Handles : kept[x] = 0
  <2>1. 0 \in Int
    OBVIOUS
  <2> QED
    BY <2>1, Zenon DEF CacheInit
<1> QED
  BY <1>1, <1>2, Zenon DEF CacheInv, CacheOneMapping

LEMMA CacheInvStep ==
  ASSUME MaxMade \in Nat, CacheInv, [CacheNext]_cache_vars
  PROVE  CacheInv'
<1>0. /\ map \in Entries \cup {0} /\ mapped \in 0 .. MaxMade
      /\ local_ref \in [Entries -> Int] /\ kept \in [Handles -> Entries \cup {0}]
  BY Zenon DEF CacheInv
<1>a. 0 \notin Entries
  BY SMT DEF Entries
<1>1. ASSUME NEW x \in Handles, CacheAcquire(x) PROVE CacheInv'
  <2>0. kept[x] = 0 /\ x \notin Keepers /\ purged' = purged
    BY <1>1, Zenon DEF CacheAcquire, Keepers
  <2>1. ASSUME NEW m \in Entries, kept' = [kept EXCEPT ![x] = m]
        PROVE  /\ kept' \in [Handles -> Entries \cup {0}] /\ kept'[x] = m
               /\ \A u \in Handles : u # x => kept'[u] = kept[u]
               /\ Keepers' = Keepers \cup {x}
    <3>1. /\ kept' \in [Handles -> Entries \cup {0}] /\ kept'[x] = m
          /\ \A u \in Handles : u # x => kept'[u] = kept[u]
      BY <1>0, <2>1, Updated, Zenon
    <3>2. Keepers' = Keepers \cup {x}
      BY <1>a, <3>1, Zenon DEF Keepers
    <3> QED
      BY <3>1, <3>2, Zenon
  <2>2. CASE map # 0
    <3>1. /\ local_ref' = [local_ref EXCEPT ![map] = local_ref[map] + 1]
          /\ kept' = [kept EXCEPT ![x] = map] /\ map' = map /\ mapped' = mapped
      BY <1>1, <2>2, Zenon DEF CacheAcquire
    <3>2. map \in Entries /\ local_ref[map] \in Int /\ local_ref[map] + 1 \in Int
      BY <1>0, <2>2, SMT
    <3>3. local_ref' \in [Entries -> Int] /\ local_ref'[map] = local_ref[map] + 1
      BY <1>0, <3>1, <3>2, Updated, Zenon
    <3>4. /\ kept' \in [Handles -> Entries \cup {0}] /\ kept'[x] = map
          /\ \A u \in Handles : u # x => kept'[u] = kept[u]
          /\ Keepers' = Keepers \cup {x}
      BY <2>1, <3>1, <3>2, Zenon
    <3>5. ~purged => Counts(Keepers', local_ref'[map'])
      BY <2>0, <2>2, <3>1, <3>3, <3>4, CountsAdd, Zenon DEF CacheInv
    <3> QED
      BY <1>0, <2>0, <2>2, <3>1, <3>3, <3>4, <3>5, Zenon DEF CacheInv, CacheOneMapping
  <2>3. CASE map = 0
    <3>1. /\ mapped < MaxMade /\ mapped' = mapped + 1 /\ map' = mapped + 1
          /\ local_ref' = [local_ref EXCEPT ![mapped + 1] = 1]
          /\ kept' = [kept EXCEPT ![x] = mapped + 1]
      BY <1>1, <2>3, Zenon DEF CacheAcquire
    <3>2. mapped + 1 \in Entries /\ mapped + 1 \in 0 .. MaxMade /\ 1 \in Int /\ 0 + 1 = 1
      BY <1>0, <3>1, SMT DEF Entries
    <3>3. local_ref' \in [Entries -> Int] /\ local_ref'[map'] = 1
      BY <1>0, <3>1, <3>2, Updated, Zenon
    <3>4. /\ kept' \in [Handles -> Entries \cup {0}] /\ kept'[x] = map'
          /\ \A u \in Handles : u # x => kept'[u] = kept[u]
          /\ Keepers' = Keepers \cup {x}
      BY <2>1, <3>1, <3>2, Zenon
    <3>5. ~purged => Counts(Keepers', local_ref'[map'])
      <4>1. ~purged => Keepers = {}
        BY <1>a, <1>0, <2>3, Zenon DEF CacheInv, CacheOneMapping, Keepers
      <4>2. ~purged => Counts(Keepers \cup {x}, 0 + 1)
        BY <2>0, <4>1, CountsNone, CountsAdd, Zenon
      <4>3. ~purged => Counts(Keepers', 1)
        BY <3>2, <3>4, <4>2, Zenon
      <4> QED
        BY <3>3, <4>3, Zenon
    <3>6. ~purged => \A u \in Handles : kept'[u] # 0 => u = x
      BY <2>3, <3>4, Zenon DEF CacheInv, CacheOneMapping
    <3> QED
      BY <2>0, <3>1, <3>2, <3>3, <3>4, <3>5, <3>6, Zenon DEF CacheInv, CacheOneMapping
  <2> QED
    BY <2>2, <2>3, Zenon
<1>2. ASSUME NEW x \in Handles, CacheRelease(x) PROVE CacheInv'
  <2>0. kept[x] # 0 /\ x \in Keepers /\ purged' = purged /\ mapped' = mapped
    BY <1>2, Zenon DEF CacheRelease, Keepers
  <2>1. /\ kept' \in [Handles -> Entries \cup {0}] /\ kept'[x] = 0
        /\ \A u \in Handles : u # x => kept'[u] = kept[u]
    BY <1>0, <1>2, Updated, Zenon DEF CacheRelease
  <2>2. Keepers' = Keepers \ {x}
    BY <2>1, Zenon DEF Keepers
  <2>4. CASE map = 0
    <3>1. map' = map /\ local_ref' = local_ref
      BY <1>2, <2>4, Zenon DEF CacheRelease
    <3> QED
      BY <1>0, <2>0, <2>1, <2>4, <3>1, Zenon DEF CacheInv, CacheOneMapping
  <2>5. CASE map # 0
    <3>1. /\ local_ref' = [local_ref EXCEPT ![map] = local_ref[map] - 1]
          /\ map' = IF local_ref[map] <= 1 THEN 0 ELSE map
      BY <1>2, <2>5, Zenon DEF CacheRelease
    <3>2. map \in Entries /\ local_ref[map] \in Int /\ local_ref[map] - 1 \in Int
      BY <1>0, <2>5, SMT
    <3>3. local_ref' \in [Entries -> Int] /\ local_ref'[map] = local_ref[map] - 1
      BY <1>0, <3>1, <3>2, Updated, Zenon
    <3>4. map' \in Entries \cup {0} /\ map' \in {map, 0}
      BY <1>0, <3>1, Zenon
    <3>5. ASSUME ~purged, map' = 0 PROVE \A u \in Handles : kept'[u] = 0
      <4>1. local_ref[map] <= 1 /\ Counts(Keepers, local_ref[map])
        BY <2>5, <3>1, <3>5, Zenon DEF CacheInv
      <4>2. PICK f \in [Keepers -> 1..local_ref[map]] : \A a, b \in Keepers : f[a] = f[b] => a = b
        BY <4>1, Zenon DEF Counts
      <4>3. \A u \in Keepers : f[u] \in 1..local_ref[map]
        BY Zenon
      <4>4. \A u \in Keepers : f[u] = 1
        BY <3>2, <4>1, <4>3
      <4>5. Keepers' = {}
        BY <2>0, <2>2, <4>2, <4>4, Zenon
      <4> QED
        BY <4>5, Zenon DEF Keepers
    <3> QED
      <4>1. ASSUME ~purged PROVE CacheOneMapping'
        BY <2>0, <2>1, <3>4, <3>5, <4>1, Zenon DEF CacheInv, CacheOneMapping
      <4>2. ASSUME ~purged, map' # 0 PROVE Counts(Keepers', local_ref'[map'])
        <5>1. Counts(Keepers, local_ref[map])
          BY <2>5, <4>2, Zenon DEF CacheInv
        <5>2. Counts(Keepers \ {x}, local_ref[map] - 1)
          BY <2>0, <5>1, CountsRemove, Zenon
        <5>3. map' = map
          BY <3>4, <4>2, Zenon
        <5>4. Counts(Keepers', local_ref[map] - 1)
          BY <2>2, <5>2, Zenon
        <5> QED
          BY <3>3, <5>3, <5>4, Zenon
      <4> QED
        BY <1>0, <2>0, <2>1, <3>3, <3>4, <4>1, <4>2, Zenon DEF CacheInv
  <2> QED
    BY <2>4, <2>5, Zenon
<1>3. CASE CachePurge
  BY <1>0, <1>3, Zenon DEF CachePurge, CacheInv
<1>4. CASE UNCHANGED cache_vars
  BY <1>4, Zenon DEF cache_vars, CacheInv, CacheOneMapping, Keepers
<1> QED
  BY <1>1, <1>2, <1>3, <1>4, Zenon DEF CacheNext

\* Until the name is cleared, every handle of a process that is open keeps the
\* entry of the cache, however often others are opened and closed: the count
\* of references frees the entry with the last of them and not before.
THEOREM CacheShares ==
  ASSUME MaxMade \in Nat
  PROVE  CacheSpec => []CacheOneMapping
<1>1. CacheInit => CacheInv
  BY CacheInvInit, Zenon
<1>2. CacheInv /\ [CacheNext]_cache_vars => CacheInv'
  BY CacheInvStep, Zenon
<1>3. CacheInv => CacheOneMapping
  BY Zenon DEF CacheInv, CacheOneMapping
<1> QED
  BY <1>1, <1>2, <1>3, PTL DEF CacheSpec
=============================================================================
