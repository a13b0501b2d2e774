------------------------------ MODULE ShmCache ------------------------------
(***************************************************************************)
(* The process-local cache of mapped primitives: cached_shm_acquire,       *)
(* cached_shm_release and cached_shm_purge, and the same three of the Apple*)
(* mutex.  One name; each step runs under the cache's lock.  Entries are   *)
(* numbered as they are mapped; a handle keeps the entry it was given (its *)
(* Arc), but is released by name.                                          *)
(***************************************************************************)
EXTENDS Integers

CONSTANTS Handles, MaxMade   \* bound: entries mapped

VARIABLES
  map,         \* the entry under the name, 0 when there is none
  local_ref,   \* of each entry
  kept,       \* the entry each handle keeps, 0 when it is closed
  mapped,
  purged       \* the name has been cleared

cache_vars == <<map, local_ref, kept, mapped, purged>>
Entries == 1 .. MaxMade

CacheInit == /\ map = 0 /\ local_ref = [e \in Entries |-> 0]
             /\ kept = [x \in Handles |-> 0] /\ mapped = 0 /\ purged = FALSE

CacheAcquire(x) ==
  /\ kept[x] = 0
  /\ IF map # 0
     THEN /\ local_ref' = [local_ref EXCEPT ![map] = @ + 1]
          /\ kept' = [kept EXCEPT ![x] = map] /\ UNCHANGED <<map, mapped>>
     ELSE /\ mapped < MaxMade /\ mapped' = mapped + 1 /\ map' = mapped'
          /\ local_ref' = [local_ref EXCEPT ![mapped'] = 1]
          /\ kept' = [kept EXCEPT ![x] = mapped']
  /\ UNCHANGED purged

\* Seeded fault: any release drops the entry.
Release_Drops(x) ==
  /\ kept[x] # 0 /\ kept' = [kept EXCEPT ![x] = 0] /\ map' = 0
  /\ UNCHANGED <<local_ref, mapped, purged>>

CacheRelease(x) ==
  /\ kept[x] # 0 /\ kept' = [kept EXCEPT ![x] = 0]
  /\ IF map = 0 THEN UNCHANGED <<map, local_ref>>
     ELSE /\ local_ref' = [local_ref EXCEPT ![map] = @ - 1]
          /\ map' = IF local_ref[map] <= 1 THEN 0 ELSE map
  /\ UNCHANGED <<mapped, purged>>

\* clear_storage: no reference is given up.
CachePurge ==
  /\ map' = 0 /\ purged' = TRUE
  /\ UNCHANGED <<local_ref, kept, mapped>>

CacheNext == (\E x \in Handles : CacheAcquire(x) \/ CacheRelease(x)) \/ CachePurge

CacheSpec == CacheInit /\ [][CacheNext]_cache_vars

-----------------------------------------------------------------------------
\* "Every thread that opens the same named mutex shares one mmap": until the
\* name is cleared, whoever opens it joins the mapping of those who have it.
CacheOneMapping ==
  ~purged => \A x \in Handles : kept[x] # 0 => kept[x] = map
=============================================================================
