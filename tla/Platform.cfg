SPECIFICATION Spec
CONSTANTS
  Handles = {1, 2, 3}
  MaxMade = 3
  AbiProcs = {1, 2, 3}
  Builds = {1, 2}
  Fields = {1, 2}
  MaxStamps = 2
  Endpoints = {"p1", "p2", "p3"}
  SoleProcs = {"p1", "p2", "p3"}
  ProcOf <- Alone
  SoleLives = 2
  SoleMayDie = TRUE
  Procs = {"p1", "p2", "p3"}
  Reused = {"p1"}
  NBits = 2
  MaxLives = 2
  MayDie = TRUE
  MayLeave = TRUE
  MayEvict = TRUE
CONSTRAINT Followed
INVARIANTS
  SegmentSound CacheOneMapping AbiAgrees NtAwake MessagesWhole ChunksKept
  OneOfTwoSends OwnToken KeepsBit OnRecord
