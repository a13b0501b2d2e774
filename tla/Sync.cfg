SPECIFICATION Spec
CONSTANTS
  HeadThreads = {1, 2, 3}
  RwThreads = {1, 2, 3}
  NBits = 2
  HeadOps = 2
  HeadMayDie = {3}
  Threads = {1, 2, 3}
  ProcOf <- TwoProcesses
  CanWait = {1, 3}
  CanWake = {2}
  CanLock = {3}
  MaxOps = 1
  MayDie = {"p1", "p2"}
  ApThreads = {1, 2, 3}
  ApCanWait = {1}
  ApCanWake = {2, 3}
  ApCanTry = {3}
  ApOps = 1
  ApMayDie = {1, 2}
  SmThreads = {1, 2, 3}
  SmCount = 1
  SmOps = 2
  SmObjs = 2
INVARIANTS
  OwnerHolds NotOrphaned NoLostWakeup AppleSound WaitersSound SemaphoreSound
  BitsAreOwned RwExclusive
