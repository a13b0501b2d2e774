SPECIFICATION Spec
CONSTANTS
  replicas = 2
  MaxSpawn = 4
  MaxCalls = 3
INVARIANT GrpAlwaysFailsOver
