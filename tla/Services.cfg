SPECIFICATION Spec
CONSTANTS
  RegNames = {"a", "b", "c"}
  RegPids = {1, 2}
  MAX_SERVICES = 2
  MaxBirths = 4
  N = 2
  MaxItems = 5
INVARIANTS
  RegUnique RingFifo GroupSound DemosDeliver EnvExact RunSerial PlansSound
PROPERTIES
  RegKept RpcMatched RunHonest
