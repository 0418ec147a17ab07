CONSTANTS
  redis = redis
  valkey = valkey
  aki = aki
  Kinds <- MCKinds
  BaselineKind <- redis
  Half = 64
  Unit = 1
  Lifetime = 40
  Skew = 1
  Drifts <- NoDrift
  MaxNow = 7
SPECIFICATION Spec
INVARIANTS
  PttlAgrees
\* The case ends.
CHECK_DEADLOCK FALSE
