CONSTANTS
  redis = redis
  valkey = valkey
  aki = aki
  Kinds <- MCKinds
  BaselineKind <- redis
  Half = 64
  Unit = 4
  Lifetime = 40
  Skew = 2
  Drifts <- MCDrifts
  MaxNow = 7
SPECIFICATION Spec
INVARIANTS
  RightServersAgree
  WrongServersAreCaught
\* The case ends.
CHECK_DEADLOCK FALSE
