CONSTANTS
  redis = redis
  valkey = valkey
  aki = aki
  Order <- MCOrder
  Redis <- redis
  Entries = {"test"}
  Mishaps = {}
  Cases = 1
SPECIFICATION Spec
INVARIANTS
  GreenMeansCompared
\* The harness ends.
CHECK_DEADLOCK FALSE
