CONSTANTS
  redis = redis
  valkey = valkey
  aki = aki
  Order <- MCOrder
  Redis <- redis
  Entries = {"command", "test"}
  Mishaps = {"crash", "hang", "refusal", "stranger", "removal", "killed"}
  Cases = 2
SPECIFICATION FairSpec
INVARIANTS
  TypeOK
  RunnerIsWellFormed
  NothingLeftBehind
  EverythingIsOwned
  OkMeansCompared
PROPERTIES
  ImplementsLifecycle
  EndsUnlessMute
\* The run ends.
CHECK_DEADLOCK FALSE
