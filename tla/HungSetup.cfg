CONSTANTS
  redis = redis
  valkey = valkey
  aki = aki
  none = none
  Kinds <- MCKinds
  Tolerances <- MCTolerances
  Replies <- MCReplies
  Match <- MCMatch
  NoKind <- none
  Runners <- MCPairRunners
  Cases <- MCCases
  MayHang <- MCKinds
  MayRefuse = {}
SPECIFICATION FairSpec
PROPERTIES
  HungServerEndsRun
CHECK_DEADLOCK FALSE
