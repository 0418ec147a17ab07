CONSTANTS
  redis = redis
  valkey = valkey
  aki = aki
  none = none
  Kinds <- MCKinds
  Tolerances <- MCTolerances
  Replies <- MCReplies
  Match <- MCMatch
  NoKind <- none
  Runners <- MCAllRunners
  Cases <- MCCases
  MayHang <- MCKinds
  MayRefuse <- MCRefuses
SPECIFICATION FairSpec
INVARIANTS
  TypeOK
  VerdictIsFirstDivergence
  EveryStepIsCompared
  NoConnectionLeft
  StepsRunOnFlushedDatabases
  ReportIsInRange
PROPERTIES
  VerdictNeverRetracted
  ImplementsVerdict
  RunEndsUnlessHungInSetup
\* Run waits for ever on a server that hangs in the set-up; the last property
\* says that it waits nowhere else.
CHECK_DEADLOCK FALSE
