CONSTANTS
  redis = redis
  aki = aki
  absent = absent
  nothing = nothing
  Names <- KeyNames
  Values <- Held
  Absent <- absent
  Kinds <- MCKinds
  BaselineKind <- redis
  Nothing <- nothing
  Suite <- AllKeyCases
  Alone <- MCAlone
  FirstDbs <- MCFreshOrInUse
  Failures = {"lost", "late", "killed"}
  Runs = 2
  MaxBroken = 2
SYMMETRY MCSymmetry
SPECIFICATION Spec
INVARIANTS
  TypeOK
  NoResidue
  AnsweredAlike
  RunsAsAlone
PROPERTY
  NoFalseFailure
\* The harness ends after its last run.
CHECK_DEADLOCK FALSE
