CONSTANTS
  Half = 64
  String <- MCString
  Normalize <- MCNormalize
  EqualRaw <- MCEqualRaw
  Pairs <- MCWithoutRedis
SPECIFICATION Spec
INVARIANT
  SkippedForkIsNotReported
\* A case ends after its last step.
CHECK_DEADLOCK FALSE
