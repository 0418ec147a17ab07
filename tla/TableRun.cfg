CONSTANTS
  Half = 64
  String <- MCString
  Normalize <- MCNormalize
  EqualRaw <- MCEqualRaw
  Pairs <- MCPairs
SPECIFICATION Spec
INVARIANTS
  TypeOK
  RightServersPass
  WrongReplyIsReported
  CorruptionIsReported
  LeavesDatabase0Only
\* A case ends after its last step.
CHECK_DEADLOCK FALSE
