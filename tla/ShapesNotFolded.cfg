CONSTANTS
  Half = 8
  Values <- MCValues
  Replies <- MCReplies
  Depth <- MCDepth
  String <- MCString
  Normalize <- MCNormalize
  EqualRaw <- MCEqualRaw
  SameReply <- MCSameReply
SPECIFICATION Spec
INVARIANTS
  FoldsShapes
\* match is called once.
CHECK_DEADLOCK FALSE
