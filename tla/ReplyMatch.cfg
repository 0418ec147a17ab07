CONSTANTS
  Half = 8
  Values <- MCValues
  Replies <- MCReplies
  Depth <- MCDepth
  String <- MCString
  Normalize <- MCNormalize
  EqualRaw <- MCEqualRaw
  SameReply <- MCSameReply
SPECIFICATION Spec
INVARIANTS
  ExactIsSameReply
  UnorderedIsPermutation
  BaselineDoesNotMatter
\* match is called once.
CHECK_DEADLOCK FALSE
