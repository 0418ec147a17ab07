CONSTANTS
  Encode <- MCEncode
  EncodeMany <- MCEncodeMany
  Decode <- MCDecode
  DecodeMany <- MCDecodeMany
  Replies <- MCReplies
  Depth <- MCDepth
  Answers <- MCAnswers
  Greetings <- MCGreetings
  Commands = 3
SPECIFICATION Spec
INVARIANTS
  TypeOK
  InSync
  NothingUnread
  NeverMalformed
  SpeaksWhatWasWanted
PROPERTY ImplementsRequestReply
\* The connection is closed.
CHECK_DEADLOCK FALSE
