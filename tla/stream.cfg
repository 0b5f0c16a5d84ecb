CONSTANTS
  MBAP_HEADER_SIZE = 2
  MAX_PDU_SIZE = 2
  Lengths <- FewLengths
  SendBuffer = 2
  ReplySize = 1
  MaxConns = 2
  MaxMessages = 3
  MaxReplies = 2
SPECIFICATION FairSpec
INVARIANTS
  SocketsBalanced
  InSync
  RepliesWhole
PROPERTIES
  TransfersEnd
CHECK_DEADLOCK FALSE
