CONSTANTS
  Me = 1
  Kinds <- TwoKinds
  MaxPdu = 4
  MaxFrames = 2
  MaxLags = 2
  MaxCalls = 3
SPECIFICATION FairSpec
INVARIANTS
  AcceptedWasSent
  NothingLost
  CrcIsRemainder
PROPERTIES
  CallsReturn
CHECK_DEADLOCK FALSE
