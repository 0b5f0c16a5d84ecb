CONSTANTS
  Role = "slave"
  MaxPdu = 4
  Kinds <- SlaveKinds
  MaxFrames = 3
  MaxRough = 2
  RoughKinds <- PlainKinds
  MaxCalls = 1
  Overlap = TRUE
  Gaps = TRUE
SPECIFICATION Spec
INVARIANTS
  TypeOK
  BufferBound
  SoleFrameReceived
  AcceptedFollowedBySilence
  IdInitialised
  NothingLost
CHECK_DEADLOCK FALSE
