CONSTANTS
  Role = "slave"
  MaxPdu = 4
  Kinds <- LegalKinds
  MaxFrames = 1
  MaxRough = 1
  RoughKinds = {}
  MaxCalls = 1
  Overlap = FALSE
  Gaps = FALSE
SPECIFICATION Spec
INVARIANTS
  LegalFrameReceived
CHECK_DEADLOCK FALSE
