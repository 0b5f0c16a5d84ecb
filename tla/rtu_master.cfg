CONSTANTS
  Role = "master"
  MaxPdu = 4
  Kinds <- MasterKinds
  MaxFrames = 2
  MaxRough = 2
  RoughKinds = {}
  MaxCalls = 2
  Overlap = FALSE
  Gaps = TRUE
SPECIFICATION FairSpec
PROPERTIES
  TxLeavesSilence
  CallsReturn
CHECK_DEADLOCK FALSE
