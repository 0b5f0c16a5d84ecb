CONSTANTS
  Role = "master"
  MaxPdu = 4
  Kinds <- OtherKinds
  MaxFrames = 1
  MaxRough = 1
  RoughKinds = {}
  MaxCalls = 2
  Overlap = TRUE
  Gaps = FALSE
SPECIFICATION FairSpec
PROPERTIES
  RxReturns
CHECK_DEADLOCK FALSE
