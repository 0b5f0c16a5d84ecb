CONSTANTS
  Slaves = 1
  MaxConns = 2
  MaxPeers = 1
  MaxCalls = 3
  IdModulus = 3
  MaySend = TRUE
  MayStall = TRUE
  MayEmpty = TRUE
  MayStop = TRUE
SPECIFICATION FairSpec
INVARIANTS
  ResponsesInOrder
  FlagTracksSocket
PROPERTIES
  CallReturns
  SlaveFreed
CHECK_DEADLOCK FALSE
