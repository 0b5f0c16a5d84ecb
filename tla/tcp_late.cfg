CONSTANTS
  Slaves = 1
  MaxConns = 2
  MaxPeers = 1
  MaxCalls = 3
  IdModulus = 3
  MaySend = FALSE
  MayStall = FALSE
  MayEmpty = FALSE
  MayStop = FALSE
SPECIFICATION Spec
INVARIANTS
  ReplyMatches
CHECK_DEADLOCK FALSE
