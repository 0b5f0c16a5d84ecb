CONSTANTS
  Threads = {a, b}
  Sockets <- FewSockets
  MaxConns = 3
  MaxRequests = 2
  MaxFaulty = 1
SPECIFICATION FairSpec
INVARIANTS
  OwnResponse
  FailuresFollowNumbers
  NoLeakAlone
PROPERTIES
  CommandsEnd
CHECK_DEADLOCK FALSE
