CONSTANTS
  Transports = {"rtu", "tcp"}
  Size <- SmallSize
  Readable <- AllTables
  Writable <- WriteTables
  Vendor <- VendorFunctions
  CallbackResults = {0}
  Ids = {1, 2}
  Frames <- TaskFrames
  MaxFrames = 3
  MaxIdChanges = 2
  MayShutdown = TRUE
SPECIFICATION FairSpec
INVARIANTS
  LateRequestIgnored
  StaleIdOnce
  AnswersOwnRequest
PROPERTIES
  IdTakesEffect
  ShutdownStops
CHECK_DEADLOCK FALSE
