CONSTANTS
  Transports = {"tcp"}
  Size <- BigSize
  Readable <- AllTables
  Writable <- WriteTables
  Vendor <- VendorFunctions
  CallbackResults <- OkOrFailure
  Ids = {1}
  Frames <- LimitFrames
  MaxFrames = 1
  MaxIdChanges = 0
  MayShutdown = FALSE
SPECIFICATION Spec
INVARIANTS
  TypeOK
  CallsInRange
  PayloadReceived
  ReadsAreCurrent
  WritesTakeEffect
PROPERTIES
  WritesConfined
CHECK_DEADLOCK FALSE
