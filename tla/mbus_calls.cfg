CONSTANTS
  Size <- LimitSize
  Readable <- AllTables
  Writable <- WriteTables
  Vendor <- NoVendor
  CallbackResults <- OkOrFailure
  Me = 1
  Calls <- SomeCalls
  Single <- LimitCalls
  MaxCalls = 3
  Lossy = TRUE
SPECIFICATION Spec
INVARIANTS
  ReadReturnsTable
  WriteStored
PROPERTIES
  ImplementsDevice
CHECK_DEADLOCK FALSE
