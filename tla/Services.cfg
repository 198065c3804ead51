CONSTANTS
  Closers = {c1, c2}
  QueueLen = 2
  Batch = 2
  MaxSize = 1
  MaxBackup = 2
  Daily = TRUE
  MaxRecs = 3
  MaxFaults = 1
  MaxEvents = 1
  Versions = {1, 2, 3}
  Size <- MCSize
  MaxErrors = 1
  MaxCrashes = 1
  MaxRemoved = 1
  Clients = {1}
  MaxSent = 2
  MaxReplies = 1
  MaxConns = 2
  MaxTroubles = 2
SPECIFICATION MCSpec
INVARIANTS
  RecordsKept
  
  NeverDowngrade
PROPERTIES
  CloseReturns
  
  
CHECK_DEADLOCK FALSE
