CONSTANTS
  WriterListLen = 1
  RecvListLen = 2
  MaxMsgSize = 1
  MsgUnits = 2
  MsgParts = 2
  Rejects = TRUE
  Panics = TRUE
  EmptyReads = TRUE
  MaxInc = 2
  MaxUnits = 4
  MaxRead = 2
  MaxSend = 2
SPECIFICATION FairSpec
INVARIANTS
  NoOverlap
  ReceivedIntact
  WireWhole
PROPERTIES
  LifeSpec
  SessionCloses
