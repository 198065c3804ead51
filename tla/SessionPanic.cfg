CONSTANTS
  WriterListLen = 1
  RecvListLen = 1
  MaxMsgSize = 1
  MsgUnits = 1
  MsgParts = 1
  Rejects = FALSE
  Panics = TRUE
  EmptyReads = FALSE
  MaxInc = 1
  MaxUnits = 3
  MaxRead = 1
  MaxSend = 0
SPECIFICATION FairSpec
PROPERTIES
  OnCloseCalled
