CONSTANTS
  Word = 16
  Types <- MCTypes
  Messages <- MCMessages
  MaxMsgSize = 2097152
  Sizes <- MCSizes
  MaxFrames = 2
  Chars <- MCChars
  Patterns <- MCPatterns
  Hosts <- MCHosts
  Paths <- MCPaths
  Handlers <- MCHandlers
  Bodies <- MCBodies
  MaxReqs = 2
  Files <- MCFiles
  Keys = {"k"}
  Names = {"s", "t"}
  Values <- MCValues
  Comments <- MCComments
  MaxEdits = 3
  Clients = {1, 2}
  MaxSent = 2
  MaxReplies = 1
  MaxConns = 2
  MaxTroubles = 1
  Listen <- MCListen
  Connects <- MCConnects
  Weights = {0, 2}
  MaxTransports = 3
INIT MCInit
NEXT MCNext
INVARIANTS
  Understood
  TruncationDetected
  FramesRead
  
  RequestsInOrder
  AnswersInOrder
  SettingsKept
  
  
CHECK_DEADLOCK FALSE
