SPECIFICATION FairSpec
CONSTANTS
  NumMessages = 3
  MessageLen <- MCLengths
  NumModes = 3
  PeerModes <- MCPeerModes
  ChunkSize <- MCSteepLadder
  MaxRetries = 3
  StepDownAfter = 2
  SeqModulo = 2
INVARIANTS TypeOK InOrderUntilOverlap ReturnedIsDelivered NothingLost
PROPERTIES ImplementsStream CallEnds
CHECK_DEADLOCK FALSE
