SPECIFICATION Spec
CONSTANTS
  NumMessages = 3
  MessageLen <- MCLengths
  NumModes = 3
  PeerModes <- MCPeerModes
  ChunkSize <- MCSteepLadder
  MaxRetries = 3
  StepDownAfter = 2
  SeqModulo = 2
INVARIANT InOrderOnce
CHECK_DEADLOCK FALSE
