SPECIFICATION Spec
CONSTANTS
  a = a
  b = b
  Stations <- MCStations
  ChunksPerMessage = 1
  MaxRetries = 2
  DiscRetries = 1
  SeqModulo = 2
  MaxSessions = 1
  MaxMessages = 2
  MaxCrashes = 0
  InboxCap = 2
SYMMETRY StationSymmetry
INVARIANT FloorCanMove
CHECK_DEADLOCK FALSE
