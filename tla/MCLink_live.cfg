SPECIFICATION FairSpec
CONSTANTS
  a = a
  b = b
  Stations <- MCStations
  ChunksPerMessage = 2
  MaxRetries = 2
  DiscRetries = 1
  SeqModulo = 2
  MaxSessions = 1
  MaxMessages = 1
  MaxCrashes = 1
  InboxCap = 2
PROPERTIES CallsReturn HalfOpenHeals
CHECK_DEADLOCK FALSE
