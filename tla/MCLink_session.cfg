SPECIFICATION Spec
CONSTANTS
  a = a
  b = b
  Stations <- MCStations
  ChunksPerMessage = 2
  MaxRetries = 2
  DiscRetries = 1
  SeqModulo = 2
  MaxSessions = 2
  MaxMessages = 1
  MaxCrashes = 0
  InboxCap = 2
SYMMETRY StationSymmetry
INVARIANTS TypeOK OneSpeaker CountersAgree MessagesIntact ReturnMeansDelivered SameSession
CHECK_DEADLOCK FALSE
