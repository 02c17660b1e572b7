SPECIFICATION FairSpec
CONSTANTS
  OutCap = 1
  InCap = 1
  MaxWrites = 1
  MaxReceives = 0
  MaxSessions = 1
  MaxCommands = 2
PROPERTY ConnectServed
CHECK_DEADLOCK FALSE
