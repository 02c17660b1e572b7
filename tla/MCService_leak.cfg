SPECIFICATION Spec
CONSTANTS
  OutCap = 1
  InCap = 1
  MaxWrites = 1
  MaxReceives = 0
  MaxSessions = 2
  MaxCommands = 1
INVARIANT OutboundOfThisSession
CHECK_DEADLOCK FALSE
