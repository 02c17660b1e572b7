SPECIFICATION FairSpec
CONSTANTS
  OutCap = 2
  InCap = 1
  MaxWrites = 3
  MaxReceives = 2
  MaxSessions = 2
  MaxCommands = 2
INVARIANTS TypeOK InboundOfThisSession StreamExact SentInOrder
PROPERTIES AcceptedIsSent CommandsServed
CHECK_DEADLOCK FALSE
