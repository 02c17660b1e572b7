SPECIFICATION FairSpec
CONSTANTS
  Worker = worker
  Main = main
  Retries = 2
  UnkeyAttempts = 2
  MaxTrouble = 2
  MaxSignals = 3
INVARIANTS TypeOK DownOrTold RetryAccounted OffAtExit
PROPERTIES ImplementsKeying NoDiscOnceForced SignalEnds
CHECK_DEADLOCK FALSE
