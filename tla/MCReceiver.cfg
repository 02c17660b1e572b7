SPECIFICATION FairSpec
CONSTANTS
  Layouts <- AirLayouts
  AirTime = 14
  Length <- Lengths
  Sync = 2
  Preamble = 2
  SearchBlock = 2
  Guard = 1
  Capacity = 9
  Keep = 8
  MaxLag = 2
  MaxBreaks = 1
INVARIANTS TypeOK OneCapture DeliveredInOrder NonePassedOver
PROPERTIES EveryFrameFound
CHECK_DEADLOCK FALSE
