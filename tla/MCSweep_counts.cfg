SPECIFICATION Spec
CONSTANTS
  Caller = caller
  Listener = listener
  Modes = 2
  Frames = 2
  AnnounceRetries = 2
  ResultRetries = 2
  FailuresToStop = 1
  MaxCalls = 2
  MaxFaults = 2
  AirCap = 5
INVARIANT NearMissesAreTheBursts
CHECK_DEADLOCK FALSE
