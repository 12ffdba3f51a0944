SPECIFICATION Spec
CONSTANTS
  MaxSegments = 2
  MaxQueue = 1
  MaxWire = 1
  GapRetries = 2
  Starts <- SomeStarts
INVARIANTS ReadsWhole NothingLost StreamsAreRead
CHECK_DEADLOCK FALSE
