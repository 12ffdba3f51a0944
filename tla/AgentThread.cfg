SPECIFICATION Spec
CONSTANTS
  Starts <- SomeStarts
INVARIANTS NothingTwice OnlyThisThread ScreenIsTruth
CHECK_DEADLOCK FALSE
