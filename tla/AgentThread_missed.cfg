SPECIFICATION Spec
CONSTANTS
  Starts <- OneDrop
INVARIANTS NothingMissed
CHECK_DEADLOCK FALSE
