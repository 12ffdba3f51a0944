SPECIFICATION MCSpec
CHECK_DEADLOCK FALSE
SYMMETRY PairSymmetry
CONSTANTS
  c1 = c1
  c2 = c2
  r1 = r1
  r2 = r2
  Calls = {c1, c2}
  Runs = {r1, r2}
  Ids <- OwnIds
  OldRun = r0
  None = none
  Workers = {w1, w2}
  StartStates = {"COMPLETED"}
  MaxJobs = 4
  MaxAttempts = 2
  MaxRedrives = 4
  MaxSteps = 1
  Limits <- SafetyLimits
INVARIANTS
  Driven
  Recoverable
  UnstoppedWorked
  TurnsInOrder
  TypeOK
  MutualExclusion
  EndedStaysFree
  AnswersOnce
PROPERTIES
  KeepsLock
  ImplementsLife
