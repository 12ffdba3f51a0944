SPECIFICATION Spec
CHECK_DEADLOCK FALSE
SYMMETRY WorkerSymmetry
CONSTANTS
  c1 = c1
  c2 = c2
  r1 = r1
  r2 = r2
  Calls = {c1}
  Runs = {r1}
  Ids <- OneCall
  OldRun = r0
  None = none
  Workers = {w1, w2}
  StartStates = {"COMPLETED"}
  MaxJobs = 4
  MaxAttempts = 2
  MaxRedrives = 2
  MaxSteps = 1
  Limits <- StopLimits
INVARIANTS
  EndedIsFree
