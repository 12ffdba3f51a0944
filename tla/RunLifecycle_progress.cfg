SPECIFICATION FairSpec
CHECK_DEADLOCK FALSE
CONSTANTS
  c1 = c1
  c2 = c2
  r1 = r1
  r2 = r2
  Calls = {c1}
  Runs = {r1}
  Ids <- OneCall
  OldRun = r0
  None = none
  Workers = {w1, w2}
  StartStates = {"COMPLETED"}
  MaxJobs = 5
  MaxAttempts = 2
  MaxRedrives = 1
  MaxSteps = 1
  Limits <- LiveLimits
PROPERTIES
  EveryRunEnds
