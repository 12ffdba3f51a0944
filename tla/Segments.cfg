SPECIFICATION MCSpec
CONSTANTS
  s1 = s1
  s2 = s2
  main = main
  sub = sub
  MaxDeliveries = 3
  Nobody = Nobody
  Sweepers = {s1, s2}
  Main = main
  Subs = {sub}
  FlushEvents = 3
  Budgets <- SomeBudgets
INVARIANTS StepsWhole OneOpenStream RecordFollowsStream
PROPERTIES NeverCutsLive EveryStreamEnds
CHECK_DEADLOCK FALSE
