SPECIFICATION FairSpec
CONSTANTS
  Workers = {w1, w2}
  Producers = {p1, p2}
  Tasks = {t1, t2, t3}
  NoTask = NoTask
  Free = Free
CHECK_DEADLOCK FALSE
INVARIANTS
  DestructorDrains
  PopFindsTask
  NobodySleepsOnWork
PROPERTIES
  ImplementsTaskPool
  DestructorReturns
  EnqueuedTaskRuns
