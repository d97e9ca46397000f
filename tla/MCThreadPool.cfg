SPECIFICATION FairSpec
CONSTANTS
  Clients = {c1, c2}
  Workers = {w1, w2}
  Tasks = {t1, t2, t3, t4}
  NoTask = NoTask
INVARIANTS
  TypeOK
  TaskOwnership
  CountIsExact
PROPERTIES
  EveryFutureSettles
  DestructorTerminates
  ImplementsTaskFutures
