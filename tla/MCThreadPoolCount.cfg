SPECIFICATION Spec
CONSTANTS
  Clients = {c1}
  Workers = {w1, w2}
  Tasks = {t1, t2}
  NoTask = NoTask
INVARIANTS
  CountDecreasedForFinishedTasks
