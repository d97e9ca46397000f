SPECIFICATION Spec
CONSTANTS
  MainThread = MainThread
  Workers = {w1, w2}
  Tasks = {t1, t2, t3}
  NoTask = NoTask
  Configs <- SomeConfigs
INVARIANTS
  TypeOK
  PoolOutlivesEventSystem
  StartedMeansComplete
  PoolOutlivesReferences
PROPERTIES
  TearDownTerminates
