SPECIFICATION Spec
CONSTANTS
  MainThread = MainThread
  Workers = {w1}
  Tasks = {t1}
  NoTask = NoTask
  Configs <- SomeConfigs
INVARIANTS
  InstanceReturnsTheCore
