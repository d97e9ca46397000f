SPECIFICATION Spec
CONSTANTS
  Clients = {c1, c2}
  Workers = {w1}
  Tasks = {t1, t2, t3, t4, t5, t6}
  NoTask = NoTask
  Events = {e1}
  HandleMod = 3
  NoDelegate = NoDelegate
  NoRequest = NoRequest
  MaxCalls <- SmallCalls
INVARIANTS
  TypeOK
  FlagsExclude
  SpecEventInUseIsAlive
  HandlesIdentify
PROPERTIES
  RaiseReturnsOneFuturePerFunctor
  FlagsAreReleased
  ImplementsEventBus
