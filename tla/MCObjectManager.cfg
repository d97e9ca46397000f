SPECIFICATION Spec
CONSTANTS
  Threads = {a, b}
  NoThread = NoThread
  MaxObjects = 3
INVARIANTS
  TypeOK
  HeldHandleIsValid
  DroppedHandleFindsItsObject
  DeletedMeansUnheld
PROPERTIES
  ReleaseIsComplete
