SPECIFICATION Spec
CONSTANTS
  Files = {f1, f2}
  Archives = {z1}
  empty = empty
  text = text
  Contents <- TwoContents
  Size <- TwoSizes
  NoContent = NoContent
  NoArchive = NoArchive
  MaxUpdates = 2
  MaxStops = 2
SYMMETRY FileSymmetry
INVARIANTS
  TypeOK
  IndexReadsBack
  EveryFileExists
PROPERTIES
  ImplementsArchiveStore
