SPECIFICATION Spec
CONSTANTS
  b1 = b1
  b2 = b2
  near = near
  far = far
  Datagrams <- SomeDatagrams
  Zero = Zero
  PacketSize = 2
  kMaxPacketsPerFrameCount = 2
  MaxArrivals = 4
  StartTime = 6
  MaxTime = 9
  UInt32Range = 8
  MaxThrows = 2
INVARIANTS
  TypeOK
  HandledInOrder
  ReadsFollowUpon
PROPERTIES
  NoOvertaking
