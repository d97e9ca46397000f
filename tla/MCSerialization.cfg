SPECIFICATION Spec
CONSTANTS
  MaxObjects = 3
  MaxCalls = 3
  MaxNew = 5
  Slots = {1, 2}
INVARIANTS
  TypeOK
  ComponentTravelsWithOwner
  ThrowsExactlyWhen
  LinksStayInOneCall
  RoundTrip
