SPECIFICATION Spec
CONSTANTS
  Car = {c1}
  Requester = {c1}
  PacketLength = 12
  MaxTask = 3
  MaxTrips = 3
  MaxId = 2
  Rare = {"untimely"}
  Routes <- Orders
INVARIANTS TypeOK OneRequest DropsWhatItFollowed WaitsForSomething
PROPERTIES TripsChain Supplied ServerListens
CHECK_DEADLOCK FALSE
