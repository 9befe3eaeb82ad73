SPECIFICATION Spec
CONSTANTS
  Cell <- Cells
  Moves <- RoadMoves
  WaitCells <- RoadWaits
  RightTurnCell <- RoadRightTurn
  Distance <- calculate_distance
  EntryCell <- RoadEntry
  NextTarget <- RoadNextTarget
  STG_BUFFER_LENGTH = 50
  MAX_NODES = 25
  Delays = {1, 4}
  MaxId = 2
  MaxTrips = 2
  MaxTime = 3
  MaxPreempt = 1
INVARIANTS TypeOK OrdersFollowBookings
CHECK_DEADLOCK FALSE
