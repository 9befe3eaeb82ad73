SPECIFICATION Spec
CONSTANTS
  Cell <- JunctionCells
  Moves <- JunctionMoves
  WaitCells <- JunctionWaits
  RightTurnCell <- JunctionEntry
  Distance <- JunctionDistance
  EntryCell <- JunctionEntry
  NextTarget <- JunctionTarget
  STG_BUFFER_LENGTH = 20
  MAX_NODES = 6
  Delays = {1, 5}
  MaxId = 3
  MaxTrips = 2
  MaxTime = 2
  MaxPreempt = 1
INVARIANTS NodesOnce
PROPERTIES WayTakesNothing IsCalendar ReservationEnds
CHECK_DEADLOCK FALSE
