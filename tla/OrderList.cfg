SPECIFICATION Spec
CONSTANTS
  Direction = {forward, left}
  MaxReply = 2
  MaxHeap = 4
  MaxOrder = 5
INVARIANTS Whole
PROPERTIES IsQueue
CHECK_DEADLOCK FALSE
