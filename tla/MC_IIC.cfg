SPECIFICATION Spec
CONSTANTS
  i2c_int = i2c_int
  i2c_ext = i2c_ext
  Channel <- Channels
  Transfers <- TheTransfers
  MaxTransfers <- Bound
  Rare = {"nack", "timeout"}
INVARIANTS OnStack DoneUnlessFailed
PROPERTIES TransferEnds
CHECK_DEADLOCK FALSE
