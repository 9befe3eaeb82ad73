SPECIFICATION Spec
CONSTANTS
  admin = admin  user1 = user1  user2 = user2
  disk = disk  serial = serial
  Tasks = {admin, user1, user2}
  None = None
  Names = {disk, serial}
  DevCBs = {cb1, cb2}
  OpnCBs = {opn1, opn2}
  ReqCBs = {req1, req2}
  Ddevs <- TheDdevs
  Modes <- TheModes
  MAX_DISSUS = 1
  May <- Calls
  Mixed = FALSE
SYMMETRY Alike
INVARIANTS RequestsHeld NothingLeftInDriver CloseIsWoken SuspendTogether
CHECK_DEADLOCK FALSE
