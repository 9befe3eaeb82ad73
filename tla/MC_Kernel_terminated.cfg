CONSTANTS
  t1 = t1
  t2 = t2
  t3 = t3
  o1 = o1
  o2 = o2
  o3 = o3
  b1 = b1
  b2 = b2
  none = none
  Task = {t1, t2, t3}
  InitTask = t1
  Object = {o1, o2}
  MaxPri = 3
  ItskPri = {2, 3}
  NULL = none
  Calls = {"cre_tsk", "sta_tsk", "ter_tsk", "dly_tsk", "cre_mtx", "loc_mtx", "unl_mtx"}
  Timeouts = {"finite", "TMO_FEVR"}
  Atrs = {{"TPRI", "INHERIT"}}
  Rank <- InAnyOrder
  Bit = {}
  Wishes = {}
  Message = {}
  Packet = {}
  MemSz = 2
  PoolSz = {}
  BlkSz = {}
  BlfSz = 1
  MaxBlk = 0
  MaxSem = 1
  BufSz = 1
  MaxWup = 0
  MaxSus = 0
SPECIFICATION Spec
SYMMETRY Others
INVARIANT QueuedWait
CHECK_DEADLOCK FALSE
