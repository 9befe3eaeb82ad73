CONSTANTS
  t1 = t1
  t2 = t2
  t3 = t3
  o1 = o1
  o2 = o2
  o3 = o3
  b1 = b1
  b2 = b2
  none = none
  Task = {t1, t2}
  InitTask = t1
  Object = {o1, o2, o3}
  MaxPri = 2
  ItskPri = {2}
  NULL = none
  Calls = {"cre_tsk", "sta_tsk", "ter_tsk", "slp_tsk", "wup_tsk", "cre_mpl", "get_mpl", "rel_mpl", "del"}
  Timeouts = {"finite"}
  Atrs = {{}}
  Rank <- InAnyOrder
  Bit = {}
  Wishes = {}
  Message = {}
  Packet = {}
  MemSz = 11
  PoolSz = {2, 11}
  BlkSz = {2, 3}
  BlfSz = 2
  MaxBlk = 2
  MaxSem = 1
  BufSz = 1
  MaxWup = 0
  MaxSus = 1
SPECIFICATION Spec
INVARIANTS MemoryOwned
