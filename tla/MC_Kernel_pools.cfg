CONSTANTS
  t1 = t1
  t2 = t2
  t3 = t3
  o1 = o1
  o2 = o2
  o3 = o3
  b1 = b1
  b2 = b2
  none = none
  Task = {t1, t2, t3}
  InitTask = t1
  Object = {o1}
  MaxPri = 2
  ItskPri = {2}
  NULL = none
  Calls = {"cre_tsk", "sta_tsk", "ter_tsk", "slp_tsk", "wup_tsk", "sus_tsk", "rsm_tsk", "del", "cre_mpf", "get_mpf", "rel_mpf", "cre_mpl", "get_mpl", "rel_mpl", "chg_pri"}
  Timeouts = {"finite"}
  Atrs = {{"TPRI"}}
  Rank <- InAnyOrder
  Bit = {}
  Wishes = {}
  Message = {}
  Packet = {}
  MemSz = 5
  PoolSz = {5}
  BlkSz = {2, 5}
  BlfSz = 2
  MaxBlk = 2
  MaxSem = 1
  BufSz = 1
  MaxWup = 0
  MaxSus = 1
SPECIFICATION Spec
SYMMETRY Others
INVARIANTS LocksHeld NobodyWaitsInVain BlocksAccounted
