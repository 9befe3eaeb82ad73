CONSTANTS
  t1 = t1
  t2 = t2
  t3 = t3
  o1 = o1
  o2 = o2
  o3 = o3
  b1 = b1
  b2 = b2
  none = none
  Task = {t1, t2, t3}
  InitTask = t1
  Object = {o1}
  MaxPri = 2
  ItskPri = {2}
  NULL = none
  Calls = {"cre_tsk", "sta_tsk", "chg_pri", "rel_wai", "sus_tsk", "rsm_tsk", "frsm_tsk", "slp_tsk", "wup_tsk", "can_wup", "rot_rdq", "dis_dsp", "ena_dsp", "del", "cre_sem", "sig_sem", "wai_sem", "cre_flg", "set_flg", "clr_flg", "wai_flg", "cre_mbx", "snd_mbx", "rcv_mbx", "cre_mbf", "snd_mbf", "rcv_mbf"}
  Timeouts = {"TMO_POL", "finite"}
  Atrs = {{}, {"TPRI"}, {"CNT"}, {"TPRI", "WMUL"}, {"MPRI"}}
  Rank <- InOrder
  Bit = {b1, b2}
  Wishes <- SomeWishes
  Message <- Mails
  Packet <- Packets
  MemSz = 2
  PoolSz = {}
  BlkSz = {}
  BlfSz = 1
  MaxBlk = 0
  MaxSem = 2
  BufSz = 4
  MaxWup = 1
  MaxSus = 1
SPECIFICATION Spec
SYMMETRY Others
INVARIANTS QueuesAgree RunsReady NobodyWaitsInVain RingsAreWhole
