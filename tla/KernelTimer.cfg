CONSTANTS
  Cyc = {c}
  Alm = {a}
  Tcb = {t}
  Off = off
  ABSTIM_DIFF_MIN = 4
  TIMER_PERIOD = 2
  Reltims = {1, 3}
SPECIFICATION Spec
INVARIANTS TypeOK QueueHoldsSet LeftTold
PROPERTIES IsCountdown NothingLeftBehind
