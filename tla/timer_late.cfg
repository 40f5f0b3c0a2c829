CONSTANTS
  Caller = {c1}
  Timer = {t1, t2}
  NoTimer = NoTimer
  MaxTime = 2
  MaxStarts = 1
SPECIFICATION Spec
CHECK_DEADLOCK FALSE
INVARIANT NoneSleptOver
