CONSTANTS
  Caller = {c1}
  Timer = {t1, t2}
  NoTimer = NoTimer
  MaxTime = 1
  MaxStarts = 1
SPECIFICATION FairSpec
CHECK_DEADLOCK FALSE
PROPERTY StopReturns
