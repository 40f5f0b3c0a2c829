CONSTANTS
  Caller = {c1, c2}
  Timer = {t1, t2}
  NoTimer = NoTimer
  MaxTime = 1
  MaxStarts = 1
SPECIFICATION Spec
CHECK_DEADLOCK FALSE
INVARIANT IdsAreUnique
