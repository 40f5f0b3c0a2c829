CONSTANTS
  Caller = {c1}
  Timer = {t1, t2}
  NoTimer = NoTimer
  MaxTime = 1
  MaxStarts = 2
SPECIFICATION FairSpec
CHECK_DEADLOCK FALSE
INVARIANTS
  TypeOK
  NoTimerWithoutPermit
  RemovesTheServed
PROPERTIES
  ImplementsService
  TimersAreServed
