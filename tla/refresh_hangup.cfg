CONSTANT MaxRequests = 3
SPECIFICATION Spec
CHECK_DEADLOCK FALSE
PROPERTIES
  HangupUnbinds
