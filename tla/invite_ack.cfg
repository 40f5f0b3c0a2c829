CONSTANT MaxServers = 2
SPECIFICATION Spec
CHECK_DEADLOCK FALSE
INVARIANT AckIsForTheAnswer
