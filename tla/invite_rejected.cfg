CONSTANT MaxServers = 1
SPECIFICATION Spec
CHECK_DEADLOCK FALSE
PROPERTY RejectionPassedUp
