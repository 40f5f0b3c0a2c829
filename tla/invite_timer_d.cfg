CONSTANT MaxServers = 1
SPECIFICATION FairSpec
CHECK_DEADLOCK FALSE
PROPERTY ReliableCompletedEnds
