CONSTANT Clients = {"c1", "c2", "c3"}
CHECK_DEADLOCK FALSE
SPECIFICATION FairSpec
PROPERTY HangupReturns
