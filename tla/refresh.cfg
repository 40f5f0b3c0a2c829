CONSTANT MaxRequests = 3
SPECIFICATION FairSpec
CHECK_DEADLOCK FALSE
INVARIANTS
  TypeOK
  OneRequestOutstanding
  ConnectedIsBound
  UnboundWhenTold
  ConnectedIsRefreshed
PROPERTIES
  ShutdownEnds
  RequestsEnd
