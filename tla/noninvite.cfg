CONSTANT MaxServers = 2
SPECIFICATION FairSpec
CHECK_DEADLOCK FALSE
INVARIANTS
  TypeOK
  OutcomeIsUnique
  OneServerTransaction
  LiveTransactionsAreTimed
  ReliableHandsOnce
PROPERTIES
  ImplementsExchange
  TransactionsEnd
