CONSTANTS MaxServers = 2
SPECIFICATION FairSpec
CHECK_DEADLOCK FALSE
INVARIANTS
  TypeOK
  OutcomeIsUnique
  OneServerTransaction
  LiveTransactionsAreTimed
  ConfirmedImpliesCallerKnows
  ReliableAlertsOnce
PROPERTIES
  ImplementsExchange
  ClientEnds
  ServerEnds
