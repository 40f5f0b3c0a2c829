CONSTANT Clients = {"c1", "c2", "c3"}
CHECK_DEADLOCK FALSE
SPECIFICATION FairSpec
INVARIANTS
    TypeOK
    ReferencesHold
    QuietIsClean
PROPERTIES
    CallsReturn
