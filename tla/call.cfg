CONSTANTS
  MaxOffers = 2
  MaxChallenges = 1
  MaxLost = 1
SPECIFICATION FairSpec
CHECK_DEADLOCK FALSE
INVARIANTS
  TypeOK
  OneFinalAnswer
  NobodyLeftWaiting
PROPERTY HangupEnds
