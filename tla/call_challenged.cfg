CONSTANTS
  MaxOffers = 1
  MaxChallenges = 1
  MaxLost = 0
SPECIFICATION Spec
CHECK_DEADLOCK FALSE
PROPERTY AnsweredByeEnds
