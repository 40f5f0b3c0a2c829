CONSTANTS
  MaxOffers = 2
  MaxChallenges = 1
  MaxLost = 0
SPECIFICATION FairSpec
CHECK_DEADLOCK FALSE
INVARIANT NotPlacedAgain
