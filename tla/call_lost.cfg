CONSTANTS
  MaxOffers = 1
  MaxChallenges = 0
  MaxLost = 1
SPECIFICATION FairSpec
CHECK_DEADLOCK FALSE
PROPERTY AcceptedCallConnects
