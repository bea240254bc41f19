SPECIFICATION MCSpec
CONSTANTS
  Calls = {"c1", "c2"}
  Providers = {"p1", "p2"}
  Helpers = {"h1", "h2"}
  MaxDeaths = 1
  MaxPending = 2
  Offers <- MCOffers
CHECK_DEADLOCK FALSE
INVARIANTS
  Truthful
  FailureTold
  NoFault
  RightProvider
  ConnectedAsNeeded
