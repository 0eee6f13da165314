SPECIFICATION FairSpec
CONSTANTS
  NParties = 2
  NClients = 3
  MaxGames = 2
  Eager = FALSE
  MayDie = TRUE
INVARIANTS EveryoneAtTable NoExitWithoutFault
PROPERTY EveryoneEnds
