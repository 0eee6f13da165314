SPECIFICATION Spec
CONSTANTS
  NParties = 2
  NClients = 2
  MaxGames = 2
  Eager = TRUE
  MayDie = FALSE
INVARIANT NoExitWithoutFault
