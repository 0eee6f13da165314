SPECIFICATION Spec
CONSTANTS
  N = 3
  Setups <- MCSetups
INVARIANTS MatchedEnds NoExitWithoutFault NobodyStuck
PROPERTY EverySetupEnds
