SPECIFICATION Spec
CONSTANTS
  N = 5
  Setups <- MCSetups
  PopenMax = 3
INVARIANTS OpenedIsSum CheckedMeansRight
PROPERTY EveryoneEnds
