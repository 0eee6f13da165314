SPECIFICATION Spec
CONSTANTS
  Helpers <- MCHelpers
  Block = 3
  Declared <- MCDeclared
  Setups <- ExactSetups
  MaxUse = 5
  MaxRuns = 2
INVARIANT UsedAlwaysOnce
CHECK_DEADLOCK FALSE
