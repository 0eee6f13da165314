SPECIFICATION Spec
CONSTANTS
  Helpers <- MCHelpers
  Block = 3
  Declared <- MCDeclared
  Setups <- MCSetups
  MaxUse = 5
  MaxRuns = 2
INVARIANTS TapesApart NothingSpentAhead NothingWasted
CHECK_DEADLOCK FALSE
