SPECIFICATION Spec
CONSTANTS
  N = 3
  Programs <- MCPrograms
  PlainCap = 1
  TlsCap = 2
  Spare = 0
INVARIANT Delivered
