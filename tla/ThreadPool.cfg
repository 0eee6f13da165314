SPECIFICATION FairSpec
CONSTANTS
  N = 3
  MaxTapes = 3
  MaxBatches = 2
  Calls <- MCCalls
INVARIANTS FreeThreadIdle JoinGetsTape WrapUpAsserts EveryItemOnce DeletedAfterExit UsageSummed
PROPERTIES RunEnds ImplementsTapePool
