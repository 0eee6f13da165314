SPECIFICATION FairSpec
CONSTANTS
  NParties = 3
  NThreads = 2
  MaxChecks = 2
  Faulty = {2}
INVARIANTS OpenedAfterCommitted OneCheckAtATime GrantedTogether
PROPERTIES NobodyHangs ImplementsSerialOpenings
