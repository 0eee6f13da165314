SPECIFICATION FairSpec
CONSTANTS
  Producers = {p1, p2, p3}
  MaxItems = 2
  Drains = {TRUE, FALSE}
  Spurious = FALSE
INVARIANTS NeverFrontOfEmpty NoLostWakeup NothingDropped
PROPERTIES ConsumerEnds ImplementsHandover
