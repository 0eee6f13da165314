SPECIFICATION FairSpec
CONSTANTS
  TotCli = 2
  XLen = 1
  KBits = 1
  SBits = 2
  Modes = {0, 1, 2}
  Key0 = 2
  Key1 = 3
  Alpha <- MCAlpha
  Inputs = {0, 1, 5}
  Masks = {3, 7}
  R <- MCR
  Prg <- MCPrg
  Cap = 1
  MayCrash = TRUE
INVARIANTS CommitmentCorrect HonestCheckPasses DoneMeansDelivered NoAbortWithoutCrash NeverAlone
PROPERTY ServersEnd
CHECK_DEADLOCK FALSE
