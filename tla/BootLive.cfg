CONSTANTS
  MaxAttempts = 3
  Versions = {1, 2, 3}
  MaxTxn = 2
  MaxFaults = 3
  Unlimited = FALSE
  MayRot = TRUE
  Pin = {FALSE}
  Starts = {"commissioned", "factory"}
SPECIFICATION FairSpec
INVARIANTS HandedOverOnce
PROPERTIES BootsAgain UpdateStarts
CHECK_DEADLOCK FALSE
