CONSTANTS
  MaxAttempts = 3
  Versions = {1, 2, 3}
  MaxTxn = 3
  MaxFaults = 0
  Unlimited = TRUE
  MayRot = TRUE
  Pin = {TRUE, FALSE}
  Starts = {"commissioned"}
SPECIFICATION Spec
INVARIANTS UpdateRunsOnTrial
