CONSTANTS
  MaxAttempts = 3
  Versions = {1, 2, 3}
  MaxTxn = 3
  MaxFaults = 0
  Unlimited = TRUE
  MayRot = FALSE
  Pin = {TRUE, FALSE}
  Starts = {"factory"}
SPECIFICATION Spec
INVARIANTS RecoveryHasTarget
