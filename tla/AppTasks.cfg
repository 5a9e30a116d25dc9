CONSTANTS
  HeartbeatTimeout = 2
  ResetDelay = 1
  S3Timeout = 1
  Debounce = 3
  Statuses = {"trial", "normal"}
SPECIFICATION Spec
INVARIANTS TypeOK HandedAsAsked
PROPERTIES TimeoutEarned TimeoutRemembered
