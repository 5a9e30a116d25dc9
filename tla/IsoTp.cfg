SPECIFICATION Spec
CONSTANTS
  Nodes = {"boot", "app"}
  Sizes = {0, 3}
  SnMod = 2
  MailboxDepth = 2
  QueueDepth = 2
  MaxExchanges = 4
  MaxFaults = 2
INVARIANTS
  TypeOK
  DeliveredWhole
  AnswerMatches
  RecoversSoon
PROPERTIES
  NodeReleases
CHECK_DEADLOCK FALSE
