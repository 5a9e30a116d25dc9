SPECIFICATION Spec
CONSTANTS
  Versions = {1, 2, 3}
  Options = {"none", "wrong_crc", "wrong_sequence", "skip_security", "stop"}
  Phrases = 3
  PhraseSize = 2
  BlockSize = 3
  Counter = 2
  Seeds = {1, 2}
  MaxRuns = 2
  MaxFaults = 2
INVARIANTS
  TypeOK
  HeaderVouches
  AcceptedIsPrefix
  DownloadIsProgramming
  PassedMeansPending
PROPERTIES
  WritesForUnlocker
  UpdateIsAtomic
  FlashCompletes
CHECK_DEADLOCK FALSE
