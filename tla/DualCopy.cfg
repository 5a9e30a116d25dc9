CONSTANTS
  Records = {r1, r2}
  NoRecord = NoRecord
  Empty = Empty
  Invalid = Invalid
  Half = 3
  Phrases = 3
SPECIFICATION Spec
INVARIANTS TypeOK NeverAmbiguous
PROPERTIES ReadableForever AcknowledgedIsRead ImplementsRegister
