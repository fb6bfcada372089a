SPECIFICATION Spec
CONSTANTS
  Msgs = {m1}
  NoTick = NoTick
  MaxSequence = 1
  ReceiptLimit = 1
  ExpiredLimit = 0
  RenameErrors = FALSE
INVARIANTS Durable MarkerCovers
CHECK_DEADLOCK FALSE
