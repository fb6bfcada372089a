SPECIFICATION Spec
CONSTANTS
  NoMessage = NoMessage
  Msgs = {m1, m2}
  MaxFaults = 2
  MaxTurns = 2
  SendModes <- AllModes
  Steerable = TRUE
  CreateFaults = TRUE
  IdleSleep = TRUE
  Replies = TRUE
  MaxStartFailures = 2
SYMMETRY MsgSymmetry
INVARIANTS HonestStatus SleepIsReversible InOrder
PROPERTIES PromiseKept ReplacementHoldsMail StopSparesTurn
CHECK_DEADLOCK FALSE
