SPECIFICATION Spec
CONSTANTS
  NoMessage = NoMessage
  Msgs = {m1, m2}
  MaxFaults = 1
  MaxTurns = 2
  SendModes <- EnqueueOnly
  Steerable = TRUE
  CreateFaults = TRUE
  IdleSleep = FALSE
  Replies = FALSE
  MaxStartFailures = 2
INVARIANTS NoOrphanSession
CHECK_DEADLOCK FALSE
