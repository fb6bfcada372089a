SPECIFICATION FairSpec
CONSTANTS
  NoMessage = NoMessage
  Msgs = {m1, m2}
  MaxFaults = 1
  MaxTurns = 2
  SendModes <- AllModes
  Steerable = TRUE
  CreateFaults = TRUE
  IdleSleep = FALSE
  Replies = FALSE
  MaxStartFailures = 1
PROPERTIES Settles
CHECK_DEADLOCK FALSE
