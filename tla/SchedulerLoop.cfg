SPECIFICATION FairSpec
CONSTANTS
  Ids = {1}
  MaxEdits = 2
  MaxTicks = 2
  MaxFaults = 1
  MaxAsking = 1
  Timers = {"audit"}
  Kinds = {"audit", "scheduler"}
INVARIANTS NoLostWake OneTick
PROPERTIES ChangesAreSeen
CHECK_DEADLOCK FALSE
