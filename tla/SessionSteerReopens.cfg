SPECIFICATION Spec
CONSTANTS
  NoTurn = NoTurn
  Msgs = {m1, m2}
  Steers = {m2}
  CanSteer = TRUE
  Adapter = "pi"
  Calls = {}
  MaxStartups = 2
  MaxFaults = 0
PROPERTY NoReopen
CHECK_DEADLOCK FALSE
