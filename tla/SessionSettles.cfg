SPECIFICATION FairSpec
CONSTANTS
  NoTurn = NoTurn
  Msgs = {m1, m2}
  Steers = {}
  CanSteer = TRUE
  Adapter = "pi"
  Calls = {"start", "interrupt"}
  MaxStartups = 2
  MaxFaults = 1
PROPERTIES InputsSettle
CHECK_DEADLOCK FALSE
