SPECIFICATION Spec
CONSTANTS
  NoTurn = NoTurn
  Msgs = {m1, m2}
  Steers = {m2}
  CanSteer = TRUE
  Adapter = "pi"
  Calls = {"stop", "start"}
  MaxStartups = 2
  MaxFaults = 2
INVARIANTS StoppedMeansDead ProvidersKnown StopHolds BudgetHolds
CHECK_DEADLOCK FALSE
