SPECIFICATION MCSpec
CONSTANTS
  Scope = {"desktop", "log", "wire", "set", "rotation"}
  Pids = {1, 2, 3}
  Latest = 2
  Floor <- MCFloor
  MaxDeskFaults = 1
  MaxUpdates = 2
  MaxForeign = 1
  Writers = {w1, w2}
  MaxEvents = 4
  MaxText = 2
  MaxCrashes = 1
  MaxLogFaults = 1
  QueueSize = 1
  MaxConnects = 2
  Protocols = {"codex", "acp", "pi"}
  Users = {u1}
  MaxTurns = 2
  MaxSteers = 1
  MaxAsks = 1
  MaxCuts = 1
  MaxWireFaults = 1
  MaxExtras = 2
  PipeSize = 1
  Servers = {s1, s2}
  Configs = {f1, f2}
  NumSpaces = 2
  Callers = {c1, c2}
  MaxCalls = 2
  MaxStops = 1
  MaxSetFaults = 1
  Agents = {"a", "b"}
  Profiles = {"default", "review"}
  Systems = {"default"}
  Limits = {0, 2}
  FirstRoutes <- MCRoutes
  MaxGens = 2
  MaxMail = 2
  MaxEdits = 1
  MaxOwnTurns = 1
  MaxRotFaults = 1
INVARIANTS ServicesKept LogServed StreamComplete WorkAnswered
PROPERTIES WorkspacesKept TurnsFollowSettings
SYMMETRY MCSymmetry
CHECK_DEADLOCK FALSE
