SPECIFICATION Spec
CONSTANTS
  owner = owner
  other = other
  i1 = i1
  r1 = r1
  Scope = {"merge", "input", "deliver", "bind"}
  Users = {owner, other}
  Agent = Agent
  Inputs = {i1}
  Replies = {r1}
  None = None
  Owner = owner
  Kinds = {"text", "pair", "open", "bind", "stop", "resume", "confirm"}
  Parts = {1, 2}
  Threads = {0, 1, 2}
  Settings = {"connect", "unbind", "disconnect"}
  Earlier <- MCEarlier
  MaxMessages = 3
  MaxEpoch = 2
  MaxUpdates = 2
  MaxRevision = 1
  MaxRetries = 1
  MaxHalts = 1
INVARIANTS NothingSkipped NoUpdateLost AtMostOnce SentWhileOpen HistoryKept
CHECK_DEADLOCK FALSE
