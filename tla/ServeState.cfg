SPECIFICATION MCSpec
SYMMETRY Symmetric
CONSTANTS
  Scope = {"generations", "work", "notices", "read", "tree"}
  GenIds = {g1, g2}
  Reasons = {replaced}
  NoReason = NoReason
  NoRecord = NoRecord
  MaxVersion = 2
  Inputs = {i1, i2}
  MaxAttempts = 1
  MaxTurns = 3
  MaxFaults = 1
  MaxBreaks = 2
  Users = {u1, u2}
  LegacyUser = u1
  Resources = {r1}
  MaxTurnNo = 2
  MaxRecords = 2
  MaxRequests = 2
  MaxReadFaults = 1
  Slugs = {"a"}
  MaxProjects = 2
  MaxTasks = 2
  MaxDirs = 4
  MaxTreeFaults = 2
INVARIANTS NoGenerationLost ManifestIsFresh CurrentIsNewest ScanMissesNothing WorkKept ReadNeverAhead UniqueIds
PROPERTIES NoticesTold ReadStateKept RetiredNeverRevived
CHECK_DEADLOCK FALSE
