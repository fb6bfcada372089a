SPECIFICATION WorkSpec
CONSTANTS
  Slugs = {"a"}
  MaxProjects = 1
  MaxTasks = 1
  MaxDirs = 2
  MaxTreeFaults = 1
  MaxMessages = 1
  MaxWorkFaults = 2
INVARIANTS OwnArchiveIsClean
PROPERTIES ArchivedSettles
CHECK_DEADLOCK FALSE
