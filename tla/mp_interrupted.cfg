SPECIFICATION Spec
CONSTANTS
  Server = {1, 2, 3}
  Dirs <- MCDirs
  Scenarios <- MCInterrupted
  NamePrefix <- MCNamePrefix
INVARIANTS BucketsAreOfServers
CHECK_DEADLOCK FALSE
