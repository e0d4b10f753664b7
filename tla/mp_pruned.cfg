SPECIFICATION Spec
CONSTANTS
  Server = {1, 2, 3}
  Dirs <- MCDirs
  Scenarios <- MCApart
  NamePrefix <- MCNamePrefix
PROPERTIES PruningKeepsTheRest
CHECK_DEADLOCK FALSE
