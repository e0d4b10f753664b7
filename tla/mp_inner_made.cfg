SPECIFICATION Spec
CONSTANTS
  Server = {1, 2, 3}
  Dirs <- MCDirs
  Scenarios <- MCInnerMade
  NamePrefix <- MCNamePrefix
INVARIANTS ListenersKnow
CHECK_DEADLOCK FALSE
