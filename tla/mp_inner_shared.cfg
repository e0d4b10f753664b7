SPECIFICATION Spec
CONSTANTS
  Server = {1, 2, 3}
  Dirs <- MCDirs
  Scenarios <- MCInnerShared
  NamePrefix <- MCNamePrefix
INVARIANTS BucketIsScanned
CHECK_DEADLOCK FALSE
