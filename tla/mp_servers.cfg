SPECIFICATION Spec
CONSTANTS
  Server = {1, 2, 3}
  Dirs <- MCDirs
  Scenarios <- MCScenarios
  NamePrefix <- MCNamePrefix
INVARIANTS TypeOK TreeIsConnected MarksFollowBuckets BucketsFollowPaths OwnBucketsDisjoint UpdateTellsAll
PROPERTIES DeletionsAreTold AcceptedIsMonitored
