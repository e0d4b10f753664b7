SPECIFICATION FairSpec
CONSTANTS
  BuffSize = 6
  UdpSize = 8
  Proc = {p1, p2}
  Dirs = {"x", "y"}
  TextLen <- MCTextLen
  Bodies <- MCBodies
  LongBodies <- MCLongBodies
  CommandLines <- MCCommandLines
  UsualLines <- MCUsualLines
  Files <- MCFiles
  UsualFile <- MCUsualFile
  Worlds <- MCWorlds
  None = None
INVARIANTS TypeOK CommandIsTheUsers SettingsAreTheFiles RequestIsDone ClosedPortGetsNothing UpdatesAreWhole
PROPERTIES CommandIsAnswered
CHECK_DEADLOCK FALSE
