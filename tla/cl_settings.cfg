SPECIFICATION Spec
CONSTANTS
  BuffSize = 6
  UdpSize = 8
  Proc = {p1, p2}
  Dirs = {"x", "y"}
  TextLen <- MCTextLen
  Bodies <- MCBodies
  LongBodies <- MCLongBodies
  CommandLines <- MCCommandLines
  UsualLines <- MCUsualLines
  Files <- MCFiles
  UsualFile <- MCUsualFile
  Worlds <- MCNew
  None = None
INVARIANT ErrorsAreReported
CHECK_DEADLOCK FALSE
