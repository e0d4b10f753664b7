SPECIFICATION Spec
CONSTANTS
  BuffSize = 6
  UdpSize = 8
  Proc = {p1, p2}
  Dirs = {"x", "y"}
  TextLen <- MCTextLen
  Bodies <- MCBodies
  LongBodies <- MCLongBodies
  CommandLines <- MCCommandLines
  UsualLines <- MCUsualLines
  Files <- MCFiles
  UsualFile <- MCUsualFile
  Worlds <- MCPieces
  None = None
INVARIANT RequestIsRead
CHECK_DEADLOCK FALSE
