SPECIFICATION Spec
CONSTANTS
  Process = {p1, p2}
  Handler = {h1, h2}
  Daemon = {d1, d2}
  MaxStart = 3
  SignalTarget = {"monitor"}
  Faults = {"tcp", "error", "thread"}
  None = None
SYMMETRY Symmetry
INVARIANTS LeaverStaysOut SharedFileIsCounted MappingMutex LockNotLost
CONSTRAINTS RequestsAlone OthersToCome
