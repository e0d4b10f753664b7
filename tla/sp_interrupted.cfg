SPECIFICATION Spec
CONSTANTS
  Process = {p1, p2}
  Handler = {}
  Daemon = {d1, d2}
  MaxStart = 2
  SignalTarget = {"monitor"}
  Faults = {"ctrlc", "tcp"}
  None = None
SYMMETRY Symmetry
INVARIANTS SemaphoreMutex
CHECK_DEADLOCK FALSE
