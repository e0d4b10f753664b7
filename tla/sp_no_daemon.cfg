SPECIFICATION Spec
CONSTANTS
  Process = {p1, p2}
  Handler = {}
  Daemon = {d1, d2}
  MaxStart = 2
  SignalTarget = {"monitor"}
  Faults = {"thread"}
  None = None
SYMMETRY Symmetry
INVARIANTS NothingIsLeft
CHECK_DEADLOCK FALSE
