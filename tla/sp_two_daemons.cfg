SPECIFICATION Spec
CONSTANTS
  Process = {p1, p2}
  Handler = {}
  Daemon = {d1, d2}
  MaxStart = 2
  SignalTarget = {"monitor"}
  Faults = {"slow", "tcp"}
  None = None
SYMMETRY Symmetry
INVARIANTS ReplacedDaemonQuits
CHECK_DEADLOCK FALSE
