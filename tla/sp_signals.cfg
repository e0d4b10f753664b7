SPECIFICATION Spec
CONSTANTS
  Process = {p1, p2}
  Handler = {h1, h2}
  Daemon = {d1, d2}
  MaxStart = 2
  SignalTarget = {"monitor", d1}
  Faults = {"early_ctrlc", "ctrlc", "kill", "vanish", "thread"}
  None = None
SYMMETRY HandlerSymmetry
INVARIANTS SemaphoreMutex
CHECK_DEADLOCK FALSE
CONSTRAINT RequestsAlone
