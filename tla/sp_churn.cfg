SPECIFICATION Spec
CONSTANTS
  Process = {p1, p2}
  Handler = {}
  Daemon = {d1, d2}
  MaxStart = 3
  SignalTarget = {"monitor"}
  Faults = {"kill_idle", "open_fail", "slow", "tcp"}
  None = None
SYMMETRY Symmetry
INVARIANTS TypeOK OwnerHasDaemon ServersAreKept
PROPERTIES ImplementsOwnership
CONSTRAINT AcceptsWork
ACTION_CONSTRAINT EarlyLateness
