SPECIFICATION FairSpec
CONSTANTS
  Process = {p1, p2}
  Handler = {}
  Daemon = {d1, d2}
  MaxStart = 3
  SignalTarget = {"monitor"}
  Faults = {"kill_idle"}
  None = None
INVARIANTS ReplacedDaemonQuits
PROPERTIES DaemonReplaced MappingIsUpdated
