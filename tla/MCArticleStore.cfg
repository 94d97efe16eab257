SPECIFICATION Spec
CONSTANTS
  Procs = {p1, p2}
  Nobody = nobody
  Window = 2
  MinApprovals = 1
  MaxCharges = 1
  Incoming = {"named", "published"}
  MaxCommits = 4
  MaxFails = 1
INVARIANTS
  TypeOK
  GitFirst
  CleanAgrees
PROPERTIES
  CommandsEnd
  TimedPoolDrains
CHECK_DEADLOCK FALSE
