SPECIFICATION Spec
CONSTANTS
  Devices = {d1, d2}
  Server = srv
  MaxCommits = 3
  MaxFails = 0
INVARIANT
  BaseIsCommon
CHECK_DEADLOCK FALSE
