SPECIFICATION Spec
CONSTANTS
  Devices = {d1, d2}
  Server = srv
  MaxCommits = 3
  MaxFails = 0
INVARIANT
  IncrementalPushWorks
CHECK_DEADLOCK FALSE
