SPECIFICATION Spec
CONSTANTS
  Ids = {ann, bob}
  Names = {h1}
  Procs = {p1}
  None = none
INVARIANT
  SessionIsCleared
CHECK_DEADLOCK FALSE
