SPECIFICATION SpecAtHome
CONSTANTS
  Workspaces = {w1, w2}
  Here = here
  None = none
  MaxWork = 1
  MaxWarps = 1
INVARIANTS FailedWarpIsNone
CHECK_DEADLOCK FALSE
