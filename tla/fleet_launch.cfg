SPECIFICATION FairSpec
CONSTANTS
  d1 = d1
  d2 = d2
  Dirs = {d1, d2}
  Procs = {p1, p2}
  ArgDirs <- NoArgs
  Outsider = outsider
  None = none
  MaxAudit = 0
  MaxDirs = 1
INVARIANTS OneOwner SessionHasRow
PROPERTIES KillsOnlyOnCollision ExitedIsReleased
CHECK_DEADLOCK FALSE
