SPECIFICATION FairSpec
CONSTANTS
  d1 = d1
  d2 = d2
  Dirs = {d1}
  Procs = {p1}
  ArgDirs <- OneArg
  Outsider = outsider
  None = none
  MaxAudit = 3
  MaxDirs = 1
INVARIANTS NeverOverclaims CachedFactsCurrent
PROPERTIES SealIsShown
CHECK_DEADLOCK FALSE
