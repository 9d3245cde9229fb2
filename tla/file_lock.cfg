SPECIFICATION FairSpec
CONSTANTS
  Procs = {p1, p2}
  Before = before
  None = none
  MaxDeaths = 1
INVARIANTS MutualExclusion OneCleaner RemovesOwn
PROPERTIES Recovers
CHECK_DEADLOCK FALSE
