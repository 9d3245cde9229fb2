SPECIFICATION NavSpec
CONSTANTS
  d1 = d1
  d2 = d2
  Dirs = {d1, d2, d3}
  Procs = {p1, p2}
  ArgDirs <- OneArg
  Outsider = outsider
  None = none
  MaxAudit = 0
  MaxDirs = 1
INVARIANTS NavTypeOK OpensWhatIsShown
PROPERTIES HighlightIsStable
SYMMETRY Same
CHECK_DEADLOCK FALSE
