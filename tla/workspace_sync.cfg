SPECIFICATION FairSpec
CONSTANTS
  Workspaces = {w1, w2}
  Here = here
  None = none
  MaxWork = 1
  MaxWarps = 1
INVARIANTS TypeOK HandsOver PlacedWhereTaken
PROPERTIES FencedOut CatchesUp
CHECK_DEADLOCK FALSE
