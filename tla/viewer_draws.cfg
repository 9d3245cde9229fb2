SPECIFICATION Spec
CONSTANTS
  LastRun = 1
  MaxItems <- FewItems
  Slots = {d1, d2}
SYMMETRY SameDraws
INVARIANTS
  TypeOK
  ListHighlightIsCurrent
  QuietKeyIsShown
  OpenedItemExists
CHECK_DEADLOCK FALSE
