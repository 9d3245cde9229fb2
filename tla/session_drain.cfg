SPECIFICATION FairSpec
CONSTANTS
  Fibers = {f1, f2}
  Calls = {c1, c2}
  Prompts = {p1, p2}
  Tools = {t1}
  MaxSteps = 2
  None = none
INVARIANTS TypeOK OneDrain RequestIsAnswered
PROPERTIES KeepsPromise DueIsServed
CHECK_DEADLOCK FALSE
