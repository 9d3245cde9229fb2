SPECIFICATION Spec
CONSTANTS
  f1 = f1
  f2 = f2
  Finalizers = {q1, q2}
  FindingIds = {f1, f2}
  Absent = absent
  Records <- AuditRecords
  MaxLog = 4
SYMMETRY Interchangeable
INVARIANTS TypeOK MergeIsFirstWins FailsOnReplayOnly
PROPERTIES NothingRetracted
CHECK_DEADLOCK FALSE
