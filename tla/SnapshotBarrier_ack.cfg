\* Finding: a cycle of a dead scheduler is taken for this one.
SPECIFICATION Spec
CONSTANTS
  Tables = {t1, t2}
  Limits = {l1}
  DefaultLimit = l1
  MaxRuns = 2
  MaxIterations = 3
  MaxCrashes = 1
  MaxAppRestarts = 0
  MaxRequests = 0
  MaxRaises = 0
  MaxRotations = 0
  MaxWriteErrors = 0
PROPERTY HeldUntilAcknowledged
SYMMETRY TableSymmetry
\* The bound on cycles ends every behaviour.
CHECK_DEADLOCK FALSE
