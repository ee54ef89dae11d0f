\* Every failure once: deaths, restarts, rollovers, failed reads and writes.
SPECIFICATION FairSpec
CONSTANTS
  Tables = {t1, t2}
  Limits = {l1, l2}
  DefaultLimit = l1
  MaxRuns = 2
  MaxIterations = 3
  MaxCrashes = 1
  MaxAppRestarts = 1
  MaxRequests = 1
  MaxRaises = 1
  MaxRotations = 1
  MaxWriteErrors = 1
INVARIANTS
  AcknowledgedIsShown
  CompletionIsNotLost
PROPERTIES
  ImplementsReplica
  FirstHeldUntilAcknowledged
  PassesWithWholeSnapshot
  BarrierOpens
\* The bound on cycles ends every behaviour.
CHECK_DEADLOCK FALSE
