\* Three queries at once on two helpers, one crash or failed start, one stray line.
SPECIFICATION FairSpec
CONSTANTS
  Callers = {c1, c2, c3}
  None = None
  PoolSize = 2
  MaxFaults = 1
  MaxNoise = 1
INVARIANTS
  CreatedIsExact
  ExclusiveUse
  AnswerIsOwn
  IdleHelperIsQuiet
PROPERTY DrainsOrStrands
\* The number of queries ends every behaviour.
CHECK_DEADLOCK FALSE
