\* One scheduler, two clients, two batches, one crash or failed query.
SPECIFICATION FairSpec
CONSTANTS
  Clients = {k1, k2}
  Coordinators = {s1}
  MaxBatches = 2
  MaxAbandons = 1
INVARIANTS
  OnlyNewestOpen
  CompletedBatchIsComplete
  TimedOutLeavesNothingActive
  FailureHasACause
PROPERTIES
  DecisionsAreFinal
  ImplementsCommit
  OpenBatchIsDecided
\* The last batch of the bound is the last one: the scheduler then stops.
CHECK_DEADLOCK FALSE
