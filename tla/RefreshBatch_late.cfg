\* Finding: a row completed by the load of an earlier batch.
SPECIFICATION Spec
CONSTANTS
  Clients = {k1, k2}
  Coordinators = {s1}
  MaxBatches = 2
  MaxAbandons = 0
INVARIANT CompletedRowWasLoaded
SYMMETRY ClientSymmetry
CHECK_DEADLOCK FALSE
