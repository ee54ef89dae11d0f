\* Finding: two active rows for one client.
SPECIFICATION Spec
CONSTANTS
  Clients = {k1, k2}
  Coordinators = {s1}
  MaxBatches = 2
  MaxAbandons = 0
INVARIANT OneActiveRowPerClient
SYMMETRY ClientSymmetry
CHECK_DEADLOCK FALSE
