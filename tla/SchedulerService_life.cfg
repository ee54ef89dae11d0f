\* An application from its startup to its end, with a process to spare.
SPECIFICATION FairSpec
CONSTANTS
  Requests = {q1, q2}
  Loop = loop
  Clients = {k1, k2}
  Processes = {s1, s2, s3}
  None = None
  MaxFaults = 1
INVARIANTS
  EverySchedulerIsHeld
  EndIsClean
PROPERTIES
  SchedulerIsRestored
  ShutdownEnds
\* The application ends once.
CHECK_DEADLOCK FALSE
