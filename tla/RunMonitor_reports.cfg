\* Two past runs and a third of one client, refreshed at any time, with limits
\* low enough to be reached.
SPECIFICATION Spec
CONSTANTS
  y1 = y1
  y2 = y2
  Types = {y1, y2}
  Steps = {A, B}
  Threshold = 0
  HistoryLimit = 2
  RowsPerRun = 3
  OldRowsPerRun = 5
  StartScanLimit = 9
  EndScanLimit = 3
  FallbackLimit = 3
  Kept = {3, 20}
  FirstId = 0
  PastRuns = 2
  Shapes <- SomeShapes
  MaxRuns = 3
  MaxMinutes = 2
  MaxRows = 4
  MaxDeaths = 1
INVARIANTS
  StartIsTrue
  StepIsTrue
  AlertIsTrue
  RowIsOfOneRun
PROPERTY AlertsAreKept
\* The bounds end every behaviour.
CHECK_DEADLOCK FALSE
