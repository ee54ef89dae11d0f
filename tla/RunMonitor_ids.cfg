\* Finding: IDs above a million are rounded when written into queries.
SPECIFICATION Spec
CONSTANTS
  y1 = y1
  y2 = y2
  Types = {y1, y2}
  Steps = {A}
  Threshold = 20
  HistoryLimit = 4
  RowsPerRun = 1000
  OldRowsPerRun = 100
  StartScanLimit = 1000
  EndScanLimit = 1000
  FallbackLimit = 1000
  Kept = {1000}
  FirstId = 1000000
  PastRuns = 1
  Shapes <- SomeShapes
  MaxRuns = 2
  MaxMinutes = 1
  MaxRows = 5
  MaxDeaths = 0
INVARIANT NotStartedAsDocumented
\* The bounds end every behaviour.
CHECK_DEADLOCK FALSE
