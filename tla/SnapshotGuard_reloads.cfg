\* Two tables of up to three rows, reloaded while they are counted and read.
SPECIFICATION FairSpec
CONSTANTS
  Tables = {t1, t2}
  MaxRows = 3
  MaxReloads = 2
  MaxFaults = 1
INVARIANT StoredIsNotReduced
PROPERTY MonitoringResumes
