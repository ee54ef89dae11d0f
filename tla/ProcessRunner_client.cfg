\* A client over any number of cycles, with two of its runners at a time.
SPECIFICATION FairSpec
CONSTANTS
  Runners = {r1, r2}
  Sessions = {o1, o2, o3, o4}
  None = None
  MaxTroubles = 1
  MaxKills = 1
  MaxDeaths = 1
  MaxExpiries = 1
INVARIANTS
  SubmittedOnce
  SavedSessionWasGranted
  TornByKillOrOverlap
PROPERTY KeepsSubmitting
