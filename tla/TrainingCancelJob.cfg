SPECIFICATION Spec
CONSTANTS
  r1 = r1
  r2 = r2
  NoRun = NoRun
  Runs <- MCRuns
  Score <- MCSameScore
  MaxPins = 0
  MaxAdmin = 1
  MaxBoots = 0
INVARIANTS
  QueuedHasJob
