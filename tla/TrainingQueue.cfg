SPECIFICATION FairSpec
CONSTANTS
  r1 = r1
  r2 = r2
  NoRun = NoRun
  Runs <- MCRuns
  Score <- MCScore
  MaxPins = 0
  MaxAdmin = 0
  MaxBoots = 1
INVARIANTS
  QueuedHasJob
PROPERTIES
  RunsEnd
  AutoPinImproves
