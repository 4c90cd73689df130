SPECIFICATION FairSpec
CONSTANTS
  t1 = t1
  h1 = h1
  h2 = h2
  NoTrial = NoTrial
  Trials <- MCOneTrial
  Handlers <- MCHandlers
  Chunks = 2
  MaxStarts = 2
  MaxCancels = 1
  MaxBoots = 1
INVARIANT TypeOK
INVARIANT SucceededIsWhole
INVARIANT Attended
PROPERTY SucceededStays
PROPERTY Ends
CHECK_DEADLOCK FALSE
