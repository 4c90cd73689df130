SPECIFICATION JobFairSpec
CONSTANTS
  t1 = t1
  t2 = t2
  w1 = w1
  w2 = w2
  NoTask = NoTask
  Tasks <- MCTwoTasks
  Kind <- MCTrainTrack
  Workers <- MCOneWorker
  MaxFaults = 1
  MaxBoots = 1
INVARIANT TypeOK
INVARIANT NoLostWakeup
INVARIANT Settled
INVARIANT RefusedNeverRuns
PROPERTY ImplementsLine
PROPERTY JobsEnd
