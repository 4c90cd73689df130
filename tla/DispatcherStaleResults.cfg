SPECIFICATION Spec
CONSTANTS
  t1 = t1
  t2 = t2
  w1 = w1
  w2 = w2
  NoTask = NoTask
  Tasks <- MCTwoTasks
  Kind <- MCTrainTrack
  Workers <- MCOneWorker
  MaxFaults = 0
  MaxBoots = 1
INVARIANTS
  OwnResults
