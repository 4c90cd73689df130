SPECIFICATION ServiceFairSpec
CONSTANTS
  t1 = t1
  t2 = t2
  w1 = w1
  w2 = w2
  NoTask = NoTask
  Tasks <- MCTwoTasks
  Kind <- MCTrainTrack
  Workers <- MCWorkers
  MaxFaults = 0
  MaxBoots = 0
INVARIANT PoppedOnce
INVARIANT OneHolder
INVARIANT StopsOnlyTheDead
INVARIANT OwnResults
PROPERTY ByPriority
PROPERTY NobodyStarves
