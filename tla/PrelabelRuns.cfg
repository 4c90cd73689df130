SPECIFICATION Spec
CONSTANTS
  p1 = p1
  p2 = p2
  m1 = m1
  m2 = m2
  f1 = f1
  t1 = t1
  t2 = t2
  c1 = c1
  c2 = c2
  NoModel = NoModel
  NoRun = NoRun
  Person = Person
  CV = CV
  Clip <- MCClip
  Runs <- MCTwoRuns
  Models <- MCModels
  Frames <- MCOneFrame
  Types <- MCTypes
  Callers <- MCOneCaller
  MaxStarts = 1
  MaxEdits = 2
  MaxBoots = 1
INVARIANT TypeOK
INVARIANT HeldOutClean
INVARIANT DoneIsDecided
INVARIANT ActiveForPinned
INVARIANT RunningIsWorked
PROPERTY NeverProposedAgain
PROPERTY DrawnNotCovered
PROPERTY LandsWhileRunning
SYMMETRY MCSymmetry
