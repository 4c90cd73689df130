SPECIFICATION Spec
CONSTANTS
  p1 = p1
  p2 = p2
  m1 = m1
  m2 = m2
  f1 = f1
  t1 = t1
  t2 = t2
  c1 = c1
  c2 = c2
  NoModel = NoModel
  NoRun = NoRun
  Person = Person
  CV = CV
  Clip <- MCClip
  Runs <- MCTwoRuns
  Models <- MCModels
  Frames <- MCOneFrame
  Types <- MCOneType
  Callers <- MCCallers
  MaxStarts = 1
  MaxEdits = 0
  MaxBoots = 0
PROPERTIES
  OlderNeverLands
