SPECIFICATION Spec
CONSTANTS
  r1 = r1
  r2 = r2
  NoRun = NoRun
  Runs <- MCRuns
  Score <- MCSameScore
  MaxPins = 1
  MaxAdmin = 1
  MaxBoots = 1
INVARIANTS
  TypeOK
  OneActive
  CancelStops
  NoneAbandoned
PROPERTIES
  EndIsFinal
SYMMETRY MCSymmetry
