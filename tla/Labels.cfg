CONSTANTS
  c1 = c1
  c2 = c2
  x = x
  y = y
  a = a
  b = b
  Gold = Gold
  GoldId <- MCGoldId
  None = None
  Clips <- MCClips
  Frames <- MCFrames
  ClipOf <- MCClipOf
  Types <- MCTypes
  Rects <- MCRects
  MaxTracks = 3
  FirstRows <- MCRows
  GoldFrame = 3
  MaxEdits = 2
  MaxLoads = 3
  MaxFaults = 1
  Budget = 4
  Drawable <- MCDrawable
SPECIFICATION Spec
INVARIANT ShownIsSaved
INVARIANT NoFalseDone
INVARIANT UndoRestores
INVARIANT TypeOK
INVARIANT BoxesInClip
PROPERTY InOrder
PROPERTY OnlyDrawsEscape
CHECK_DEADLOCK FALSE
