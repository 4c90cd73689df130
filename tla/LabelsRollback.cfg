CONSTANTS
  c1 = c1
  c2 = c2
  x = x
  y = y
  a = a
  b = b
  Gold = Gold
  GoldId <- MCGoldId
  None = None
  Clips <- MCClips
  Frames <- MCFrames
  ClipOf <- MCClipOf
  Types <- MCTypes
  Rects <- MCRects
  MaxTracks = 3
  FirstRows <- MCRows
  GoldFrame = 3
  MaxEdits = 2
  MaxLoads = 1
  MaxFaults = 1
  Budget = 3
  Drawable <- MCDrawable
SPECIFICATION Spec
INVARIANT RollbackKeepsLater
CHECK_DEADLOCK FALSE
