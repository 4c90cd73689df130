CONSTANTS
  c1 = c1
  c2 = c2
  x = x
  y = y
  a = a
  b = b
  Gold = Gold
  GoldId <- MCGoldId
  None = None
  Clips <- MCClips
  Frames <- MCFrames
  ClipOf <- MCClipOf
  Types <- MCTypes
  Rects <- MCRects
  MaxTracks = 3
  FirstRows <- MCRows
  GoldFrame = 3
  MaxEdits = 1
  MaxLoads = 3
  MaxFaults = 0
  Budget = 2
  Drawable <- MCDrawable
SPECIFICATION Spec
PROPERTY LoadsFresh
CHECK_DEADLOCK FALSE
