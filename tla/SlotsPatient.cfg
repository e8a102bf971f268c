SPECIFICATION Spec
CONSTANTS
  Slots = {s1, s2, s3}
  s1 = s1
  s2 = s2
  s3 = s3
  t1 = t1
  t2 = t2
  None = None
  Tracks = {t1, t2}
  MaxTakes = 2
  Neighbours = FALSE
  Hurry = {}
SYMMETRY BothSymmetry
INVARIANTS
  UnsavedTakeIsInBuffer
  SavedClipIsTheTake
  HeardIsShown
