SPECIFICATION FairSpec
CONSTANTS
  Slots = {s1, s2}
  s1 = s1
  s2 = s2
  t1 = t1
  None = None
  Tracks = {t1}
  MaxTakes = 1
  Neighbours = TRUE
  Hurry = {"report", "queue", "take", "bounce"}
INVARIANTS
  ParkedOnItsSave
PROPERTIES
  StopAllHolds
  ParkedResolves
  HeldLaunchResolves
