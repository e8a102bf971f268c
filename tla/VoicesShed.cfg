SPECIFICATION LimitSpec
CONSTANTS
  None = None
  Keys = {1, 2}
  Floor = 1
  Emergency = 1
  Ceiling = 3
  RestCap = 2
  OnLoad = {1, 3}
  MaxNotes = 2
  MaxXruns = 2
  MaxFaults = 1
INVARIANT LimitTypeOK
PROPERTIES SheddingSettles LimitFollowsLoad
CHECK_DEADLOCK FALSE
