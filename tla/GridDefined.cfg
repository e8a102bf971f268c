SPECIFICATION Spec
CONSTANTS
  l1 = l1
  l2 = l2
  Loops = {l1, l2}
  Lengths = {1, 2}
  MinDefining = 2
  ArmedRecordCancels = FALSE
  MaxCrashes = 1
SYMMETRY LoopSymmetry
INVARIANTS
  DefinerLives
  LandedTakeDefines
  EngineKnowsGrid
PROPERTIES
  GridIsTheTake
  DropsWhenEmpty
