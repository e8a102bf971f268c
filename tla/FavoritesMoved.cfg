SPECIFICATION MCSpec
CONSTANTS
  Nil = Nil
  Names = {1, 2}
  TunedNames = {2}
  ResaveNames = {}
  MaxRuns = 2
  MaxCrashes = 2
  MaxEdits = 1
INVARIANTS MoveTypeOK UndoTakesIt UndoneIsAsBefore FavoritesStay
PROPERTY NothingSavedIsLost
CHECK_DEADLOCK FALSE
