SPECIFICATION Spec
CONSTANTS
  a = a
  b = b
  None = None
  Songs = {a, b}
  Loops = {0, 1}
  Trouble = {}
  MaxTakes = 2
  MaxFiles = 2
  MaxCuts = 1
VIEW View
SYMMETRY SongSymmetry
INVARIANTS SavedSongsReload SavedIsAll
PROPERTY LossIsChosen
