SPECIFICATION Spec
CONSTANTS
  None = None
  Loops = {0, 1}
  Faders = {0}
  Top = 2
  Rest = 1
  History = 3
  SongLevels = {3}
  Trouble = {}
  MaxMoves = 3
  MaxSongs = 1
INVARIANT TypeOK
PROPERTIES OnlyForeignIsAdopted LevelArrives
CHECK_DEADLOCK FALSE
