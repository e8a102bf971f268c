SPECIFICATION FairSpec
CONSTANTS
  Patches = {p1, p2}
  Routed = {p1}
  Effects = {e1}
  Top = 2
  Stops = {1}
  None = None
  Trouble = {}
  MaxMoves = 5
INVARIANTS TypeOK SetupIsKept
PROPERTIES FadersSettle KnobStaysWithPatch KnobNeverJumps
CHECK_DEADLOCK FALSE
