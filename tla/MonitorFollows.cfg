SPECIFICATION MonitorSpec
CONSTANTS
  Loops = {0, 1}
  Handlers = {"handler"}
  Levels = {1, 2}
  Unity = 2
  Attempts = 2
  MaxTakes = 2
  MaxMoves = 1
  MaxLosses = 2
INVARIANT MonitorTypeOK
PROPERTIES KnownCaptureKept MonitorFollows
