SPECIFICATION MCSpec
CONSTANTS
  Channels = {1, 2}
  Enabled = {"fx", "mon"}
  Meter = TRUE
  MaxFaults = 1
  MaxGlitches = 1
CHECK_DEADLOCK FALSE
PROPERTY LivePathHeals RecordPathHeals
