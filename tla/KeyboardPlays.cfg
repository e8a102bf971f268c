SPECIFICATION Spec
CONSTANTS
  MemberChannels <- TwoChannels
  n1 = n1
  n2 = n2
  n3 = n3
  Notes = {n1, n2, n3}
  Wheel = {0, 1}
  Ranges = {0, 2}
  DefaultRange = 2
  TargetRange = 2
  BendMax = 8
  Pressures = {0, 1}
  Timbres = {0, 1}
  Unknown = Unknown
  Policies = {"oldest", "never"}
VIEW WithoutRinging
SYMMETRY NoteSymmetry
INVARIANTS
  NoStuckNote
PROPERTIES
  NotesStartFromTheZone
