SPECIFICATION Spec
CONSTANTS
  c1 = c1
  c2 = c2
  Cells = {c1, c2}
  MaxTakes = 3
  MaxSaves = 3
  Early = TRUE
SYMMETRY CellSymmetry
INVARIANTS
  NeverAStub
PROPERTIES
  ImplementsClipStore
