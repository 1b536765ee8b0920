SPECIFICATION Spec
CONSTANTS
  Own = {x, y, z}
  MaxLen = 11
  Breaks = FALSE
SYMMETRY Symmetry
INVARIANTS
  Kept
  Settles
  Clean
  NoGrowth
