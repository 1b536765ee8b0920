SPECIFICATION Spec
CONSTANTS
  c1 = c1
  c2 = c2
  c3 = c3
  w1 = w1
  w2 = w2
  Workspace = {w1, w2}
  Composer = {c1, c2, c3}
  Place <- Shared
  Text = {a, b, c}
  Nothing = nothing
  Keep = 2
  MaxPrompts = 3
  Limit <- FewInW2
  MaxScan = 2
  MaxQueue = 1
  Fault = {}
  Repeat = TRUE
SYMMETRY Symmetry
INVARIANTS
  PromptBacked
