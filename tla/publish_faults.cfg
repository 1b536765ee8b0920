SPECIFICATION Spec
CONSTANTS
  Project = {p1, p2}
  Home = home
  Missing = missing
  MaxBatch = 3
  Second <- Tied
  Room = 1
  Fault = {"crash", "io", "edit", "refresh"}
SYMMETRY Symmetry
INVARIANTS
  TypeOK
  NothingCaptured
  PointerResolves
  OwnHistory
  Remembered
  AllShown
  DrainAlive
CONSTRAINT Bounds
CHECK_DEADLOCK FALSE
