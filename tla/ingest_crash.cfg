SPECIFICATION Spec
CONSTANTS
  p1 = p1
  p2 = p2
  f1 = f1
  f2 = f2
  Project = {p1}
  Home = home
  File = {f1}
  Owner <- OneProject
  Decoded <- PlainSlugs
  Session = {default, s1}
  Default = default
  Absent = absent
  Blank = blank
  Kind = {"turn", "poison", "long"}
  Cap = 2
  MaxLines = 3
  MaxQueue = 1
  Fault = {"crash", "io", "rescan", "delete"}
  HookFirst = FALSE
INVARIANTS
  TypeOK
  CursorBacked
  WorkBacked
PROPERTIES
  ImplementsCapture
  HandoffWhole
CHECK_DEADLOCK FALSE
