SPECIFICATION Spec
CONSTANTS
  p1 = p1
  p2 = p2
  f1 = f1
  f2 = f2
  Project = {p1, p2}
  Home = home
  File = {f1, f2}
  Owner <- TwoProjects
  Decoded <- HyphenInP2
  Session = {default, s1}
  Default = default
  Absent = absent
  Blank = blank
  Kind = {"turn"}
  Cap = 2
  MaxLines = 1
  MaxQueue = 1
  Fault = {"rescan", "io"}
  HookFirst = FALSE
INVARIANTS
  NoRepeat
  PublishedToOwner
PROPERTIES
  KeepsPlace
CHECK_DEADLOCK FALSE
