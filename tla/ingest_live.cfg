SPECIFICATION FairSpec
CONSTANTS
  p1 = p1
  p2 = p2
  f1 = f1
  f2 = f2
  Project = {p1}
  Home = home
  File = {f1, f2}
  Owner <- OneProject
  Decoded <- PlainSlugs
  Session = {default}
  Default = default
  Absent = absent
  Blank = blank
  Kind = {"turn"}
  Cap = 1
  MaxLines = 2
  MaxQueue = 1
  Fault = {}
  HookFirst = FALSE
PROPERTIES
  EventuallyCaptured
  EventuallyShown
CHECK_DEADLOCK FALSE
