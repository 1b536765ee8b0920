SPECIFICATION Spec
CONSTANTS
  r1 = r1
  r2 = r2
  p1 = p1
  p2 = p2
  Project = {p1, p2}
  Home = home
  File = {r1, r2}
  History = history
  Owner <- OwnProject
  Says <- Talk
  By <- InTurn
  Blank = blank
  Cap = 2
  MaxLines = 3
  Limit <- Longer
  Fault = {}
INVARIANTS
  PublishedToOwner
