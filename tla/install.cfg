SPECIFICATION Spec
CONSTANTS
  Tool = {"claude", "cursor", "codex"}
  Shared = {"codex"}
  MaxRuns = 3
  Missing = missing
  Fault = {"io", "torn", "systemctl", "edit", "break"}
INVARIANTS
  TypeOK
  Tracked
  Runnable
  Repaired
  NoGhost
PROPERTIES
  ForeignKept
CHECK_DEADLOCK FALSE
