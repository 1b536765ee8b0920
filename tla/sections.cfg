SPECIFICATION Spec
CONSTANTS
  s1 = s1
  s2 = s2
  f1 = f1
  f2 = f2
  Session = {s1, s2}
  Line <- MCLine
  Fence = "fence"
  Brief <- MCBrief
  Asked <- MCAsked
  Retrying = {"b? again", "again"}
  Failing = {}
  TaskCut <- MCTaskCut
  QuestionCut <- MCQuestionCut
  Path = {f1, f2}
  Record <- MCRecord
  Stamp <- MCStamp
  Activity = {act}
  None = none
  MaxQuestions = 2
  MaxFailed = 2
  MaxPaths = 1
  MaxRecords = 3
  Limit <- MCLimit
  MaxRepeat = 1
  Fault = {"cut", "rescan"}
INVARIANTS
  TypeOK
  TaskListed
  NextListed
  RereadHarmless
PROPERTIES
  NothingDeleted
  ListsStand
CONSTRAINT Bounds
CHECK_DEADLOCK FALSE
