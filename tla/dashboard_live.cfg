SPECIFICATION FairSpec
CONSTANTS
  Tasks = {a}
  NoTask = NoTask
  Fetches = {f1, f2}
  MaxChanges = 1
  MaxFailures = 1
PROPERTIES
  PageCatchesUp
CHECK_DEADLOCK FALSE
