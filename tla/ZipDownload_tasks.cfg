SPECIFICATION FairSpec
CONSTANTS
  Tasks = {t1, t2}
  NoTask = NoTask
  Slow = TRUE
  Faults = TRUE
INVARIANTS LinkWorks ServedIsWhole OneHolder
PROPERTIES FilesReclaimed
CHECK_DEADLOCK FALSE
