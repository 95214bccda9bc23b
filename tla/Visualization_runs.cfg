SPECIFICATION FairSpec
CONSTANTS
  Params = {p1}
  Default = none
  MaxRecords = 3
  MaxAtOnce = 2
  MaxFaults = 1
INVARIANTS OwnPicture FailedForCause
PROPERTIES CompletedStays RunsSettle
CHECK_DEADLOCK FALSE
