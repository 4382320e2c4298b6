\* Two tags, two records, an interval of one second and time for two of them.
SPECIFICATION Spec
CONSTANTS
  Size = 2
  Interval = 1
  MaxTime = 2
  MaxRecords = 2
INVARIANTS
  InsertedOnce
  SeenInInterval
PROPERTY
  StopLeadsToExit
CHECK_DEADLOCK FALSE
