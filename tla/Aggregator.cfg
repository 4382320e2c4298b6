\* All four timeout types, chosen by Init; time enough for a second passive scan.
SPECIFICATION Spec
CONSTANTS
  Keys = {k1, k2}
  TimeoutTypes = {"active", "passive", "mixed", "global"}
  ActiveT = 1
  PassiveT = 2
  GlobalT = 2
  StartTime = 3
  MaxTime = 5
  MaxRecords = 2
  MaxFormats = 2
  Lags = {0, 1, 3}
  Durations = {0}
INVARIANTS
  TypeOK
  InputPartition
  AggregatesExact
  TemplateCurrent
  WindowBounded
  SplitOnlyAtWindow
PROPERTIES
  ImplementsKeyedGroups
  PassiveNeverEarlyOnTime
  ScanClockStable
  StopLeadsToEnd
CHECK_DEADLOCK FALSE
