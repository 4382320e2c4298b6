\* Two interfaces, two messages each and three in all, one failed receive.
SPECIFICATION Spec
CONSTANTS
  Ifcs = {i1, i2}
  MaxRecords = 2
  MaxTotal = 3
  MaxFormats = 2
  MaxErrors = 1
  Capacity = 1
INVARIANTS
  RoutedInOrder
PROPERTY
  GoesThrough
CHECK_DEADLOCK FALSE
