\* Two interfaces, one message, no failed receive.
SPECIFICATION Spec
CONSTANTS
  Ifcs = {i1, i2}
  MaxRecords = 2
  MaxTotal = 1
  MaxFormats = 1
  MaxErrors = 0
  Capacity = 1
INVARIANT
  PayloadOnly
CHECK_DEADLOCK FALSE
