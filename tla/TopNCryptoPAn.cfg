\* topn with up to five flows an interval, in tables of one and two columns; CryptoPAn with
\* any two calls one after the other, under every pad.
SPECIFICATION MCSpec
CONSTANTS
  Records <- MCRecords
  Configs <- MCConfigs
  Rows <- MCRows
  RowOf <- MCRowOf
  FlowCols = 2
  PabCols = 1
  FlowsMultiplier = 2
  FlowsBigBase = 0
  FlowsBigMultiplier = 2
  PabBase = 1
  PabMultiplier = 1
  ByteBits = 2
  Width = 8
  InputsOf <- MCInputsOf
  MaxRecordsOf <- MCMaxRecordsOf
  MaxAge = 1
  Bits = 3
  MaxCalls = 2
  Ciphers <- MCCiphers
INVARIANTS
  ReportAccurate
  TablesNeverOvercount
  Restores
  PrefixPreserving
CHECK_DEADLOCK FALSE
