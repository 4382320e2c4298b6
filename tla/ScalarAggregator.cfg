\* Windows of three seconds, a delay that is no multiple of them.
SPECIFICATION Spec
CONSTANTS
  Step = 3
  Delay = 5
  InactiveT = 10
  Rules <- MCRules
  Inputs <- MCInputs
  MaxFlows = 4
  MaxEnd = 30
INVARIANTS
  InStep
  RowsContiguous
  CountedOnce
  WholeSecondsKept
PROPERTY
  RolloutEnds
CHECK_DEADLOCK FALSE
