\* Three flows in every order of arrival, a cache of one key, short times.
SPECIFICATION Spec
CONSTANTS
  client = client
  router = router
  host1 = host1
  host2 = host2
  Private <- MCPrivate
  Public <- MCPublic
  Router = router
  Ports <- MCPorts
  Inputs <- MCInputs
  CheckTime = 3
  FreeTime = 2
  CacheSize = 1
  MaxFlows = 3
INVARIANTS
  FlowsAccounted
  PairsSound
  NoPairWaits
  NoFlowStranded
PROPERTY
  InputsEndLeadsToExit
CHECK_DEADLOCK FALSE
