\* A receiving thread that gives up on a new format.
SPECIFICATION Spec
CONSTANTS
  client = client
  router = router
  host1 = host1
  host2 = host2
  Private <- MCPrivate
  Public <- MCPublic
  Router = router
  Ports <- MCPorts
  Inputs <- MCInputs
  CheckTime = 3
  FreeTime = 2
  CacheSize = 1
  MaxFlows = 2
PROPERTY
  ThreadsEndLeadsToExit
CHECK_DEADLOCK FALSE
