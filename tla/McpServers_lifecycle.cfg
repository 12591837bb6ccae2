SPECIFICATION FairSpec
CONSTANTS
  NumServers = 2
  MaxOperations = 3
INVARIANTS
  NoOverlappingCalls
  ActiveServersAreHealthy
PROPERTIES
  NoServerForgotten
  CloseIsComplete
  OperationsEnd
CHECK_DEADLOCK FALSE
