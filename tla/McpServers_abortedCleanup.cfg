SPECIFICATION Spec
CONSTANTS
  NumServers = 2
  MaxOperations = 0
INVARIANTS
  AllOrNothing
CHECK_DEADLOCK FALSE
