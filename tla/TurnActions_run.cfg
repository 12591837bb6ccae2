SPECIFICATION FairActionsSpec
CONSTANTS
  NumFunctions = 4
  NumComputers = 2
  MaxConcurrency = 2
  Timed = {2}
  NumSequential = 2
INVARIANTS
  TurnIsSettled
  FirstErrorSurfaces
PROPERTIES
  StartsInOrder
  ExecutesCalls
  ActionsEnd
CHECK_DEADLOCK FALSE
