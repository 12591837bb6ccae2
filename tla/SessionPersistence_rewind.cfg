SPECIFICATION Spec
CONSTANTS
  AfterTools = {"run_again", "final"}
  MaxCalls = 2
  MaxResponses = 2
  MaxRuns = 4
  MaxOthers = 1
INVARIANT RewindUndoesIncrement
CHECK_DEADLOCK FALSE
