SPECIFICATION Spec
CONSTANTS
  AfterTools = {"run_again", "final"}
  MaxCalls = 2
  MaxResponses = 2
  MaxRuns = 4
  MaxOthers = 1
INVARIANTS
  StoredOnce
  NothingLost
  EffectsAreRecorded
CHECK_DEADLOCK FALSE
