SPECIFICATION Spec
CONSTANTS
  MaxRetries = 1
  Policies = {"nested", "any"}
  Timeouts = {TRUE, FALSE}
  InitialItems = 1
  Filtered = TRUE
  MaxResponses = 3
  MaxRuns = 2
  MaxInputs = 1
INVARIANTS
  HeldOnce
  NothingForgotten
  AcceptanceIsReported
  UsageCountedOnce
CHECK_DEADLOCK FALSE
