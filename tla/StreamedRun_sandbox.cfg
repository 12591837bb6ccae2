SPECIFICATION Spec
CONSTANTS
  MaxTurns = 1
  HandlesErrors = FALSE
  ServerManaged = {FALSE}
  MaxRuns = 1
  MaxInputs = 0
  MaxEvents = 1
INVARIANT SandboxIsClosed
CHECK_DEADLOCK FALSE
