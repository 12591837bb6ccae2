SPECIFICATION FairSpec
CONSTANTS
  Calls = {c1, c2, c3, d1}
  SecondAgentCalls = {d1}
  NeedsApproval = {c2, c3}
  Guardrails = {"blocking", "parallel"}
  StopOnFirstTool = {2}
  HandledErrors = {"maxTurns"}
  MaxTurns = 2
  MaxCallsInResponse = 2
  MaxRuns = 3
  MaxInputs = 1
INVARIANTS
  ToolsWaitForGuardrails
  CallsAreAnswered
  RunLeavesNothingOpen
  AdmittedInputIsGuarded
  GuardrailErrorWins
PROPERTIES
  ExecutedOnceApproved
  RunEnds
CHECK_DEADLOCK FALSE
