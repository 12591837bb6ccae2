SPECIFICATION Spec
CONSTANTS
  Tools = {}
  ApprovedTools = {"a"}
  Handoffs = {"h"}
  McpRequests = {"m"}
  Responses = {1, 2, 3}
  Traffics = {"calls", "requests", "guarded"}
  MaxTurns = 1
  MaxChecks = 2
  Slots = {1, 2}
  MaxGenerations = 2
  MaxEvents = 2
  NoOne = NoOne
INVARIANTS
  CallsRunOnce
  OneAnswer
  FirstDecisionStands
  InterruptsItsResponse
  NobodyWaitsInVain
CHECK_DEADLOCK FALSE
