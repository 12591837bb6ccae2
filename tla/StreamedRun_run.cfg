SPECIFICATION FairSpec
CONSTANTS
  MaxTurns = 2
  HandlesErrors = TRUE
  ServerManaged = {TRUE, FALSE}
  MaxRuns = 3
  MaxInputs = 1
  MaxEvents = 1
INVARIANTS
  FinalOutputIsAccepted
  InputSavedOnce
  SentInputIsAdmitted
  AbortedCallsAnswered
PROPERTIES
  EventsWaitForGuardrails
  DeliversEvents
  StreamSettles
CHECK_DEADLOCK FALSE
