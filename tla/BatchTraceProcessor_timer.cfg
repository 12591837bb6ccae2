SPECIFICATION Spec
CONSTANTS
  MaxQueueSize = 3
  MaxBatchSize = 2
  ExportTriggerSize = 2
  MaxItems = 3
  MaxStarts = 1
  MaxShutdowns = 1
PROPERTIES NoLoopAfterShutdown
CHECK_DEADLOCK FALSE
