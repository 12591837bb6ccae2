SPECIFICATION FairSpec
CONSTANTS
  MaxQueueSize = 3
  MaxBatchSize = 2
  ExportTriggerSize = 2
  MaxItems = 4
  MaxStarts = 1
  MaxShutdowns = 2
INVARIANTS
  HandedOffOnceInOrder
PROPERTIES
  WaitersAreNotMisled
  ItemsAreExported
  TimedShutdownReturns
CHECK_DEADLOCK FALSE
