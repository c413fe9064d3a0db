SPECIFICATION FairSpec
CONSTANTS
  w1 = w1
  Workers <- OneWorker
  QueueSize = 1
  MaxAttempts = 2
  MaxRows = 2
  MaxFaults = 1
INVARIANTS SendsBounded OutcomeTruthful
PROPERTIES RowsSettle
CHECK_DEADLOCK FALSE
