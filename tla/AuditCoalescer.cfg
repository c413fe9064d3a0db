SPECIFICATION FairSpec
CONSTANTS
  d1 = d1
  d2 = d2
  f1 = f1
  DenialKeys <- TwoDenials
  FailureKeys <- OneFailure
  Window = 1
  MaxKeys = 1
  MaxAge = 2
  MaxSeen = 3
INVARIANTS EventsAccounted WithinCap OpenWindowHasRow
PROPERTIES LossNeedsRow RepeatsReported
