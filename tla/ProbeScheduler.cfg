SPECIFICATION FairSpec
CONSTANTS
  c1 = c1
  n1 = n1
  Conns <- OneConn
  Names <- OneName
  Intervals = {1, 2}
  MaxProbes = 1
  MaxPerConn = 1
  MaxCopies = 2
  MaxChans = 2
  MaxEdits = 2
INVARIANTS TypeOK PermitsConserved
PROPERTIES WaitersServed StopCompletes IntervalTakesEffect
CHECK_DEADLOCK FALSE
