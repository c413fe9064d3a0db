SPECIFICATION Spec
CONSTANTS
  c1 = c1
  n1 = n1
  Conns <- OneConn
  Names <- OneName
  Intervals = {1}
  MaxProbes = 1
  MaxPerConn = 1
  MaxCopies = 1
  MaxChans = 1
  MaxEdits = 0
INVARIANTS ProbeHasGoroutine
CHECK_DEADLOCK FALSE
