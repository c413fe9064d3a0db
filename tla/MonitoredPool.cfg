SPECIFICATION Spec
CONSTANTS
  p1 = p1
  p2 = p2
  p3 = p3
  srv = srv
  db1 = db1
  o1 = o1
  o2 = o2
  o3 = o3
  Procs <- ThreeProcs
  Keys <- TwoKeys
  ServerKey <- srv
  Pools <- ThreePools
  Reloader = Reloader
  None = None
  Cap = 2
  MaxCfg = 1
SYMMETRY Symm
INVARIANTS TypeOK SlotsConserved BusyWithinCap PoolsAccounted MappedWithinBound
CHECK_DEADLOCK FALSE
