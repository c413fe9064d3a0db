SPECIFICATION FairSpec
CONSTANTS
  p1 = p1
  p2 = p2
  p3 = p3
  srv = srv
  db1 = db1
  o1 = o1
  o2 = o2
  o3 = o3
  Procs = {p1}
  Keys <- TwoKeys
  ServerKey <- srv
  Pools <- TwoPools
  Reloader = Reloader
  None = None
  Cap = 1
  MaxCfg = 2
PROPERTIES  StalePoolsReplaced
CHECK_DEADLOCK FALSE
