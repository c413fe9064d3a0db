SPECIFICATION FairSpec
CONSTANTS
  Values = {1, 2}
  NoRow = NoRow
  Settings <- TwoSettings
  TriggerCount = 1
  ClearCount = 1
  ClearsWhenAbsent = FALSE
  MaxAlerts = 1
PROPERTIES SeverityChangeSurfaces
