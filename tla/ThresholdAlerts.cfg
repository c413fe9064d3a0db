SPECIFICATION Spec
CONSTANTS
  Values = {1, 2}
  NoRow = NoRow
  Settings <- TwoSettings
  TriggerCount = 2
  ClearCount = 1
  ClearsWhenAbsent = TRUE
  MaxAlerts = 2
INVARIANTS TypeOK OneOpenAlert CountsSpanSamples
PROPERTIES RowLifecycle
