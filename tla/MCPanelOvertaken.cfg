SPECIFICATION Spec
CONSTANTS
  Keys = {a}
  FirstItems = {a}
  Configs <- MCConfigs
  MaxEvents = 2
  Overtaking = TRUE
  DisableAnytime = FALSE
INVARIANTS
  QuietPanelIsRight
CHECK_DEADLOCK FALSE
