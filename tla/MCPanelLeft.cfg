SPECIFICATION Spec
CONSTANTS
  Keys = {a, b}
  FirstItems = {a}
  Configs <- MCConfigs
  MaxEvents = 2
  Overtaking = FALSE
  DisableAnytime = TRUE
INVARIANTS
  NothingShownAlone
CHECK_DEADLOCK FALSE
