SPECIFICATION Spec
CONSTANTS
  Keys = {a, b}
  FirstItems = {a}
  Configs <- MCConfigs
  MaxEvents = 2
  Overtaking = FALSE
  DisableAnytime = FALSE
INVARIANTS
  NothingShownAlone
  MenusAreNotInherited
  QuietPanelIsRight
PROPERTIES
  PanelFollows
CHECK_DEADLOCK FALSE
