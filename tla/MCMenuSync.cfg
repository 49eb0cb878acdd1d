SPECIFICATION Spec
CONSTANTS
  Paths = {p1, p2}
  FirstPath = p1
  Tasks = {t1, t2}
  FirstTask = t1
  Calls = {c1, c2}
  MaxEvents = 2
  Overtaking = FALSE
INVARIANTS
  QuietPanelIsCurrent
PROPERTIES
  PanelCatchesUp
  TrafficEnds
CHECK_DEADLOCK FALSE
